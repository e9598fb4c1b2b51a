---------------------------- MODULE VendorOwner ----------------------------
(***************************************************************************)
(* Granting and revoking vendor ownership: vendorBuilder.Grant and Revoke  *)
(* (pkg/connector/vendors.go) over the client's GetVendor, a cached GET,   *)
(* and UpdateVendorOwner, a PATCH (pkg/client/vendors.go).  Several calls  *)
(* run at once, the SDK retries a call whose request fails, a response may *)
(* be lost or come late, people change owners in Ramp, and the connector   *)
(* process may restart.                                                    *)
(***************************************************************************)
EXTENDS Integers, FiniteSets

CONSTANTS
    Vendor, User,
    Nobody,          \* the empty owner ID
    Uncached,        \* no cached response
    Call,            \* slots for concurrent Grant and Revoke calls
    Caching,         \* FALSE iff the HTTP cache is disabled
    LateRequests,    \* TRUE iff a PATCH given up on may still take effect
    MaxRetries,      \* retries of a failed call by the SDK
    MaxRequests,     \* bound: calls in one behaviour
    MaxEdits         \* bound: owner changes made in Ramp itself

Owner == User \cup {Nobody}

ASSUME OwnerAssumption ==
    /\ Vendor # {} /\ User # {}
    /\ Nobody \notin User
    /\ Uncached \notin Owner
    /\ Caching \in BOOLEAN /\ LateRequests \in BOOLEAN
    /\ MaxRetries \in Nat /\ MaxRequests \in Nat /\ MaxEdits \in Nat

VARIABLES
    owner,      \* Ramp: the owner of each vendor
    inFlight,   \* Ramp: PATCHes given up on by the connector, not yet applied
    cache,      \* connector: the cached GetVendor response of each vendor
    call,       \* connector: the calls
    requests,   \* calls made so far
    edits       \* owner changes made in Ramp so far

vars == <<owner, inFlight, cache, call, requests, edits>>

Running == {"get", "answered", "patch", "patched"}
Outcome == {"granted", "already_exists", "revoked", "already_revoked", "failed"}

Patches == [vendor : Vendor, owner : Owner]

(* A call: its arguments, where it is, the owner GetVendor answered, the   *)
(* retries made and, as history, the owners it may have read: those the    *)
(* connector knew when it began, and those the vendor has had since.       *)
CallState ==
    [op : {"grant", "revoke"}, vendor : Vendor, user : User,
     pc : {"idle"} \cup Running \cup Outcome,
     answer : Owner, retries : 0..MaxRetries, held : SUBSET Owner]

(* What the PATCH of a call writes: a revoke clears the owner.             *)
NewOwner(k) == IF k.op = "grant" THEN k.user ELSE Nobody

(* Vendor v becomes o's: every running call on v has lived to see it.      *)
Seen(v, o, calls) ==
    [d \in Call |->
        IF calls[d].vendor = v /\ calls[d].pc \in Running
          THEN [calls[d] EXCEPT !.held = @ \cup {o}]
          ELSE calls[d]]

Init ==
    /\ owner \in [Vendor -> Owner]
    /\ inFlight = {}
    /\ cache = [v \in Vendor |-> Uncached]
    /\ call = [c \in Call |->
                 [op |-> "grant", vendor |-> CHOOSE v \in Vendor : TRUE,
                  user |-> CHOOSE u \in User : TRUE, pc |-> "idle",
                  answer |-> Nobody, retries |-> 0, held |-> {}]]
    /\ requests = 0
    /\ edits = 0

(* What a GetVendor beginning now may be answered: the owner now or, with  *)
(* the cache on, the one cached or in a response about to be cached.       *)
Known(v) ==
    {owner[v]} \cup
    {o \in Owner : /\ Caching
                   /\ \/ cache[v] = o
                      \/ \E d \in Call : /\ call[d].pc = "answered"
                                         /\ call[d].vendor = v
                                         /\ call[d].answer = o}

(* The platform asks for a grant or a revoke in a free slot.               *)
Request(c, op, v, u) ==
    /\ call[c].pc \notin Running
    /\ requests < MaxRequests
    /\ call' = [call EXCEPT ![c] =
                  [op |-> op, vendor |-> v, user |-> u, pc |-> "get",
                   answer |-> Nobody, retries |-> 0, held |-> Known(v)]]
    /\ requests' = requests + 1
    /\ UNCHANGED <<owner, inFlight, cache, edits>>

(* GetVendor's answer: the cached response, else what Ramp says now.       *)
VendorOwnerID(v) ==
    IF Caching /\ cache[v] # Uncached THEN cache[v] ELSE owner[v]

GetVendor(c) ==
    /\ call[c].pc = "get"
    /\ call' = [call EXCEPT ![c].pc = "answered",
                            ![c].answer = VendorOwnerID(call[c].vendor)]
    /\ UNCHANGED <<owner, inFlight, cache, requests, edits>>

(* The response reaches the client, which caches it -- again, when it came *)
(* from the cache -- and Grant or Revoke compares its owner.               *)
Cached(c) ==
    /\ call[c].pc = "answered"
    /\ cache' = IF Caching
                  THEN [cache EXCEPT ![call[c].vendor] = call[c].answer]
                  ELSE cache
    /\ UNCHANGED <<owner, inFlight, requests, edits>>

AnyOwnerWillDo(c) ==
    /\ call[c].op = "grant"
    /\ Cached(c)
    /\ call' = [call EXCEPT ![c].pc =
                  IF call[c].answer # Nobody THEN "already_exists" ELSE "patch"]

GrantDecides(c) ==
    /\ call[c].op = "grant"
    /\ Cached(c)
    /\ call' = [call EXCEPT ![c].pc =
                  IF call[c].answer = call[c].user
                    THEN "already_exists" ELSE "patch"]

ClearsUnchecked(c) ==
    /\ call[c].op = "revoke"
    /\ Cached(c)
    /\ call' = [call EXCEPT ![c].pc = "patch"]

RevokeDecides(c) ==
    /\ call[c].op = "revoke"
    /\ Cached(c)
    /\ call' = [call EXCEPT ![c].pc =
                  IF call[c].answer # call[c].user
                    THEN "already_revoked" ELSE "patch"]

EmptyOwnerLeftOut(c) ==
    /\ call[c].pc = "patch"
    /\ owner' = IF call[c].op = "revoke" THEN owner
                ELSE [owner EXCEPT ![call[c].vendor] = NewOwner(call[c])]
    /\ call' = Seen(call[c].vendor, owner'[call[c].vendor],
                    [call EXCEPT ![c].pc = "patched"])
    /\ UNCHANGED <<inFlight, cache, requests, edits>>

(* Ramp carries out the PATCH.                                             *)
UpdateVendorOwner(c) ==
    /\ call[c].pc = "patch"
    /\ owner' = [owner EXCEPT ![call[c].vendor] = NewOwner(call[c])]
    /\ call' = Seen(call[c].vendor, NewOwner(call[c]),
                    [call EXCEPT ![c].pc = "patched"])
    /\ UNCHANGED <<inFlight, cache, requests, edits>>

(* Its response arrives.                                                   *)
Returns(c) ==
    /\ call[c].pc = "patched"
    /\ call' = [call EXCEPT ![c].pc =
                  IF call[c].op = "grant" THEN "granted" ELSE "revoked"]
    /\ UNCHANGED <<owner, inFlight, cache, requests, edits>>

-----------------------------------------------------------------------------
(***************************************************************************)
(* Failures.                                                               *)
(***************************************************************************)
OneRetryTooMany(c) ==
    /\ call[c].pc \in {"get", "patch", "patched"}
    /\ call[c].retries <= MaxRetries
    /\ call' = [call EXCEPT ![c].pc = "get", ![c].retries = @ + 1]
    /\ UNCHANGED <<owner, inFlight, cache, requests, edits>>

(* A request of the call fails, before or after Ramp handled it: the SDK   *)
(* runs Grant or Revoke from its start again, or the call fails.           *)
RequestFails(c) ==
    /\ call[c].pc \in {"get", "patch", "patched"}
    /\ \/ /\ call[c].retries < MaxRetries
          /\ call' = [call EXCEPT ![c].pc = "get", ![c].retries = @ + 1]
       \/ call' = [call EXCEPT ![c].pc = "failed"]
    /\ \/ inFlight' = inFlight
       \/ /\ LateRequests /\ call[c].pc = "patch"
          /\ inFlight' = inFlight \cup
                {[vendor |-> call[c].vendor, owner |-> NewOwner(call[c])]}
    /\ UNCHANGED <<owner, cache, requests, edits>>

(* A PATCH the connector gave up on reaches Ramp after all.                *)
LatePatch(p) ==
    /\ p \in inFlight
    /\ inFlight' = inFlight \ {p}
    /\ owner' = [owner EXCEPT ![p.vendor] = p.owner]
    /\ call' = Seen(p.vendor, p.owner, call)
    /\ UNCHANGED <<cache, requests, edits>>

(* Somebody changes the owner in Ramp.                                     *)
Edit(v, o) ==
    /\ edits < MaxEdits
    /\ edits' = edits + 1
    /\ owner' = [owner EXCEPT ![v] = o]
    /\ call' = Seen(v, o, call)
    /\ UNCHANGED <<inFlight, cache, requests>>

(* The cached response reaches its TTL.                                    *)
Expire(v) ==
    /\ cache[v] # Uncached
    /\ cache' = [cache EXCEPT ![v] = Uncached]
    /\ UNCHANGED <<owner, inFlight, call, requests, edits>>

NothingCleared == UNCHANGED <<owner, inFlight, cache, call, requests, edits>>

(* The end of a full sync clears the cache.                                *)
ClearCaches ==
    /\ cache' = [v \in Vendor |-> Uncached]
    /\ UNCHANGED <<owner, inFlight, call, requests, edits>>

(* The process restarts: calls and cache are gone.                         *)
Restart ==
    /\ cache' = [v \in Vendor |-> Uncached]
    /\ call' = [c \in Call |-> IF call[c].pc \in Running
                                 THEN [call[c] EXCEPT !.pc = "failed"]
                                 ELSE call[c]]
    /\ UNCHANGED <<owner, inFlight, requests, edits>>

CallStep(c) ==
    \/ GetVendor(c)
    \/ GrantDecides(c)
    \/ RevokeDecides(c)
    \/ UpdateVendorOwner(c)
    \/ Returns(c)
    \/ RequestFails(c)

CallsNext ==
    \/ \E c \in Call, op \in {"grant", "revoke"}, v \in Vendor, u \in User :
          Request(c, op, v, u)
    \/ \E c \in Call : CallStep(c)
    \/ \E p \in Patches : LatePatch(p)
    \/ \E v \in Vendor, o \in Owner : Edit(v, o)
    \/ \E v \in Vendor : Expire(v)

Next == CallsNext \/ ClearCaches \/ Restart

Spec == Init /\ [][Next]_vars

-----------------------------------------------------------------------------
TypeOK ==
    /\ owner \in [Vendor -> Owner]
    /\ inFlight \subseteq Patches
    /\ cache \in [Vendor -> Owner \cup {Uncached}]
    /\ call \in [Call -> CallState]
    /\ requests \in 0..MaxRequests
    /\ edits \in 0..MaxEdits

(* What a call k reports is true of some owner in H: that its user owns    *)
(* the vendor if it says granted or already there, that it does not if it  *)
(* says revoked or already gone.                                           *)
ReportTrueOf(k, H) ==
    /\ k.pc \in {"granted", "already_exists"} => k.user \in H
    /\ k.pc \in {"revoked", "already_revoked"} => \E o \in H : o # k.user

(* What a call reports was true at some moment of the call or, with the    *)
(* cache on, of a response the connector had when the call began.  However *)
(* calls overlap, fail, retry and share the cache, no staler or mixed-up   *)
(* answer decides.                                                         *)
OutcomeWasTrue == \A c \in Call : ReportTrueOf(call[c], call[c].held)

(* "Revoke only clears the owner when the current owner matches the        *)
(* principal being revoked."  Revoke compares before it writes, so with    *)
(* others at work the vendor may be another's by the time of the PATCH.    *)
(* What remains true: however calls overlap, share the cache, fail and are *)
(* run again, a revoke that has come to its PATCH is one whose user owned  *)
(* the vendor at some moment of the call, or in a response the connector   *)
(* had when the call began.                                                *)
RevokeOnlyOwned ==
    \A c \in Call :
        call[c].op = "revoke" /\ call[c].pc \in {"patch", "patched", "revoked"} =>
            call[c].user \in call[c].held

(* With one call at a time and nobody else changing owners, a call's       *)
(* report stays true until the next call: a granted user owns the vendor,  *)
(* a revoked one does not.                                                 *)
OutcomeHolds ==
    \A c \in Call :
        /\ call[c].pc \in {"granted", "already_exists"} =>
              owner[call[c].vendor] = call[c].user
        /\ call[c].pc \in {"revoked", "already_revoked"} =>
              owner[call[c].vendor] # call[c].user
=============================================================================
