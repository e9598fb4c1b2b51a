------------------------- MODULE VendorOwnerProofs -------------------------
(***************************************************************************)
(* Theorems about VendorOwner: types, and that what a call reports was     *)
(* true at some moment of the call or of a response known when it began,   *)
(* for any number of concurrent calls, retries, restarts, late PATCHes and *)
(* edits, with the cache on or off, and that a revoke clears the owner     *)
(* only when such an owner was its user; and that what a call reports      *)
(* stays true when calls do not overlap and the cache is off.              *)
(***************************************************************************)
EXTENDS VendorOwner, TLAPS

(* A step of Seen changes nothing but the histories, and keeps the types.  *)
LEMMA SeenTypes ==
    ASSUME NEW v \in Vendor, NEW o \in Owner,
           NEW calls \in [Call -> CallState]
    PROVE  /\ Seen(v, o, calls) \in [Call -> CallState]
           /\ \A d \in Call :
                 Seen(v, o, calls)[d] =
                    [calls[d] EXCEPT !.held =
                       IF calls[d].vendor = v /\ calls[d].pc \in Running
                         THEN @ \cup {o} ELSE @]
<1>1. ASSUME NEW d \in Call
      PROVE  /\ Seen(v, o, calls)[d] \in CallState
             /\ Seen(v, o, calls)[d] =
                    [calls[d] EXCEPT !.held =
                       IF calls[d].vendor = v /\ calls[d].pc \in Running
                         THEN @ \cup {o} ELSE @]
  <2>1. calls[d] \in CallState
    OBVIOUS
  <2> QED BY <2>1 DEF Seen, CallState
<1> QED BY <1>1 DEF Seen

LEMMA InitTypeOK == Init => TypeOK
<1>1. (CHOOSE v \in Vendor : TRUE) \in Vendor /\ (CHOOSE u \in User : TRUE) \in User
  BY OwnerAssumption
<1> QED BY <1>1, OwnerAssumption DEF Init, TypeOK, CallState, Owner

LEMMA NextTypeOK == TypeOK /\ [Next]_vars => TypeOK'
<1> SUFFICES ASSUME TypeOK, [Next]_vars PROVE TypeOK'
  OBVIOUS
<1> USE OwnerAssumption DEF TypeOK
<1>1. ASSUME NEW c \in Call, NEW op \in {"grant", "revoke"}, NEW v \in Vendor,
             NEW u \in User, Request(c, op, v, u)
      PROVE  TypeOK'
  <2>1. [op |-> op, vendor |-> v, user |-> u, pc |-> "get", answer |-> Nobody,
         retries |-> 0, held |-> Known(v)] \in CallState
    BY DEF CallState, Running, Owner, Known
  <2> QED BY <1>1, <2>1 DEF Request
<1>2. ASSUME NEW c \in Call, GetVendor(c)
      PROVE  TypeOK'
  <2>1. call[c] \in CallState /\ call[c].vendor \in Vendor
    BY DEF CallState
  <2>2. VendorOwnerID(call[c].vendor) \in Owner
    BY <2>1 DEF VendorOwnerID
  <2>3. call' \in [Call -> CallState]
    BY <1>2, <2>1, <2>2 DEF GetVendor, CallState, Running
  <2> QED BY <1>2, <2>3 DEF GetVendor
<1>3. ASSUME NEW c \in Call, GrantDecides(c) \/ RevokeDecides(c)
      PROVE  TypeOK'
  <2>1. call[c] \in CallState /\ call[c].vendor \in Vendor /\ call[c].answer \in Owner
    BY DEF CallState
  <2>2. call' \in [Call -> CallState]
    BY <1>3, <2>1 DEF GrantDecides, RevokeDecides, CallState, Running, Outcome
  <2> QED BY <1>3, <2>1, <2>2 DEF GrantDecides, RevokeDecides, Cached
<1>4. ASSUME NEW c \in Call, UpdateVendorOwner(c)
      PROVE  TypeOK'
  <2>1. call[c] \in CallState
    OBVIOUS
  <2>2. call[c].vendor \in Vendor /\ NewOwner(call[c]) \in Owner
    BY <2>1 DEF CallState, NewOwner, Owner
  <2>3. [call EXCEPT ![c].pc = "patched"] \in [Call -> CallState]
    BY <2>1 DEF CallState, Running
  <2>4. call' \in [Call -> CallState]
    BY <1>4, <2>2, <2>3, SeenTypes DEF UpdateVendorOwner
  <2> QED BY <1>4, <2>2, <2>4 DEF UpdateVendorOwner
<1>5. ASSUME NEW c \in Call, Returns(c)
      PROVE  TypeOK'
  <2>1. call' \in [Call -> CallState]
    BY <1>5 DEF Returns, CallState, Outcome
  <2> QED BY <1>5, <2>1 DEF Returns
<1>6. ASSUME NEW c \in Call, RequestFails(c)
      PROVE  TypeOK'
  <2>1. call[c] \in CallState
    OBVIOUS
  <2>2. [vendor |-> call[c].vendor, owner |-> NewOwner(call[c])] \in Patches
    BY <2>1 DEF CallState, NewOwner, Owner, Patches
  <2>3. call' \in [Call -> CallState]
    BY <1>6, <2>1 DEF RequestFails, CallState, Outcome, Running
  <2> QED BY <1>6, <2>2, <2>3 DEF RequestFails
<1>7. ASSUME NEW p \in Patches, LatePatch(p)
      PROVE  TypeOK'
  <2>1. p.vendor \in Vendor /\ p.owner \in Owner
    BY DEF Patches
  <2> QED BY <1>7, <2>1, SeenTypes DEF LatePatch
<1>8. ASSUME NEW v \in Vendor, NEW o \in Owner, Edit(v, o)
      PROVE  TypeOK'
  BY <1>8, SeenTypes DEF Edit
<1>9. ASSUME NEW v \in Vendor, Expire(v)
      PROVE  TypeOK'
  BY <1>9 DEF Expire
<1>10. CASE ClearCaches
  BY <1>10 DEF ClearCaches
<1>11. CASE Restart
  <2>1. call' \in [Call -> CallState]
    BY <1>11 DEF Restart, CallState, Outcome
  <2> QED BY <1>11, <2>1 DEF Restart
<1>12. CASE UNCHANGED vars
  BY <1>12 DEF vars
<1> QED BY <1>1, <1>2, <1>3, <1>4, <1>5, <1>6, <1>7, <1>8, <1>9, <1>10, <1>11,
           <1>12 DEF Next, CallsNext, CallStep

(* Every reachable state of the granting and revoking code is well typed.  *)
THEOREM TypeCorrect == Spec => []TypeOK
  BY InitTypeOK, NextTypeOK, PTL DEF Spec

-----------------------------------------------------------------------------
(***************************************************************************)
(* The inductive invariant.  A running call has noted its vendor's present *)
(* owner and all that a GetVendor may be answered; what it was answered,   *)
(* and what it wrote, are among the owners it has noted; and so is the     *)
(* user of a revoke that has come to its PATCH.                            *)
(***************************************************************************)
CallSound(k, own) ==
    /\ k.pc \in Running => own[k.vendor] \in k.held
    /\ k.pc = "answered" => k.answer \in k.held
    /\ k.pc = "patched" => NewOwner(k) \in k.held
    /\ k.op = "revoke" /\ k.pc \in {"patch", "patched", "revoked"} =>
          k.user \in k.held
    /\ k.pc \in {"granted", "already_exists"} => k.user \in k.held
    /\ k.pc \in {"revoked", "already_revoked"} =>
          \E o \in k.held : o # k.user

ReadsHeld ==
    \A d \in Call :
        call[d].pc \in Running => Known(call[d].vendor) \subseteq call[d].held

OutcomeInv ==
    /\ TypeOK
    /\ ReadsHeld
    /\ \A c \in Call : CallSound(call[c], owner)

(* A vendor's new owner, with every call on it noting so, keeps calls      *)
(* sound.                                                                  *)
LEMMA SeenSound ==
    ASSUME NEW v \in Vendor, NEW o \in Owner,
           NEW own \in [Vendor -> Owner], NEW calls \in [Call -> CallState],
           NEW d \in Call, CallSound(calls[d], own)
    PROVE  CallSound(Seen(v, o, calls)[d], [own EXCEPT ![v] = o])
<1> DEFINE k == calls[d]
           m == Seen(v, o, calls)[d]
<1>1. k \in CallState
  OBVIOUS
<1>2. m = [k EXCEPT !.held = IF k.vendor = v /\ k.pc \in Running
                               THEN @ \cup {o} ELSE @]
  BY SeenTypes
<1> HIDE DEF k, m
<1>3. /\ m.op = k.op /\ m.vendor = k.vendor /\ m.user = k.user /\ m.pc = k.pc
      /\ m.answer = k.answer /\ k.held \subseteq m.held
      /\ k.vendor = v /\ k.pc \in Running => o \in m.held
      /\ k.vendor \in Vendor
  BY <1>1, <1>2 DEF CallState
<1>4. m.pc \in Running => [own EXCEPT ![v] = o][m.vendor] \in m.held
  <2>1. k.pc \in Running => own[k.vendor] \in k.held
    BY DEF CallSound, k
  <2>2. CASE k.vendor = v
    BY <1>3, <2>2
  <2>3. CASE k.vendor # v
    BY <1>3, <2>1, <2>3
  <2> QED BY <2>2, <2>3
<1>5. CallSound(k, own)
  BY DEF k
<1>6. NewOwner(m) = NewOwner(k)
  BY <1>3 DEF NewOwner
<1> QED BY <1>3, <1>4, <1>5, <1>6 DEF CallSound, m

(* Nothing becomes readable that was not, but for a vendor's new owner.    *)
LEMMA NextReadsHeld == TypeOK /\ ReadsHeld /\ [Next]_vars => ReadsHeld'
<1> SUFFICES ASSUME TypeOK, ReadsHeld, [Next]_vars,
                    NEW d \in Call, call'[d].pc \in Running,
                    NEW x, (x \in Known(call[d].vendor))'
             PROVE  x \in call'[d].held
  BY DEF ReadsHeld
<1> DEFINE w == call'[d].vendor
           AnsweredWas(e) ==
              call'[e].pc = "answered" =>
                 /\ call[e].pc = "answered"
                 /\ call[e].vendor = call'[e].vendor
                 /\ call[e].answer = call'[e].answer
           HeldOnly(e) ==
              /\ call[e].pc \in Running
              /\ call[e].vendor = call'[e].vendor
              /\ call[e].held \subseteq call'[e].held
<1>1. \/ x = owner'[w]
      \/ /\ x \in Owner /\ Caching
         /\ \/ cache'[w] = x
            \/ \E e \in Call : /\ call'[e].pc = "answered"
                               /\ call'[e].vendor = w
                               /\ call'[e].answer = x
  BY DEF Known
<1>2. \A v, y :
        \/ y = owner[v]
        \/ /\ y \in Owner /\ Caching
           /\ \/ cache[v] = y
              \/ \E e \in Call : /\ call[e].pc = "answered"
                                 /\ call[e].vendor = v
                                 /\ call[e].answer = y
        => y \in Known(v)
  BY DEF Known
<1>3. ASSUME x = owner'[w] => owner[w] = x \/ x \in call'[d].held, HeldOnly(d),
             cache'[w] = x /\ Caching /\ x \in Owner =>
                x \in Known(w),
             \A e \in Call : AnsweredWas(e)
      PROVE  x \in call'[d].held
  <2>1. x \in Known(w) \/ x \in call'[d].held
    BY <1>1, <1>2, <1>3
  <2>2. Known(w) \subseteq call[d].held
    BY <1>3 DEF ReadsHeld
  <2> QED BY <1>3, <2>1, <2>2
<1>4. call \in [Call -> CallState] /\ call[d] \in CallState /\ Uncached \notin Owner
  BY OwnerAssumption DEF TypeOK
<1> HIDE DEF w
<1>5. cache' = cache \/ cache'[w] = Uncached =>
        (cache'[w] = x /\ Caching /\ x \in Owner => x \in Known(w))
  BY <1>2, <1>4
<1>6. ASSUME NEW c \in Call, NEW op \in {"grant", "revoke"}, NEW v \in Vendor,
             NEW u \in User, Request(c, op, v, u)
      PROVE  x \in call'[d].held
  <2>1. \A e \in Call : AnsweredWas(e)
    BY <1>4, <1>6 DEF Request, Running
  <2>2. CASE d # c
    <3>1. HeldOnly(d)
      BY <1>4, <1>6, <2>2 DEF Request
    <3> QED BY <1>3, <1>5, <1>6, <2>1, <3>1 DEF Request
  <2>3. CASE d = c
    <3>1. w = v /\ call'[d].held = Known(v)
      BY <1>4, <1>6, <2>3 DEF Request, w
    <3>2. owner' = owner /\ cache' = cache
      BY <1>6 DEF Request
    <3> QED BY <1>1, <1>2, <2>1, <3>1, <3>2
  <2> QED BY <2>2, <2>3
<1>7. ASSUME NEW c \in Call, GetVendor(c)
      PROVE  x \in call'[d].held
  <2>1. HeldOnly(d)
    BY <1>4, <1>7 DEF GetVendor, Running
  <2>2. \A e \in Call : e # c => AnsweredWas(e)
    BY <1>4, <1>7 DEF GetVendor
  <2>3. call'[c].vendor = call[c].vendor
        /\ call'[c].answer = VendorOwnerID(call[c].vendor)
    BY <1>4, <1>7 DEF GetVendor
  <2>4. VendorOwnerID(w) \in Known(w)
    <3>1. w \in Vendor
      BY <1>4, <2>1 DEF CallState, w
    <3>2. owner[w] \in Owner /\ cache[w] \in Owner \cup {Uncached}
      BY <3>1 DEF TypeOK
    <3> QED BY <1>2, <3>2 DEF VendorOwnerID
  <2>5. owner' = owner /\ cache' = cache
    BY <1>7 DEF GetVendor
  <2>6. x \in Known(w)
    BY <1>1, <1>2, <2>2, <2>3, <2>4, <2>5
  <2>7. Known(w) \subseteq call[d].held
    BY <2>1 DEF ReadsHeld, w
  <2> QED BY <2>1, <2>6, <2>7
<1>8. ASSUME NEW c \in Call, GrantDecides(c) \/ RevokeDecides(c)
      PROVE  x \in call'[d].held
  <2>1. HeldOnly(d) /\ \A e \in Call : AnsweredWas(e)
    <3>1. call[c].pc = "answered" /\ call[c] \in CallState
      BY <1>4, <1>8 DEF GrantDecides, RevokeDecides, Cached
    <3>2. \A e \in Call : e # c => call'[e] = call[e]
      BY <1>4, <1>8 DEF GrantDecides, RevokeDecides
    <3>3. /\ call'[c].vendor = call[c].vendor /\ call'[c].held = call[c].held
          /\ call'[c].pc \in {"already_exists", "already_revoked", "patch"}
      BY <1>4, <1>8, <3>1 DEF GrantDecides, RevokeDecides, CallState
    <3>4. HeldOnly(d)
      BY <3>1, <3>2, <3>3 DEF Running
    <3>5. ASSUME NEW e \in Call PROVE AnsweredWas(e)
      BY <3>2, <3>3
    <3> QED BY <3>4, <3>5
  <2>2. owner' = owner
    BY <1>8 DEF GrantDecides, RevokeDecides, Cached
  <2>3. cache'[w] = x /\ Caching /\ x \in Owner => x \in Known(w)
    <3>1. w \in Vendor
      BY <1>4, <2>1 DEF CallState, w
    <3>2. Caching => cache' = [cache EXCEPT ![call[c].vendor] = call[c].answer]
      BY <1>8 DEF GrantDecides, RevokeDecides, Cached
    <3>3. call[c].pc = "answered"
      BY <1>8 DEF GrantDecides, RevokeDecides, Cached
    <3>4. cache \in [Vendor -> Owner \cup {Uncached}]
      BY DEF TypeOK
    <3> QED BY <1>2, <3>1, <3>2, <3>3, <3>4
  <2> QED BY <1>3, <2>1, <2>2, <2>3
<1>9. ASSUME NEW v \in Vendor, NEW o \in Owner, NEW calls \in [Call -> CallState],
             call' = Seen(v, o, calls), owner' = [owner EXCEPT ![v] = o],
             cache' = cache,
             \A e \in Call :
                /\ calls[e].pc \in Running <=> call[e].pc \in Running
                /\ calls[e].pc = "answered" <=> call[e].pc = "answered"
                /\ calls[e].vendor = call[e].vendor
                /\ calls[e].answer = call[e].answer
                /\ calls[e].held = call[e].held
      PROVE  x \in call'[d].held
  <2>1. \A e \in Call :
           /\ call'[e].pc = calls[e].pc
           /\ call'[e].vendor = calls[e].vendor
           /\ call'[e].answer = calls[e].answer
           /\ calls[e].held \subseteq call'[e].held
           /\ calls[e].vendor = v /\ calls[e].pc \in Running => o \in call'[e].held
    <3> SUFFICES ASSUME NEW e \in Call
                 PROVE  /\ call'[e].pc = calls[e].pc
                        /\ call'[e].vendor = calls[e].vendor
                        /\ call'[e].answer = calls[e].answer
                        /\ calls[e].held \subseteq call'[e].held
                        /\ calls[e].vendor = v /\ calls[e].pc \in Running =>
                              o \in call'[e].held
      OBVIOUS
    <3>1. calls[e] \in CallState
      OBVIOUS
    <3>2. call'[e] = [calls[e] EXCEPT !.held =
                        IF calls[e].vendor = v /\ calls[e].pc \in Running
                          THEN @ \cup {o} ELSE @]
      BY <1>9, SeenTypes
    <3> QED BY <3>1, <3>2 DEF CallState
  <2>2. HeldOnly(d) /\ \A e \in Call : AnsweredWas(e)
    <3>1. HeldOnly(d)
      BY <1>9, <2>1
    <3>2. ASSUME NEW e \in Call PROVE AnsweredWas(e)
      BY <1>9, <2>1
    <3> QED BY <3>1, <3>2
  <2>3. x = owner'[w] => owner[w] = x \/ x \in call'[d].held
    <3>1. w \in Vendor /\ w = calls[d].vendor /\ calls[d].pc \in Running
      BY <1>4, <1>9, <2>1, <2>2 DEF CallState, w
    <3>2. owner \in [Vendor -> Owner]
      BY DEF TypeOK
    <3> QED BY <1>9, <2>1, <3>1, <3>2
  <2> QED BY <1>3, <1>5, <1>9, <2>2, <2>3
<1>10. ASSUME NEW c \in Call, UpdateVendorOwner(c)
       PROVE  x \in call'[d].held
  <2> DEFINE calls == [call EXCEPT ![c].pc = "patched"]
  <2>1. call[c] \in CallState /\ call[c].pc = "patch"
    BY <1>4, <1>10 DEF UpdateVendorOwner
  <2>2. call[c].vendor \in Vendor /\ NewOwner(call[c]) \in Owner
    BY <2>1 DEF CallState, NewOwner, Owner
  <2>3. calls \in [Call -> CallState]
    BY <1>4, <2>1 DEF CallState, Running
  <2>4. \A e \in Call :
                /\ calls[e].pc \in Running <=> call[e].pc \in Running
                /\ calls[e].pc = "answered" <=> call[e].pc = "answered"
                /\ calls[e].vendor = call[e].vendor
                /\ calls[e].answer = call[e].answer
                /\ calls[e].held = call[e].held
    BY <1>4, <2>1 DEF CallState, Running
  <2> HIDE DEF calls
  <2> QED BY <1>9, <1>10, <2>2, <2>3, <2>4 DEF UpdateVendorOwner, calls
<1>11. ASSUME NEW c \in Call, Returns(c) \/ RequestFails(c)
       PROVE  x \in call'[d].held
  <2>1. HeldOnly(d) /\ \A e \in Call : AnsweredWas(e)
    <3>1. call[c].pc \in {"get", "patch", "patched"} /\ call[c] \in CallState
      BY <1>4, <1>11 DEF Returns, RequestFails
    <3>2. \A e \in Call : e # c => call'[e] = call[e]
      BY <1>4, <1>11 DEF Returns, RequestFails
    <3>3. /\ call'[c].vendor = call[c].vendor /\ call'[c].answer = call[c].answer
          /\ call'[c].held = call[c].held
          /\ call'[c].pc \in {"get", "failed", "granted", "revoked"}
      BY <1>4, <1>11, <3>1 DEF Returns, RequestFails, CallState
    <3>4. HeldOnly(d)
      BY <3>1, <3>2, <3>3 DEF Running
    <3>5. ASSUME NEW e \in Call PROVE AnsweredWas(e)
      BY <3>2, <3>3
    <3> QED BY <3>4, <3>5
  <2>2. owner' = owner /\ cache' = cache
    BY <1>11 DEF Returns, RequestFails
  <2> QED BY <1>3, <1>5, <2>1, <2>2
<1>12. ASSUME NEW p \in Patches, LatePatch(p)
       PROVE  x \in call'[d].held
  BY <1>4, <1>9, <1>12 DEF LatePatch, Patches
<1>13. ASSUME NEW v \in Vendor, NEW o \in Owner, Edit(v, o)
       PROVE  x \in call'[d].held
  BY <1>4, <1>9, <1>13 DEF Edit
<1>14. ASSUME owner' = owner, call' = call,
              cache' = cache \/ cache'[w] = cache[w] \/ cache'[w] = Uncached
       PROVE  x \in call'[d].held
  BY <1>2, <1>3, <1>4, <1>14
<1>15. ASSUME NEW v \in Vendor, Expire(v)
       PROVE  x \in call'[d].held
  <2>1. w \in Vendor
    BY <1>4, <1>15 DEF Expire, w, CallState
  <2> QED BY <1>14, <1>15, <2>1 DEF Expire, TypeOK
<1>16. CASE ClearCaches
  <2>1. w \in Vendor
    BY <1>4, <1>16 DEF ClearCaches, w, CallState
  <2> QED BY <1>14, <1>16, <2>1 DEF ClearCaches
<1>17. CASE Restart
  BY <1>4, <1>17 DEF Restart, CallState, Running
<1>18. CASE UNCHANGED vars
  BY <1>14, <1>18 DEF vars
<1> QED BY <1>6, <1>7, <1>8, <1>10, <1>11, <1>12, <1>13, <1>15, <1>16, <1>17,
           <1>18 DEF Next, CallsNext, CallStep

LEMMA NextOutcomeInv == OutcomeInv /\ [Next]_vars => OutcomeInv'
<1> SUFFICES ASSUME OutcomeInv, [Next]_vars PROVE OutcomeInv'
  OBVIOUS
<1>1. TypeOK /\ TypeOK' /\ ReadsHeld /\ ReadsHeld'
  BY NextTypeOK, NextReadsHeld DEF OutcomeInv
<1>2. \A c \in Call : CallSound(call[c], owner)
  BY DEF OutcomeInv
<1> SUFFICES ASSUME NEW d \in Call PROVE CallSound(call'[d], owner')
  <2>1. ASSUME \A d \in Call : CallSound(call'[d], owner')
        PROVE  (\A d \in Call : CallSound(call[d], owner))'
    BY <2>1 DEF CallSound, NewOwner
  <2> QED BY <1>1, <2>1 DEF OutcomeInv
<1>3. call[d] \in CallState /\ CallSound(call[d], owner)
      /\ call \in [Call -> CallState] /\ owner \in [Vendor -> Owner]
  BY <1>1, <1>2 DEF TypeOK
<1>4. ASSUME NEW c \in Call, NEW op \in {"grant", "revoke"}, NEW v \in Vendor,
             NEW u \in User, Request(c, op, v, u)
      PROVE  CallSound(call'[d], owner')
  BY <1>3, <1>4 DEF Request, CallSound, Running, Known
<1>5. ASSUME NEW c \in Call, GetVendor(c)
      PROVE  CallSound(call'[d], owner')
  <2>1. VendorOwnerID(call[c].vendor) \in call[c].held
    <3>1. call[c].vendor \in Vendor /\ call[c].pc \in Running
      BY <1>1, <1>5 DEF GetVendor, TypeOK, CallState, Running
    <3>2. cache[call[c].vendor] \in Owner \cup {Uncached}
      BY <1>1, <3>1 DEF TypeOK
    <3>3. VendorOwnerID(call[c].vendor) \in Known(call[c].vendor)
      BY <3>2 DEF VendorOwnerID, Known
    <3> QED BY <1>1, <3>1, <3>3 DEF ReadsHeld
  <2> QED BY <1>2, <1>3, <1>5, <2>1 DEF GetVendor, CallSound, Running, CallState
<1>6. ASSUME NEW c \in Call, GrantDecides(c)
      PROVE  CallSound(call'[d], owner')
  BY <1>2, <1>3, <1>6 DEF GrantDecides, Cached, CallSound, Running, CallState
<1>7. ASSUME NEW c \in Call, RevokeDecides(c)
      PROVE  CallSound(call'[d], owner')
  BY <1>2, <1>3, <1>7 DEF RevokeDecides, Cached, CallSound, Running, CallState
<1>8. ASSUME NEW c \in Call, UpdateVendorOwner(c)
      PROVE  CallSound(call'[d], owner')
  <2> DEFINE v == call[c].vendor
             o == NewOwner(call[c])
             calls == [call EXCEPT ![c].pc = "patched"]
  <2>1. call[c] \in CallState /\ call[c].pc = "patch"
    BY <1>3, <1>8 DEF UpdateVendorOwner
  <2>2. v \in Vendor /\ o \in Owner
    BY <2>1 DEF CallState, NewOwner, Owner
  <2>3. calls \in [Call -> CallState]
    BY <1>3, <2>1 DEF CallState, Running
  <2>4. owner' = [owner EXCEPT ![v] = o] /\ call' = Seen(v, o, calls)
    BY <1>8 DEF UpdateVendorOwner
  <2>5. CASE d # c
    <3>1. calls[d] = call[d]
      BY <2>5
    <3> QED BY <1>3, <2>2, <2>3, <2>4, <3>1, SeenSound
  <2>6. CASE d = c
    <3>1. calls[c] = [call[c] EXCEPT !.pc = "patched"]
      BY <1>3
    <3>2. call'[c] = [calls[c] EXCEPT !.held = @ \cup {o}]
      <4>1. calls[c].vendor = v /\ calls[c].pc \in Running
        BY <2>1, <3>1 DEF CallState, Running
      <4> HIDE DEF calls, v, o
      <4> QED BY <2>2, <2>3, <2>4, <4>1 DEF Seen
    <3>3. /\ call'[c].pc = "patched" /\ call'[c].vendor = v
          /\ o \in call'[c].held /\ NewOwner(call'[c]) = o
      BY <2>1, <3>1, <3>2 DEF CallState, NewOwner
    <3>4. owner'[v] = o
      BY <1>3, <2>2, <2>4
    <3>5. call'[c].op = "revoke" => call'[c].user \in call'[c].held
      <4>1. call[c].op = "revoke" => call[c].user \in call[c].held
        BY <1>2, <2>1 DEF CallSound
      <4>2. /\ call'[c].op = call[c].op /\ call'[c].user = call[c].user
            /\ call[c].held \subseteq call'[c].held
        BY <2>1, <3>1, <3>2 DEF CallState
      <4> QED BY <4>1, <4>2
    <3> QED BY <2>6, <3>3, <3>4, <3>5 DEF CallSound
  <2> QED BY <2>5, <2>6
<1>9. ASSUME NEW c \in Call, Returns(c)
      PROVE  CallSound(call'[d], owner')
  <2>1. c = d => NewOwner(call[c]) \in call[c].held /\ call[c].user # Nobody
    BY <1>3, <1>9, OwnerAssumption DEF Returns, CallSound, CallState
  <2> QED BY <1>3, <1>9, <2>1 DEF Returns, CallSound, CallState, NewOwner, Running
<1>10. ASSUME NEW c \in Call, RequestFails(c)
       PROVE  CallSound(call'[d], owner')
  BY <1>3, <1>10 DEF RequestFails, CallSound, CallState, Running
<1>11. ASSUME NEW p \in Patches, LatePatch(p)
       PROVE  CallSound(call'[d], owner')
  BY <1>3, <1>11, SeenSound DEF LatePatch, Patches
<1>12. ASSUME NEW v \in Vendor, NEW o \in Owner, Edit(v, o)
       PROVE  CallSound(call'[d], owner')
  BY <1>3, <1>12, SeenSound DEF Edit
<1>13. ASSUME NEW v \in Vendor, Expire(v)
       PROVE  CallSound(call'[d], owner')
  BY <1>3, <1>13 DEF Expire
<1>14. CASE ClearCaches
  BY <1>3, <1>14 DEF ClearCaches
<1>15. CASE Restart
  BY <1>3, <1>15 DEF Restart, CallSound, CallState, Running
<1>16. CASE UNCHANGED vars
  BY <1>3, <1>16 DEF vars
<1> QED BY <1>4, <1>5, <1>6, <1>7, <1>8, <1>9, <1>10, <1>11, <1>12, <1>13, <1>14,
           <1>15, <1>16 DEF Next, CallsNext, CallStep

LEMMA OutcomeInvHolds == Spec => []OutcomeInv
<1>1. Init => OutcomeInv
  <2>1. Init => \A c \in Call : CallSound(call[c], owner)
    BY DEF Init, CallSound, Running
  <2>2. Init => ReadsHeld
    BY DEF Init, ReadsHeld, Running
  <2> QED BY <2>1, <2>2, InitTypeOK DEF OutcomeInv
<1>2. OutcomeInv /\ [Next]_vars => OutcomeInv'
  BY NextOutcomeInv
<1> QED BY <1>1, <1>2, PTL DEF Spec

(* What a call reports was true at some moment of the call or, with the    *)
(* HTTP cache on, of a response the connector had when the call began,     *)
(* whatever other calls, retries and edits go on around it.                *)
THEOREM OutcomesTrue == Spec => []OutcomeWasTrue
<1>1. OutcomeInv => OutcomeWasTrue
  BY DEF OutcomeInv, CallSound, OutcomeWasTrue, ReportTrueOf
<1> QED BY <1>1, OutcomeInvHolds, PTL

(* Whatever goes on around it, a revoke clears the owner only if its user  *)
(* owned the vendor at some moment of the call or in a response known when *)
(* the call began.                                                         *)
THEOREM RevokesOnlyOwned == Spec => []RevokeOnlyOwned
<1>1. OutcomeInv => RevokeOnlyOwned
  BY DEF OutcomeInv, CallSound, RevokeOnlyOwned
<1> QED BY <1>1, OutcomeInvHolds, PTL

-----------------------------------------------------------------------------
(***************************************************************************)
(* One call at a time, without the cache, and nobody else who changes      *)
(* owners: what a call read stays true until it writes, and what it        *)
(* reports until the next call.  A call may still fail after Ramp carried  *)
(* out its PATCH and be run again.                                         *)
(***************************************************************************)
Quiet ==
    /\ \A c, d \in Call : c = d
    /\ ~Caching /\ ~LateRequests
    /\ MaxEdits = 0

(* A call k at a vendor that is o's.                                       *)
Undisturbed(k, o) ==
    /\ k.pc = "answered" => k.answer = o
    /\ k.pc = "patch" /\ k.op = "revoke" => o = k.user
    /\ k.pc = "patched" => o = NewOwner(k)
    /\ k.pc \in {"granted", "already_exists"} => o = k.user
    /\ k.pc \in {"revoked", "already_revoked"} => o # k.user

QuietInv ==
    /\ TypeOK
    /\ inFlight = {}
    /\ \A c \in Call : Undisturbed(call[c], owner[call[c].vendor])

LEMMA NextQuietInv == Quiet /\ QuietInv /\ [Next]_vars => QuietInv'
<1> SUFFICES ASSUME Quiet, QuietInv, [Next]_vars PROVE QuietInv'
  OBVIOUS
<1> USE OwnerAssumption
<1>1. TypeOK /\ TypeOK' /\ inFlight = {} /\ ~Caching /\ ~LateRequests
      /\ call \in [Call -> CallState] /\ owner \in [Vendor -> Owner]
  BY NextTypeOK DEF Quiet, QuietInv, TypeOK
<1>2. inFlight' = {}
  BY <1>1 DEF Next, CallsNext, CallStep, Request, GetVendor, GrantDecides,
              RevokeDecides, Cached, UpdateVendorOwner, Returns, RequestFails,
              LatePatch, Edit, Expire, ClearCaches, Restart, vars
<1> SUFFICES ASSUME NEW c \in Call
             PROVE  Undisturbed(call'[c], owner'[call'[c].vendor])
  <2>1. ASSUME \A c \in Call : Undisturbed(call'[c], owner'[call'[c].vendor])
        PROVE  (\A c \in Call : Undisturbed(call[c], owner[call[c].vendor]))'
    BY <2>1 DEF Undisturbed, NewOwner
  <2> QED BY <1>1, <1>2, <2>1 DEF QuietInv
<1>3. Undisturbed(call[c], owner[call[c].vendor]) /\ call[c] \in CallState
      /\ \A d \in Call : d = c
  BY <1>1 DEF QuietInv, Quiet
<1>4. ASSUME NEW op \in {"grant", "revoke"}, NEW v \in Vendor, NEW u \in User,
             Request(c, op, v, u)
      PROVE  Undisturbed(call'[c], owner'[call'[c].vendor])
  BY <1>1, <1>4 DEF Request, Undisturbed
<1>5. CASE GetVendor(c)
  <2>1. /\ call'[c] = [call[c] EXCEPT !.pc = "answered",
                                       !.answer = owner[call[c].vendor]]
        /\ owner' = owner
    BY <1>1, <1>5 DEF GetVendor, VendorOwnerID
  <2>2. call'[c].pc = "answered" /\ call'[c].vendor = call[c].vendor
        /\ call'[c].answer = owner[call[c].vendor]
    BY <1>3, <2>1 DEF CallState
  <2> QED BY <2>1, <2>2 DEF Undisturbed
<1>6. CASE GrantDecides(c)
  BY <1>1, <1>3, <1>6 DEF GrantDecides, Cached, Undisturbed, CallState
<1>7. CASE RevokeDecides(c)
  BY <1>1, <1>3, <1>7 DEF RevokeDecides, Cached, Undisturbed, CallState
<1>8. CASE UpdateVendorOwner(c)
  <2> DEFINE v == call[c].vendor
             o == NewOwner(call[c])
             calls == [call EXCEPT ![c].pc = "patched"]
  <2>1. v \in Vendor /\ o \in Owner /\ calls \in [Call -> CallState]
    BY <1>1, <1>3 DEF CallState, NewOwner, Owner, Running
  <2>2. owner' = [owner EXCEPT ![v] = o] /\ call' = Seen(v, o, calls)
    BY <1>8 DEF UpdateVendorOwner
  <2>3. /\ calls[c].pc = "patched" /\ calls[c].vendor = v
        /\ NewOwner(calls[c]) = o
    BY <1>1, <1>3 DEF CallState, NewOwner
  <2>4. calls[c] \in CallState
        /\ call'[c] = [calls[c] EXCEPT !.held =
                         IF calls[c].vendor = v /\ calls[c].pc \in Running
                           THEN @ \cup {o} ELSE @]
    <3> HIDE DEF calls, v, o
    <3> QED BY <2>1, <2>2, SeenTypes
  <2> DEFINE k == calls[c]
  <2>5. /\ call'[c].pc = "patched" /\ call'[c].vendor = v
        /\ NewOwner(call'[c]) = o
    <3> HIDE DEF k
    <3>1. call'[c] = [k EXCEPT !.held = call'[c].held] /\ k \in CallState
      BY <2>4 DEF k, CallState
    <3>2. call'[c].pc = k.pc /\ call'[c].vendor = k.vendor
          /\ call'[c].op = k.op /\ call'[c].user = k.user
      BY <3>1 DEF CallState
    <3> QED BY <2>3, <3>2 DEF NewOwner, k
  <2>6. owner'[v] = o
    BY <1>1, <2>1, <2>2
  <2> QED BY <2>5, <2>6 DEF Undisturbed
<1>9. CASE Returns(c)
  BY <1>1, <1>3, <1>9 DEF Returns, Undisturbed, NewOwner, CallState
<1>10. CASE RequestFails(c)
  BY <1>1, <1>3, <1>10 DEF RequestFails, Undisturbed, CallState
<1>11. CASE Restart
  BY <1>1, <1>3, <1>11 DEF Restart, Undisturbed, CallState, Running
<1>12. ASSUME call' = call, owner' = owner
       PROVE  Undisturbed(call'[c], owner'[call'[c].vendor])
  BY <1>3, <1>12
<1>13. ASSUME NEW v \in Vendor, NEW o \in Owner, Edit(v, o)
       PROVE  FALSE
  BY <1>1, <1>13 DEF Edit, TypeOK, Quiet
<1> QED BY <1>1, <1>3, <1>4, <1>5, <1>6, <1>7, <1>8, <1>9, <1>10, <1>11, <1>12,
           <1>13
        DEF Next, CallsNext, CallStep, LatePatch, Expire, ClearCaches, vars

LEMMA InitQuietInv == Init => QuietInv
<1> SUFFICES ASSUME Init PROVE QuietInv
  OBVIOUS
<1>1. TypeOK /\ inFlight = {} /\ \A c \in Call : call[c].pc = "idle"
  BY InitTypeOK DEF Init
<1> QED BY <1>1 DEF QuietInv, Undisturbed

(* With one call at a time, no cache and no other writer, what Grant and   *)
(* Revoke report stays true until the next call, retried PATCHes included. *)
THEOREM OutcomesHold == ASSUME Quiet PROVE Spec => []OutcomeHolds
<1>1. Init => QuietInv
  BY InitQuietInv
<1>2. QuietInv /\ [Next]_vars => QuietInv'
  BY NextQuietInv
<1>3. QuietInv => OutcomeHolds
  BY DEF QuietInv, Undisturbed, OutcomeHolds
<1> QED BY <1>1, <1>2, <1>3, PTL DEF Spec
=============================================================================
