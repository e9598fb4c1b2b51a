----------------------------- MODULE RampValues -----------------------------
(***************************************************************************)
(* What the connector makes of the values Ramp writes: dates, money,       *)
(* names and renewal statuses, as the traits of vendors and agreements     *)
(* (pkg/connector/vendor_agreements.go, vendors.go, pkg/client/models.go). *)
(*                                                                         *)
(* A written date is its form and the instant it denotes, midnight UTC for *)
(* a day.  An amount is in thousandths of the major unit.                  *)
(***************************************************************************)
EXTENDS Integers

CONSTANTS
    Refused,      \* an error instead of a value
    Omitted       \* a field the trait does not carry

NoName     == ""
ZeroTime   == 0
Unreadable == -1
Milli      == 1000

Written == [form : {"empty", "day", "timestamp", "other"}, at : Nat]
Money   == [amount : Int, currency : STRING, rate : Int]

-----------------------------------------------------------------------------
Truncated(m) ==
    LET rate == IF m.rate <= 0 THEN 100 ELSE m.rate
        v    == m.amount * rate
    IN  IF v >= 0 THEN v \div Milli ELSE -((-v) \div Milli)

(* Half a unit is added away from zero before the conversion to int64      *)
(* drops the fraction.                                                     *)
MinorUnits(m) ==
    LET rate == IF m.rate <= 0 THEN 100 ELSE m.rate
        v    == m.amount * rate
        half == Milli \div 2
    IN  IF m.currency = NoName THEN 0
        ELSE IF v >= 0 THEN (v + half) \div Milli
        ELSE -((half - v) \div Milli)

(* Money without a currency, absent money included, is left out.           *)
rampMoneyToTraitMoney(m) ==
    IF m.currency = NoName THEN Omitted
    ELSE [minor |-> MinorUnits(m), currency |-> m.currency]

RenewalStatus ==
    {"NOT_STARTED", "INITIATED", "RENEWED", "CANCELLED", "REJECTED", "EXPIRED"}

mapRampRenewalStatus(raw) ==
    IF raw \in RenewalStatus THEN raw ELSE "UNSPECIFIED"

parseRampDate(w) ==
    CASE w.form = "empty" -> ZeroTime
      [] w.form \in {"day", "timestamp"} -> w.at
      [] OTHER -> Unreadable

Readable(w) == parseRampDate(w) # Unreadable

Field(time) == IF time = ZeroTime THEN Omitted ELSE time

(* The SDK's check: each pair of dates, when both are set.                 *)
validateDateOrdering(start, end, last) ==
    end # ZeroTime => start <= end /\ last <= end

-----------------------------------------------------------------------------
(* The agreement's own trait: an unreadable or misordered date refuses the *)
(* whole of it.                                                            *)
buildAgreementTraitOption(a) ==
    LET start == parseRampDate(a.start)
        end   == parseRampDate(a.end)
        last  == parseRampDate(a.last)
    IN  IF \/ ~Readable(a.start) \/ ~Readable(a.end) \/ ~Readable(a.last)
           \/ ~validateDateOrdering(start, end, last)
        THEN Refused
        ELSE [start  |-> Field(start),
              end    |-> Field(end),
              last   |-> Field(last),
              status |-> IF a.status = NoName THEN Omitted
                         ELSE mapRampRenewalStatus(a.status),
              raw    |-> a.status,
              total  |-> rampMoneyToTraitMoney(a.total)]

(* The SDK refuses a vendor without an ID or a name.                       *)
WithVendorIdentity(id, name, dba) ==
    IF id = NoName \/ name = NoName THEN Refused
    ELSE [id |-> id, name |-> name, dba |-> dba]

buildAgreementVendorTraitOption(a) ==
    WithVendorIdentity(a.PayeeID,
                       IF a.PayeeName = NoName THEN a.name ELSE a.PayeeName,
                       NoName)

(* A vendor's names: Ramp's legal name, if any, is the trait's name, and   *)
(* its trade name the "doing business as" name where the two differ.       *)
LegalNameOnly(v) ==
    WithVendorIdentity(v.id, IF v.legal = NoName THEN v.name ELSE v.legal, NoName)

buildVendorTraitOption(v) ==
    WithVendorIdentity(v.id,
        IF v.legal = NoName THEN v.name ELSE v.legal,
        IF v.legal # NoName /\ v.legal # v.name THEN v.name ELSE NoName)

buildAgreementResource(a) ==
    LET vendor == buildAgreementVendorTraitOption(a)
        trait  == buildAgreementTraitOption(a)
    IN  IF vendor = Refused \/ trait = Refused THEN Refused
        ELSE [name |-> a.name, vendor |-> vendor, trait |-> trait]

PayeeUUIDFirst(g) ==
    [name |-> g.name, start |-> g.start, end |-> g.end, last |-> g.last,
     status |-> g.status, total |-> g.total, owners |-> g.owners,
     PayeeID |-> g.payee.uuid, PayeeName |-> g.payee.name]

(* GetVendorAgreement's answer in the shape of a list item.                *)
vendorAgreementListItemFromGet(g) ==
    [name |-> g.name, start |-> g.start, end |-> g.end, last |-> g.last,
     status |-> g.status, total |-> g.total, owners |-> g.owners,
     PayeeID   |-> IF g.payee.businessVendor # NoName
                     THEN g.payee.businessVendor ELSE g.payee.uuid,
     PayeeName |-> IF g.payee.name = NoName
                     THEN g.payee.dba ELSE g.payee.name]

-----------------------------------------------------------------------------
(* The nearest whole number of minor units, away from zero in a tie: what  *)
(* the comment at MinorUnits promises.                                     *)
IsNearest(u, thousandths) ==
    LET off == Milli * u - thousandths
    IN  /\ -(Milli \div 2) <= off /\ off <= Milli \div 2
        /\ off = Milli \div 2 => thousandths > 0
        /\ off = -(Milli \div 2) => thousandths < 0
=============================================================================
