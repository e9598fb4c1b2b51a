-------------------------- MODULE AuditEventTarget --------------------------
(***************************************************************************)
(* From a Ramp audit-log entry to the resource the connector reports as    *)
(* changed: shouldSkipAuditEvent, toResourceChangeEvent and the helpers    *)
(* they call (pkg/connector/audit_event_feed.go).                          *)
(*                                                                         *)
(* A URL is the sequence of its "/"-separated segments.  A segment keeps   *)
(* the text before its first '?' or '#' as a name (EmptyName when there    *)
(* is none) and whether such a character follows: that is all the code's   *)
(* substring search, cut and unescape can tell apart.                      *)
(***************************************************************************)
EXTENDS Integers, Sequences

CONSTANTS
    Name,                     \* identifiers and URL words
    EmptyName,                \* the empty string
    ContractsWord,            \* the word "contracts"
    Unescaped,                \* url.PathUnescape; a malformed name maps to itself
    VendorAgreementsEnabled   \* the feed's vendorAgreementsEnabled field

ASSUME NameAssumption ==
    /\ EmptyName \in Name
    /\ ContractsWord \in Name \ {EmptyName}
    /\ Unescaped \in [Name -> Name]
    /\ \A n \in Name : Unescaped[n] = EmptyName <=> n = EmptyName
    /\ VendorAgreementsEnabled \in BOOLEAN

Segment == [name : Name, cut : BOOLEAN]

VendorType    == "vendor"
AgreementType == "vendor_agreement"

Resource   == [type : {VendorType, AgreementType}, id : Name]
NoResource == [type |-> "none", id |-> EmptyName]

(***************************************************************************)
(* An entry's primary reference, and the entry itself.  "lifecycle" stands *)
(* for the event types of the vendorManagementEventTypes table, "deleted"  *)
(* for the two deletions it leaves out on purpose, "other" for the rest.   *)
(***************************************************************************)
Reference ==
    [present : BOOLEAN, merchant : BOOLEAN, id : Name, url : Seq(Segment)]
EventType  == {"lifecycle", "deleted", "other"}
AuditEntry == [type : EventType, ref : Reference]

VendorManagementEventTypes == {"lifecycle"}

-----------------------------------------------------------------------------
(* "/contracts/" starts at the end of segment k-1: a whole segment equal   *)
(* to the word, with a segment on either side.                             *)
ContractsAt(url, k) ==
    /\ k \in 2..(Len(url) - 1)
    /\ url[k] = [name |-> ContractsWord, cut |-> FALSE]

IsAgreementURL(url) == \E k \in DOMAIN url : ContractsAt(url, k)

(* The name after the FIRST "/contracts/", cut at '/', '?' or '#'.         *)
AgreementIDFromURL(url) ==
    LET first == CHOOSE k \in DOMAIN url :
                    /\ ContractsAt(url, k)
                    /\ \A j \in 1..(k - 1) : ~ContractsAt(url, j)
    IN  Unescaped[url[first + 1].name]

AuditEventResourceTarget(ref) ==
    IF ~ref.present
      THEN NoResource
    ELSE IF IsAgreementURL(ref.url)
      THEN [type |-> AgreementType, id |-> AgreementIDFromURL(ref.url)]
    ELSE IF ref.id = EmptyName
      THEN NoResource
    ELSE [type |-> VendorType, id |-> ref.id]

ShouldSkipAuditEvent(ae) ==
    \/ ~ae.ref.present
    \/ ~ae.ref.merchant
    \/ ae.type \notin VendorManagementEventTypes
    \/ AuditEventResourceTarget(ae.ref).id = EmptyName

ToResourceChangeEvent(ae) ==
    LET target == AuditEventResourceTarget(ae.ref)
    IN  IF \/ target.id = EmptyName
           \/ target.type = AgreementType /\ ~VendorAgreementsEnabled
        THEN NoResource
        ELSE target

(* The loop body's last two steps: the change an entry reports, if any.    *)
ReportedChange(ae) ==
    IF ShouldSkipAuditEvent(ae) THEN NoResource ELSE ToResourceChangeEvent(ae)
=============================================================================
