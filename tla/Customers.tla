------------------------------ MODULE Customers ------------------------------
(***************************************************************************)
(* What customers leave behind: saved searches with a limit per user       *)
(* (src/app/modules/users/profile_service.py), enquiries with a limit per  *)
(* address and hour, and test drives that are looked up by their reference *)
(* (src/app/modules/leads/service.py).                                     *)
(*                                                                         *)
(* One action per database call.  A request that dies, or that the         *)
(* database refuses, gives its place up and changes nothing.               *)
(***************************************************************************)
EXTENDS Integers

CONSTANTS
  Users,
  Searchers,               \* requests saving a search that can be under way at once
  MaxSavedSearches,        \* 25
  Emails,
  Enquirers,               \* enquiries that can be under way at once
  MaxInquiriesPerHour,     \* 5
  Drives,                  \* requests for a test drive
  References,              \* what _reference can draw
  Unset

VARIABLES
  searches,   \* saved_searches collection: how many each user has
  searchPc,   \* where each request saving a search is
  owner,      \* its user
  recent,     \* inquiries collection: how many each address sent within the hour
  enquiryPc,  \* where each enquiry is
  sender,     \* its address
  booked,     \* test_drives collection: the requests that have a document
  drivePc,    \* where each request for a test drive is
  reference   \* the reference it drew

searchVars == <<searches, searchPc, owner>>
enquiryVars == <<recent, enquiryPc, sender>>
driveVars == <<booked, drivePc, reference>>
customerVars == <<searchVars, enquiryVars, driveVars>>

ASSUME CustomersAssumption ==
  /\ {MaxSavedSearches, MaxInquiriesPerHour} \subseteq Nat \ {0}
  /\ Unset \notin Users \union Emails \union References

CustomersInit ==
  /\ searches = [u \in Users |-> 0]
  /\ searchPc = [s \in Searchers |-> "idle"]
  /\ owner = [s \in Searchers |-> Unset]
  /\ recent = [e \in Emails |-> 0]
  /\ enquiryPc = [q \in Enquirers |-> "idle"]
  /\ sender = [q \in Enquirers |-> Unset]
  /\ booked = {}
  /\ drivePc = [d \in Drives |-> "idle"]
  /\ reference = [d \in Drives |-> Unset]

-----------------------------------------------------------------------------
\* Saved searches

\* create_saved_search: the count, and a refusal at the limit.
CountSearches(s, u) ==
  /\ searchPc[s] = "idle"
  /\ searches[u] < MaxSavedSearches
  /\ searchPc' = [searchPc EXCEPT ![s] = "insert"]
  /\ owner' = [owner EXCEPT ![s] = u]
  /\ UNCHANGED <<searches, enquiryVars, driveVars>>

InsertSearch(s) ==
  /\ searchPc[s] = "insert"
  /\ searches' = [searches EXCEPT ![owner[s]] = @ + 1]
  /\ searchPc' = [searchPc EXCEPT ![s] = "idle"]
  /\ UNCHANGED <<owner, enquiryVars, driveVars>>

StopSearch(s) ==
  /\ searchPc[s] = "insert"
  /\ searchPc' = [searchPc EXCEPT ![s] = "idle"]
  /\ UNCHANGED <<searches, owner, enquiryVars, driveVars>>

\* Mutation of DeleteSearch: a search that is not there is counted off as well.
DeleteAny(u) ==
  /\ searches' = [searches EXCEPT ![u] = @ - 1]
  /\ UNCHANGED <<searchPc, owner, enquiryVars, driveVars>>

\* delete_saved_search, of a search that is there and the user's own.
DeleteSearch(u) ==
  /\ searches[u] > 0
  /\ searches' = [searches EXCEPT ![u] = @ - 1]
  /\ UNCHANGED <<searchPc, owner, enquiryVars, driveVars>>

-----------------------------------------------------------------------------
\* Enquiries

\* Mutation of Throttle: the limit itself still passes.
ThrottleLoosely(q, e) ==
  /\ enquiryPc[q] = "idle"
  /\ recent[e] <= MaxInquiriesPerHour
  /\ enquiryPc' = [enquiryPc EXCEPT ![q] = "vehicle"]
  /\ sender' = [sender EXCEPT ![q] = e]
  /\ UNCHANGED <<recent, searchVars, driveVars>>

\* create_inquiry: a filled honeypot is answered and recorded nowhere; an address at its
\* limit is refused.
Throttle(q, e) ==
  /\ enquiryPc[q] = "idle"
  /\ recent[e] < MaxInquiriesPerHour
  /\ enquiryPc' = [enquiryPc EXCEPT ![q] = "vehicle"]
  /\ sender' = [sender EXCEPT ![q] = e]
  /\ UNCHANGED <<recent, searchVars, driveVars>>

\* The vehicle, if the enquiry names one; an unknown one is refused (StopEnquiry).
FindVehicle(q) ==
  /\ enquiryPc[q] = "vehicle"
  /\ enquiryPc' = [enquiryPc EXCEPT ![q] = "insert"]
  /\ UNCHANGED <<recent, sender, searchVars, driveVars>>

InsertInquiry(q) ==
  /\ enquiryPc[q] = "insert"
  /\ recent' = [recent EXCEPT ![sender[q]] = @ + 1]
  /\ enquiryPc' = [enquiryPc EXCEPT ![q] = "idle"]
  /\ UNCHANGED <<sender, searchVars, driveVars>>

\* Refused for its vehicle, by the unique index on references, or dead.
StopEnquiry(q) ==
  /\ enquiryPc[q] # "idle"
  /\ enquiryPc' = [enquiryPc EXCEPT ![q] = "idle"]
  /\ UNCHANGED <<recent, sender, searchVars, driveVars>>

\* An enquiry leaves the hour the throttle looks at.
AgeInquiry(e) ==
  /\ recent[e] > 0
  /\ recent' = [recent EXCEPT ![e] = @ - 1]
  /\ UNCHANGED <<enquiryPc, sender, searchVars, driveVars>>

-----------------------------------------------------------------------------
\* Test drives

\* request_test_drive: the vehicle offers them, the date is not past; a reference is drawn.
RequestDrive(d, ref) ==
  /\ drivePc[d] = "idle"
  /\ drivePc' = [drivePc EXCEPT ![d] = "insert"]
  /\ reference' = [reference EXCEPT ![d] = ref]
  /\ UNCHANGED <<booked, searchVars, enquiryVars>>

\* The documents get_test_drive can find by a reference.
Lookup(ref) == {d \in booked : reference[d] = ref}

\* Mutation of InsertDrive: no unique index on references.
InsertDriveUnchecked(d) ==
  /\ drivePc[d] = "insert"
  /\ booked' = booked \union {d}
  /\ drivePc' = [drivePc EXCEPT ![d] = "done"]
  /\ UNCHANGED <<reference, searchVars, enquiryVars>>

\* The unique index refuses a reference that is taken, and the request fails.
InsertDrive(d) ==
  /\ drivePc[d] = "insert"
  /\ \/ /\ Lookup(reference[d]) = {}
        /\ booked' = booked \union {d}
        /\ drivePc' = [drivePc EXCEPT ![d] = "done"]
     \/ /\ Lookup(reference[d]) # {}
        /\ drivePc' = [drivePc EXCEPT ![d] = "failed"]
        /\ UNCHANGED booked
  /\ UNCHANGED <<reference, searchVars, enquiryVars>>

-----------------------------------------------------------------------------
SearchNext ==
  \/ \E s \in Searchers, u \in Users : CountSearches(s, u)
  \/ \E s \in Searchers : InsertSearch(s) \/ StopSearch(s)
  \/ \E u \in Users : DeleteSearch(u)

EnquiryNext ==
  \/ \E q \in Enquirers, e \in Emails : Throttle(q, e)
  \/ \E q \in Enquirers : FindVehicle(q) \/ InsertInquiry(q) \/ StopEnquiry(q)
  \/ \E e \in Emails : AgeInquiry(e)

DriveNext ==
  \/ \E d \in Drives, ref \in References : RequestDrive(d, ref)
  \/ \E d \in Drives : InsertDrive(d)

CustomersNext == SearchNext \/ EnquiryNext \/ DriveNext

CustomersSpec == CustomersInit /\ [][CustomersNext]_customerVars

-----------------------------------------------------------------------------
\* Properties

\* Every variable stays in its type.
CustomersTypeOK ==
  /\ searches \in [Users -> Nat]
  /\ searchPc \in [Searchers -> {"idle", "insert"}]
  /\ owner \in [Searchers -> Users \union {Unset}]
  /\ recent \in [Emails -> Nat]
  /\ enquiryPc \in [Enquirers -> {"idle", "vehicle", "insert"}]
  /\ sender \in [Enquirers -> Emails \union {Unset}]
  /\ booked \subseteq Drives
  /\ drivePc \in [Drives -> {"idle", "insert", "done", "failed"}]
  /\ reference \in [Drives -> References \union {Unset}]

SearchLimit ==
  INSTANCE Limiter WITH
    Keys <- Users, Callers <- Searchers, Limit <- MaxSavedSearches, recorded <- searches,
    passed <- [u \in Users |-> {s \in Searchers : searchPc[s] = "insert" /\ owner[s] = u}]

EnquiryLimit ==
  INSTANCE Limiter WITH
    Keys <- Emails, Callers <- Enquirers, Limit <- MaxInquiriesPerHour, recorded <- recent,
    passed <- [e \in Emails |-> {q \in Enquirers : enquiryPc[q] # "idle" /\ sender[q] = e}]

\* Both limits are counts before an insert, and hold as far as such a count can: with n
\* requests at a time a user has at most n - 1 searches too many, and an address gets at
\* most n - 1 enquiries too many through in an hour (Limiter.tla).
LimitsHold == SearchLimit!LimiterSpec /\ EnquiryLimit!LimiterSpec

\* "The reference is the only credential": a reference that was answered finds the test
\* drive of the request it was answered to, and no other.
ReferenceFindsItsOwn ==
  \A d \in Drives : drivePc[d] = "done" => Lookup(reference[d]) = {d}
=============================================================================
