---------------------------- MODULE Verification ----------------------------
(***************************************************************************)
(* The identity checks of one worker: the documents he uploads             *)
(* (verificationController.ts, userController.ts), the request they belong *)
(* to, his submitting it by accepting the service agreement, the admin's   *)
(* decisions (adminVerificationController.ts), and the sweep that asks for *)
(* a new document when an approved one has expired (bookingWorker.ts).     *)
(*                                                                         *)
(* A step is one statement or one transaction: what a handler has read     *)
(* before is in call[p], and may be old when it writes.  Left out are the  *)
(* automated review, which writes only the columns an admin reads (its     *)
(* queue too), and the worker's age, birth date and experience, which only *)
(* refuse more.                                                            *)
(***************************************************************************)
EXTENDS Integers

CONSTANTS
    Kinds,          \* document types
    Required,       \* TIER_1_REQUIRED_DOCUMENT_TYPES
    Expiring,       \* those with CLEARANCE_VALIDITY_DAYS
    Validity,       \* for so long
    Cooldown,       \* COOLDOWN_HOURS
    Calls,          \* handlers at work at the same time
    Sweeps,         \* runs of flagExpiredKycDocuments at the same time
    MaxRequests,    \* bound on requests
    MaxDocuments,   \* bound on documents
    MaxTime         \* bound on time

ASSUME KindsAssumption == Kinds # {} /\ Required \subseteq Kinds /\ Expiring \subseteq Kinds

ASSUME NumbersAssumption ==
    /\ Validity \in Nat \ {0} /\ Cooldown \in Nat \ {0}
    /\ MaxRequests \in Nat /\ MaxDocuments \in Nat /\ MaxTime \in Nat

VARIABLES
    request,        \* VerificationRequest rows, in the order they were made
    document,       \* KycDocument rows
    kycStatus,      \* of the WorkerProfile
    call,           \* what a handler has read and has still to do
    sweep,          \* a sweep that has found no open re-verification
    opened,         \* requests made
    uploaded,       \* documents made
    now

counts == <<opened, uploaded, now>>
vars == <<request, document, kycStatus, call, sweep, counts>>

Requests == 1 .. MaxRequests
Documents == 1 .. MaxDocuments
Times == 0 .. MaxTime
None == 0
Never == -1

KYCStatus == {"PENDING", "SUBMITTED", "APPROVED", "REJECTED"}
\* rejectedAt, approvedAt: reviewedAt, kept where something depends on it: the
\* cooldown after a rejected request, the expiry of an approved document.
RequestRow == [type : {"WORKER_ONBOARDING", "REVERIFICATION"}, status : KYCStatus \cup {"NONE"},
               rejectedAt : Times \cup {Never}, override : BOOLEAN]
DocumentRow == [request : Requests \cup {None}, kind : Kinds,
                status : {"PENDING", "APPROVED", "REJECTED"},
                approvedAt : Times \cup {Never}, expiresAt : Nat \cup {Never}]
Steps == {"idle", "upload", "open", "document", "flip", "approve"}
Call == [at : Steps, request : Requests \cup {None}, kind : Kinds,
         documents : SUBSET Documents, override : BOOLEAN]

(* Type invariant; the rows counted are exactly those that exist.          *)
TypeOK ==
    /\ request \in [Requests -> RequestRow]
    /\ document \in [Documents -> DocumentRow]
    /\ kycStatus \in KYCStatus
    /\ call \in [Calls -> Call]
    /\ sweep \in [Sweeps -> BOOLEAN]
    /\ opened \in 0 .. MaxRequests
    /\ uploaded \in 0 .. MaxDocuments
    /\ now \in Times
    /\ \A r \in Requests : (request[r].status = "NONE") = (r > opened)
    /\ \A d \in Documents : (document[d].request = None) = (d > uploaded)

AnyKind == CHOOSE k \in Kinds : TRUE

Idle == [at |-> "idle", request |-> None, kind |-> AnyKind,
         documents |-> {}, override |-> FALSE]
NoRequest == [type |-> "WORKER_ONBOARDING", status |-> "NONE", rejectedAt |-> Never,
              override |-> FALSE]
NoDocument == [request |-> None, kind |-> AnyKind, status |-> "PENDING",
               approvedAt |-> Never, expiresAt |-> Never]

Init ==
    /\ request = [r \in Requests |-> NoRequest]
    /\ document = [d \in Documents |-> NoDocument]
    /\ kycStatus = "PENDING"
    /\ call = [p \in Calls |-> Idle]
    /\ sweep = [s \in Sweeps |-> FALSE]
    /\ opened = 0 /\ uploaded = 0 /\ now = 0

-----------------------------------------------------------------------------

Open(r) == request[r].status \in {"PENDING", "SUBMITTED"}

OpenOnboarding(r) == Open(r) /\ request[r].type = "WORKER_ONBOARDING"

\* What findFirst finds, ordered by submittedAt, descending.
Latest(r) == Open(r) /\ \A q \in Requests : Open(q) => q <= r
LatestOnboarding(r) == OpenOnboarding(r) /\ \A q \in Requests : OpenOnboarding(q) => q <= r

\* checkResubmissionCooldown, which all callers ask for this type
CooledDown ==
    \A r \in Requests : request[r].status = "REJECTED" /\ request[r].type = "WORKER_ONBOARDING"
                            => request[r].rejectedAt + Cooldown <= now

DocumentsOf(r) == {d \in Documents : document[d].request = r}

\* A document that was rejected counts as well.
Complete(r) == \A k \in Required : \E d \in DocumentsOf(r) : document[d].kind = k

Approved(x) ==
    [x EXCEPT !.status = "APPROVED", !.approvedAt = now,
              !.expiresAt = IF x.kind \in Expiring THEN now + Validity ELSE Never]

\* The date it would have expired stays.
Rejected(x) == [x EXCEPT !.status = "REJECTED", !.approvedAt = Never]

NewRequest(type) == [NoRequest EXCEPT !.type = type, !.status = "PENDING"]

NewDocument(r, k) == [NoDocument EXCEPT !.request = r, !.kind = k]

Begin(p, step, r, k) == call' = [call EXCEPT ![p] = [Idle EXCEPT !.at = step, !.request = r, !.kind = k]]

Return(p) == call' = [call EXCEPT ![p] = Idle]

-----------------------------------------------------------------------------
(* Uploading a document. *)

UploadVerificationDocuments(p, k) ==
    /\ call[p].at = "idle"
    /\ \/ \E r \in Requests : LatestOnboarding(r) /\ Begin(p, "upload", r, k)
       \/ /\ \A r \in Requests : ~OpenOnboarding(r)
          /\ CooledDown
          /\ Begin(p, "upload", None, k)
    /\ UNCHANGED <<request, document, kycStatus, sweep, counts>>

\* One transaction, on the request read before or on a new one.
UploadWrite(p) ==
    LET r == IF call[p].request = None THEN opened + 1 ELSE call[p].request IN
    /\ call[p].at = "upload"
    /\ r <= MaxRequests
    /\ uploaded < MaxDocuments
    /\ IF call[p].request = None
       THEN /\ request' = [request EXCEPT ![r] = NewRequest("WORKER_ONBOARDING")]
            /\ opened' = r
       ELSE UNCHANGED <<request, opened>>
    /\ document' = [document EXCEPT ![uploaded + 1] = NewDocument(r, call[p].kind)]
    /\ uploaded' = uploaded + 1
    /\ Return(p)
    /\ UNCHANGED <<kycStatus, sweep, now>>

SubmitKYCDocument(p, k) ==
    /\ call[p].at = "idle"
    /\ \/ \E r \in Requests : Latest(r) /\ Begin(p, "document", r, k)
       \/ (\A r \in Requests : ~Open(r)) /\ CooledDown /\ Begin(p, "open", None, k)
    /\ UNCHANGED <<request, document, kycStatus, sweep, counts>>

SubmitOpen(p) ==
    /\ call[p].at = "open"
    /\ opened < MaxRequests
    /\ request' = [request EXCEPT ![opened + 1] = NewRequest("WORKER_ONBOARDING")]
    /\ opened' = opened + 1
    /\ call' = [call EXCEPT ![p].at = "document", ![p].request = opened + 1]
    /\ UNCHANGED <<document, kycStatus, sweep, uploaded, now>>

SubmitDocument(p) ==
    /\ call[p].at = "document"
    /\ uploaded < MaxDocuments
    /\ document' = [document EXCEPT ![uploaded + 1] = NewDocument(call[p].request, call[p].kind)]
    /\ uploaded' = uploaded + 1
    /\ Return(p)
    /\ UNCHANGED <<request, kycStatus, sweep, opened, now>>

-----------------------------------------------------------------------------
(* Submitting the application: acceptContract of the service agreement. *)

\* Mutant: the documents of all the worker's requests are counted.
AcceptAnyDocuments(p) ==
    /\ call[p].at = "idle"
    /\ kycStatus # "APPROVED"
    /\ \A k \in Required : \E d \in 1 .. uploaded : document[d].kind = k
    /\ \E r \in Requests :
           /\ Latest(r)
           /\ request[r].status # "SUBMITTED" \/ kycStatus # "SUBMITTED"
           /\ Begin(p, "flip", r, AnyKind)
    /\ UNCHANGED <<request, document, kycStatus, sweep, counts>>

AcceptContract(p) ==
    /\ call[p].at = "idle"
    /\ kycStatus # "APPROVED"
    /\ \E r \in Requests :
           /\ Latest(r)
           /\ Complete(r)
           /\ request[r].status # "SUBMITTED" \/ kycStatus # "SUBMITTED"
           /\ Begin(p, "flip", r, AnyKind)
    /\ UNCHANGED <<request, document, kycStatus, sweep, counts>>

\* Neither write asks whether it was decided in between.
AcceptFlip(p) ==
    /\ call[p].at = "flip"
    /\ request' = [request EXCEPT ![call[p].request].status = "SUBMITTED"]
    /\ kycStatus' = "SUBMITTED"
    /\ Return(p)
    /\ UNCHANGED <<document, sweep, counts>>

-----------------------------------------------------------------------------
(* The admin's decisions. *)

Approvable(r, override) ==
    /\ request[r].status \notin {"NONE", "APPROVED"}
    /\ request[r].type = "WORKER_ONBOARDING" /\ ~override => Complete(r)

ApproveVerification(p, r, override) ==
    /\ call[p].at = "idle"
    /\ Approvable(r, override)
    /\ call' = [call EXCEPT ![p] =
                   [Idle EXCEPT !.at = "approve", !.request = r, !.override = override,
                                !.documents = {d \in DocumentsOf(r) : document[d].status = "PENDING"}]]
    /\ UNCHANGED <<request, document, kycStatus, sweep, counts>>

\* Mutant: only approving a document alone says when it expires.
ApproveWithoutExpiry(p) ==
    LET r == call[p].request IN
    /\ call[p].at = "approve"
    /\ document' = [d \in Documents |->
                       IF d \in call[p].documents
                       THEN [document[d] EXCEPT !.status = "APPROVED", !.approvedAt = now]
                       ELSE document[d]]
    /\ request' = [request EXCEPT ![r].status = "APPROVED", ![r].rejectedAt = Never,
                                  ![r].override = call[p].override]
    /\ kycStatus' = "APPROVED"
    /\ Return(p)
    /\ UNCHANGED <<sweep, counts>>

\* The documents that were pending when they were read are approved, whatever
\* they are now; one uploaded since is not.
ApproveWrite(p) ==
    LET r == call[p].request IN
    /\ call[p].at = "approve"
    /\ document' = [d \in Documents |->
                       IF d \in call[p].documents
                       THEN Approved(document[d])
                       ELSE document[d]]
    /\ request' = [request EXCEPT ![r].status = "APPROVED", ![r].rejectedAt = Never,
                                  ![r].override = call[p].override]
    /\ kycStatus' = "APPROVED"
    /\ Return(p)
    /\ UNCHANGED <<sweep, counts>>

\* Mutant: the worker's own status is left.
RejectQuietly(r) ==
    /\ request[r].status # "NONE"
    /\ document' = [d \in Documents |->
                       IF document[d].request = r /\ document[d].status = "PENDING"
                       THEN Rejected(document[d])
                       ELSE document[d]]
    /\ request' = [request EXCEPT ![r].status = "REJECTED", ![r].rejectedAt = now]
    /\ UNCHANGED <<kycStatus, call, sweep, counts>>

\* Mutant: a request that is not found is rejected too.
RejectMissing(r) ==
    /\ document' = [d \in Documents |->
                       IF document[d].request = r /\ document[d].status = "PENDING"
                       THEN Rejected(document[d])
                       ELSE document[d]]
    /\ request' = [request EXCEPT ![r].status = "REJECTED", ![r].rejectedAt = now]
    /\ kycStatus' = "REJECTED"
    /\ UNCHANGED <<call, sweep, counts>>

\* Any request can be rejected, an approved one as well.
RejectVerification(r) ==
    /\ request[r].status # "NONE"
    /\ document' = [d \in Documents |->
                       IF document[d].request = r /\ document[d].status = "PENDING"
                       THEN Rejected(document[d])
                       ELSE document[d]]
    /\ request' = [request EXCEPT ![r].status = "REJECTED", ![r].rejectedAt = now]
    /\ kycStatus' = "REJECTED"
    /\ UNCHANGED <<call, sweep, counts>>

ApproveDocument(d) ==
    /\ d <= uploaded
    /\ document' = [document EXCEPT ![d] = Approved(@)]
    /\ UNCHANGED <<request, kycStatus, call, sweep, counts>>

RejectDocument(d) ==
    /\ d <= uploaded
    /\ document' = [document EXCEPT ![d] = Rejected(@)]
    /\ UNCHANGED <<request, kycStatus, call, sweep, counts>>

-----------------------------------------------------------------------------
(* The sweep, flagExpiredKycDocuments. *)

Expired(d) ==
    /\ d <= uploaded
    /\ document[d].status = "APPROVED"
    /\ document[d].expiresAt # Never /\ document[d].expiresAt <= now
    /\ request[document[d].request].status = "APPROVED"

AlreadyOpen == \E r \in Requests : Open(r) /\ request[r].type = "REVERIFICATION"

FlagExpired(s) ==
    /\ ~sweep[s]
    /\ \E d \in Documents : Expired(d)
    /\ ~AlreadyOpen
    /\ sweep' = [sweep EXCEPT ![s] = TRUE]
    /\ UNCHANGED <<request, document, kycStatus, call, counts>>

FlagWrite(s) ==
    /\ sweep[s]
    /\ opened < MaxRequests
    /\ request' = [request EXCEPT ![opened + 1] = NewRequest("REVERIFICATION")]
    /\ opened' = opened + 1
    /\ sweep' = [sweep EXCEPT ![s] = FALSE]
    /\ UNCHANGED <<document, kycStatus, call, uploaded, now>>

-----------------------------------------------------------------------------

\* A handler dies between two statements.
Die(p) ==
    /\ call[p].at # "idle"
    /\ Return(p)
    /\ UNCHANGED <<request, document, kycStatus, sweep, counts>>

Tick ==
    /\ now < MaxTime
    /\ now' = now + 1
    /\ UNCHANGED <<request, document, kycStatus, call, sweep, opened, uploaded>>

Handler(p) ==
    \/ \E k \in Kinds : UploadVerificationDocuments(p, k) \/ SubmitKYCDocument(p, k)
    \/ UploadWrite(p) \/ SubmitOpen(p) \/ SubmitDocument(p)
    \/ AcceptContract(p) \/ AcceptFlip(p)
    \/ \E r \in Requests, override \in BOOLEAN : ApproveVerification(p, r, override)
    \/ ApproveWrite(p)
    \/ Die(p)

Next ==
    \/ \E p \in Calls : Handler(p)
    \/ \E r \in Requests : RejectVerification(r)
    \/ \E d \in Documents : ApproveDocument(d) \/ RejectDocument(d)
    \/ \E s \in Sweeps : FlagExpired(s) \/ FlagWrite(s)
    \/ Tick

Spec == Init /\ [][Next]_vars

\* The sweep is repeated; nobody has to do anything.
Fairness ==
    \A s \in Sweeps : WF_vars(FlagExpired(s)) /\ WF_vars(FlagWrite(s))

FairSpec == Spec /\ Fairness

-----------------------------------------------------------------------------
(* Properties. *)

(* The worker's own status, which searching and accepting jobs ask for, is *)
(* always the status of one of his requests: no decision, no submission    *)
(* that crosses a decision, and no second request leaves a worker approved *)
(* whom no standing decision approves.  (approveVerification,              *)
(* rejectVerification and acceptContract each write both rows.)            *)
StatusHasRequest ==
    kycStatus # "PENDING" => \E r \in Requests : request[r].status = kycStatus

(* What waits for an admin as a submitted application has every required   *)
(* document, and so has an approved onboarding that no admin has waived    *)
(* them for, though both were checked against documents read earlier.      *)
NothingIncomplete ==
    \A r \in Requests :
        \/ request[r].status = "SUBMITTED"
        \/ /\ request[r].status = "APPROVED" /\ request[r].type = "WORKER_ONBOARDING"
           /\ ~request[r].override
        => Complete(r)

(* A document that lapses after its validity does not go unnoticed while   *)
(* its request stands approved: a re-verification is opened, unless one is *)
(* (flagExpiredKycDocuments).  MaxRequests ends the requests of the model. *)
Lapsed(d) ==
    /\ document[d].status = "APPROVED" /\ document[d].kind \in Expiring
    /\ document[d].approvedAt + Validity <= now
    /\ d <= uploaded /\ request[document[d].request].status = "APPROVED"

LapseIsFlagged ==
    \A d \in Documents :
        Lapsed(d) ~> (AlreadyOpen \/ ~Lapsed(d) \/ opened = MaxRequests)
=============================================================================
