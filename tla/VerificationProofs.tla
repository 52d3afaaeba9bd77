------------------------- MODULE VerificationProofs -------------------------
(***************************************************************************)
(* That a worker's status is that of one of his requests, and that no      *)
(* incomplete application is submitted or approved, for any number of      *)
(* handlers, sweeps, requests and documents.  What was read before must    *)
(* still be true of what is written: CallInv says which of it is, and it   *)
(* is because documents are never taken back and never change (Grows).     *)
(***************************************************************************)
EXTENDS Verification, TLAPS

(* What a handler has read, while it is at work: its request exists, and   *)
(* what it has found complete still is.                                    *)
CallOK(p) ==
    /\ call[p].at \in {"document", "flip", "approve"} => call[p].request \in 1 .. opened
    /\ call[p].at = "upload" => call[p].request \in 0 .. opened
    /\ call[p].at = "flip" => Complete(call[p].request)
    /\ call[p].at = "approve" /\ request[call[p].request].type = "WORKER_ONBOARDING"
           /\ ~call[p].override => Complete(call[p].request)

CallInv == \A p \in Calls : CallOK(p)

Inv == TypeOK /\ CallInv /\ StatusHasRequest /\ NothingIncomplete

(* What no step undoes.                                                    *)
Grows ==
    /\ opened \in Nat /\ uploaded \in Nat /\ opened' \in Nat /\ uploaded' \in Nat
    /\ opened <= opened' /\ uploaded <= uploaded'
    /\ \A d \in 1 .. uploaded : document'[d].request = document[d].request
                                /\ document'[d].kind = document[d].kind
    /\ \A r \in 1 .. opened : request'[r].type = request[r].type

USE DEF None, Never

-----------------------------------------------------------------------------
(* Types. *)

(* There is a kind of document.                                             *)
LEMMA AnyKindIsKind == AnyKind \in Kinds
BY KindsAssumption DEF AnyKind

(* A call at rest is a call.                                                *)
LEMMA IdleTyped == Idle \in Call
BY AnyKindIsKind DEF Idle, Call, Steps

(* A new request is open.                                                   *)
LEMMA NewRequestTyped ==
    ASSUME NEW t \in {"WORKER_ONBOARDING", "REVERIFICATION"}
    PROVE  /\ NewRequest(t) \in RequestRow
           /\ NewRequest(t).status = "PENDING" /\ NewRequest(t).type = t
BY DEF NewRequest, NoRequest, RequestRow, KYCStatus

(* A new document belongs to its request.                                   *)
LEMMA NewDocumentTyped ==
    ASSUME NEW r \in Requests, NEW k \in Kinds
    PROVE  /\ NewDocument(r, k) \in DocumentRow
           /\ NewDocument(r, k).request = r
BY AnyKindIsKind DEF NewDocument, NoDocument, DocumentRow

(* Deciding over a document changes neither whose it is nor what it is.    *)
LEMMA DecidedTyped ==
    ASSUME NEW x \in DocumentRow, TypeOK
    PROVE  /\ Approved(x) \in DocumentRow /\ Rejected(x) \in DocumentRow
           /\ Approved(x).request = x.request /\ Approved(x).kind = x.kind
           /\ Rejected(x).request = x.request /\ Rejected(x).kind = x.kind
<1>1. now \in Times /\ now \in Nat /\ now + Validity \in Nat
    BY NumbersAssumption DEF TypeOK, Times
<1>2. Approved(x) \in DocumentRow /\ Approved(x).request = x.request /\ Approved(x).kind = x.kind
    BY <1>1 DEF Approved, DocumentRow
<1>3. Rejected(x) \in DocumentRow /\ Rejected(x).request = x.request /\ Rejected(x).kind = x.kind
    BY DEF Rejected, DocumentRow
<1> QED  BY <1>2, <1>3

(* The rows at first have their types.                                      *)
LEMMA InitTyped == Init => TypeOK
<1> SUFFICES ASSUME Init PROVE TypeOK
    OBVIOUS
<1>1. NoRequest \in RequestRow /\ NoRequest.status = "NONE"
    BY DEF NoRequest, RequestRow
<1>2. NoDocument \in DocumentRow /\ NoDocument.request = None
    BY AnyKindIsKind DEF NoDocument, DocumentRow
<1> QED  BY <1>1, <1>2, IdleTyped, NumbersAssumption
         DEF Init, TypeOK, KYCStatus, Times, Requests, Documents

(* A call that begins or returns leaves every call typed.                  *)
LEMMA CallTyped ==
    ASSUME TypeOK, NEW p \in Calls, NEW step \in Steps, NEW r \in Requests \cup {None},
           NEW k \in Kinds, Begin(p, step, r, k)
    PROVE  /\ call' \in [Calls -> Call]
           /\ call'[p].at = step /\ call'[p].request = r /\ call'[p].documents = {}
           /\ call'[p].override = FALSE
           /\ \A q \in Calls \ {p} : call'[q] = call[q]
<1> DEFINE c == [Idle EXCEPT !.at = step, !.request = r, !.kind = k]
<1>1. c \in Call /\ c.at = step /\ c.request = r /\ c.documents = {} /\ c.override = FALSE
    BY IdleTyped DEF Idle, Call, Steps
<1>2. call' = [call EXCEPT ![p] = c] /\ call \in [Calls -> Call]
    BY DEF Begin, TypeOK
<1> HIDE DEF c
<1> QED  BY <1>1, <1>2

(* A call that returns is at rest.                                          *)
LEMMA ReturnTyped ==
    ASSUME TypeOK, NEW p \in Calls, Return(p)
    PROVE  /\ call' \in [Calls -> Call]
           /\ call'[p].at = "idle"
           /\ \A q \in Calls \ {p} : call'[q] = call[q]
<1>1. call' = [call EXCEPT ![p] = Idle] /\ call \in [Calls -> Call] /\ Idle.at = "idle"
    BY DEF Return, TypeOK, Idle
<1> QED  BY <1>1, IdleTyped

(* A request that is open exists.                                          *)
LEMMA OpenExists ==
    ASSUME TypeOK, NEW r \in Requests, request[r].status # "NONE"
    PROVE  r \in 1 .. opened
BY NumbersAssumption DEF TypeOK, Requests

(* A document with a request has been uploaded.                             *)
LEMMA DocumentsExist ==
    ASSUME TypeOK, NEW d \in Documents, document[d].request # None
    PROVE  d \in 1 .. uploaded
BY NumbersAssumption DEF TypeOK, Documents

-----------------------------------------------------------------------------
(* What is complete stays so. *)

(* A request that has its documents keeps them.                             *)
LEMMA CompleteKept ==
    ASSUME TypeOK, Grows, NEW r \in 1 .. opened, Complete(r)
    PROVE  Complete(r)'
<1>1. ASSUME NEW k \in Required
      PROVE  \E d \in Documents : document'[d].request = r /\ document'[d].kind = k
    <2>1. PICK d \in Documents : document[d].request = r /\ document[d].kind = k
        BY DEF Complete, DocumentsOf
    <2>2. r # None
        BY DEF TypeOK
    <2>3. d \in 1 .. uploaded
        BY <2>1, <2>2, DocumentsExist
    <2> QED  BY <2>1, <2>3 DEF Grows
<1> QED  BY <1>1 DEF Complete, DocumentsOf

(* The calls that a step leaves alone keep what they have read.            *)
LEMMA OthersKept ==
    ASSUME TypeOK, CallInv, Grows, NEW q \in Calls, call'[q] = call[q]
    PROVE  CallOK(q)'
<1>1. CallOK(q)
    BY DEF CallInv
<1>2. CASE call[q].at \in {"document", "flip", "approve"}
    <2>1. PICK r \in 1 .. opened : r = call[q].request
        BY <1>1, <1>2 DEF CallOK
    <2>2. r \in 1 .. opened' /\ request'[r].type = request[r].type
        BY <2>1 DEF Grows
    <2>3. Complete(r) => Complete(r)'
        BY <2>1, CompleteKept
    <2>4. /\ call[q].at = "flip" => Complete(r)'
          /\ call[q].at = "approve" /\ request'[r].type = "WORKER_ONBOARDING"
                 /\ ~call[q].override => Complete(r)'
        BY <1>1, <2>1, <2>2, <2>3 DEF CallOK
    <2>5. Complete(call[q].request)' = Complete(r)'
        BY <2>1 DEF Complete, DocumentsOf
    <2> QED  BY <1>2, <2>1, <2>2, <2>4, <2>5 DEF CallOK
<1>3. CASE call[q].at \notin {"document", "flip", "approve"}
    BY <1>1, <1>3 DEF CallOK, Grows
<1> QED  BY <1>2, <1>3

(* Calls that stay where they are keep what they have read.                 *)
LEMMA CallsKept ==
    ASSUME Inv, Grows, \A q \in Calls : call'[q] = call[q] \/ CallOK(q)'
    PROVE  CallInv'
BY OthersKept DEF Inv, CallInv

(* A step that decides nothing: the requests that exist are as they were,  *)
(* and a new one is open.                                                  *)
Undecided ==
    /\ kycStatus' = kycStatus
    /\ \A r \in 1 .. opened : request'[r] = request[r]
    /\ \A r \in Requests \ (1 .. opened) : request'[r].status \in {"NONE", "PENDING"}

(* It keeps both properties.                                                *)
LEMMA UndecidedKept ==
    ASSUME Inv, Grows, Undecided
    PROVE  StatusHasRequest' /\ NothingIncomplete'
<1>1. StatusHasRequest'
    <2> SUFFICES ASSUME kycStatus' # "PENDING"
                 PROVE  \E r \in Requests : request'[r].status = kycStatus'
        BY DEF StatusHasRequest
    <2>1. kycStatus # "PENDING" /\ kycStatus' = kycStatus
        BY DEF Undecided
    <2>2. PICK r \in Requests : request[r].status = kycStatus
        BY <2>1 DEF Inv, StatusHasRequest
    <2>3. request[r].status # "NONE"
        BY <2>2 DEF Inv, TypeOK, KYCStatus
    <2>4. r \in 1 .. opened
        BY <2>3, OpenExists DEF Inv
    <2> QED  BY <2>1, <2>2, <2>4 DEF Undecided
<1>2. NothingIncomplete'
    <2> SUFFICES ASSUME NEW r \in Requests,
                        \/ request'[r].status = "SUBMITTED"
                        \/ /\ request'[r].status = "APPROVED"
                           /\ request'[r].type = "WORKER_ONBOARDING" /\ ~request'[r].override
                 PROVE  Complete(r)'
        BY DEF NothingIncomplete
    <2>1. r \in 1 .. opened /\ request'[r] = request[r]
        BY DEF Undecided
    <2>2. Complete(r)
        BY <2>1 DEF Inv, NothingIncomplete
    <2> QED  BY <2>1, <2>2, CompleteKept DEF Inv
<1> QED  BY <1>1, <1>2

(* A step that only begins or ends a call.                                 *)
LEMMA ReadKept ==
    ASSUME Inv, UNCHANGED <<request, document, kycStatus, sweep, counts>>,
           call' \in [Calls -> Call],
           \A q \in Calls : call'[q] = call[q] \/ CallOK(q)'
    PROVE  Inv'
<1>1. TypeOK'
    BY DEF Inv, TypeOK, counts
<1>2. Grows
    BY NumbersAssumption DEF Inv, TypeOK, Grows, counts
<1>3. Undecided
    <2>1. \A r \in Requests \ (1 .. opened) : request[r].status = "NONE"
        BY OpenExists DEF Inv
    <2> QED  BY <2>1 DEF Undecided, counts
<1> QED  BY <1>1, <1>2, <1>3, CallsKept, UndecidedKept DEF Inv

-----------------------------------------------------------------------------
(* Reading. *)

(* The read of an upload.                                                   *)
LEMMA UploadReadKept ==
    ASSUME Inv, NEW p \in Calls, NEW k \in Kinds, UploadVerificationDocuments(p, k)
    PROVE  Inv'
<1>1. PICK r \in Requests \cup {None} : Begin(p, "upload", r, k) /\ (r = None \/ Open(r))
    BY DEF UploadVerificationDocuments, LatestOnboarding, OpenOnboarding
<1>2. r \in 0 .. opened
    <2>1. CASE r = None
        BY <2>1, NumbersAssumption DEF Inv, TypeOK
    <2>2. CASE r # None
        BY <1>1, <2>2, OpenExists DEF Inv, Open
    <2> QED  BY <2>1, <2>2
<1>3. /\ call' \in [Calls -> Call]
      /\ call'[p].at = "upload" /\ call'[p].request = r
      /\ \A q \in Calls \ {p} : call'[q] = call[q]
    BY <1>1, CallTyped DEF Inv, Steps
<1>4. UNCHANGED <<request, document, kycStatus, sweep, counts>>
    BY DEF UploadVerificationDocuments
<1>5. CallOK(p)'
    BY <1>2, <1>3, <1>4 DEF CallOK, counts
<1> QED  BY <1>3, <1>4, <1>5, ReadKept

(* The read of a submission.                                                *)
LEMMA SubmitReadKept ==
    ASSUME Inv, NEW p \in Calls, NEW k \in Kinds, SubmitKYCDocument(p, k)
    PROVE  Inv'
<1>1. UNCHANGED <<request, document, kycStatus, sweep, counts>>
    BY DEF SubmitKYCDocument
<1>2. CASE \E r \in Requests : Latest(r) /\ Begin(p, "document", r, k)
    <2>1. PICK r \in Requests : Open(r) /\ Begin(p, "document", r, k)
        BY <1>2 DEF Latest
    <2>2. r \in 1 .. opened
        BY <2>1, OpenExists DEF Inv, Open
    <2>3. /\ call' \in [Calls -> Call]
          /\ call'[p].at = "document" /\ call'[p].request = r
          /\ \A q \in Calls \ {p} : call'[q] = call[q]
        BY <2>1, CallTyped DEF Inv, Steps
    <2>4. CallOK(p)'
        BY <1>1, <2>2, <2>3 DEF CallOK, counts
    <2> QED  BY <1>1, <2>3, <2>4, ReadKept
<1>3. CASE Begin(p, "open", None, k)
    <2>1. /\ call' \in [Calls -> Call]
          /\ call'[p].at = "open"
          /\ \A q \in Calls \ {p} : call'[q] = call[q]
        BY <1>3, CallTyped DEF Inv, Steps
    <2>2. CallOK(p)'
        BY <2>1 DEF CallOK
    <2> QED  BY <1>1, <2>1, <2>2, ReadKept
<1> QED  BY <1>2, <1>3 DEF SubmitKYCDocument

(* The read of a contract accepted: what it finds complete stays complete.  *)
LEMMA AcceptReadKept ==
    ASSUME Inv, NEW p \in Calls, AcceptContract(p)
    PROVE  Inv'
<1>1. PICK r \in Requests : Open(r) /\ Complete(r) /\ Begin(p, "flip", r, AnyKind)
    BY DEF AcceptContract, Latest
<1>2. r \in 1 .. opened
    BY <1>1, OpenExists DEF Inv, Open
<1>3. /\ call' \in [Calls -> Call]
      /\ call'[p].at = "flip" /\ call'[p].request = r
      /\ \A q \in Calls \ {p} : call'[q] = call[q]
    BY <1>1, CallTyped, AnyKindIsKind DEF Inv, Steps
<1>4. UNCHANGED <<request, document, kycStatus, sweep, counts>>
    BY DEF AcceptContract
<1>5. Complete(r)'
    BY <1>1, <1>4 DEF Complete, DocumentsOf
<1>6. Complete(call[p].request)'
    BY <1>3, <1>5 DEF Complete, DocumentsOf
<1>7. CallOK(p)'
    BY <1>2, <1>3, <1>4, <1>6 DEF CallOK, counts
<1> QED  BY <1>3, <1>4, <1>7, ReadKept

(* The read of an approval: likewise, or an admin overrides it.             *)
LEMMA ApproveReadKept ==
    ASSUME Inv, NEW p \in Calls, NEW r \in Requests, NEW override \in BOOLEAN,
           ApproveVerification(p, r, override)
    PROVE  Inv'
<1> DEFINE c == [Idle EXCEPT !.at = "approve", !.request = r, !.override = override,
                             !.documents = {d \in DocumentsOf(r) : document[d].status = "PENDING"}]
<1>1. r \in 1 .. opened
    BY OpenExists DEF Inv, ApproveVerification, Approvable
<1>2. c \in Call /\ c.at = "approve" /\ c.request = r /\ c.override = override
    BY IdleTyped DEF Idle, Call, Steps, DocumentsOf
<1>3. call' = [call EXCEPT ![p] = c] /\ call \in [Calls -> Call]
    BY DEF ApproveVerification, Inv, TypeOK
<1> HIDE DEF c
<1>4. /\ call' \in [Calls -> Call]
      /\ call'[p].at = "approve" /\ call'[p].request = r /\ call'[p].override = override
      /\ \A q \in Calls \ {p} : call'[q] = call[q]
    BY <1>2, <1>3
<1>5. UNCHANGED <<request, document, kycStatus, sweep, counts>>
    BY DEF ApproveVerification
<1>6. request[r].type = "WORKER_ONBOARDING" /\ ~override => Complete(r)'
    BY <1>5 DEF ApproveVerification, Approvable, Complete, DocumentsOf
<1>7. Complete(call[p].request)' = Complete(r)'
    BY <1>4 DEF Complete, DocumentsOf
<1>8. CallOK(p)'
    BY <1>1, <1>4, <1>5, <1>6, <1>7 DEF CallOK, counts
<1> QED  BY <1>4, <1>5, <1>8, ReadKept

(* A handler that dies leaves what it has written.                          *)
LEMMA DieKept ==
    ASSUME Inv, NEW p \in Calls, Die(p)
    PROVE  Inv'
<1>1. /\ call' \in [Calls -> Call]
      /\ call'[p].at = "idle"
      /\ \A q \in Calls \ {p} : call'[q] = call[q]
    BY ReturnTyped DEF Inv, Die
<1>2. CallOK(p)'
    BY <1>1 DEF CallOK
<1> QED  BY <1>1, <1>2, ReadKept DEF Die
-----------------------------------------------------------------------------
(* Writing. *)

(* A request is opened.                                                     *)
LEMMA OpenedTyped ==
    ASSUME TypeOK, NEW t \in {"WORKER_ONBOARDING", "REVERIFICATION"}, opened < MaxRequests,
           request' = [request EXCEPT ![opened + 1] = NewRequest(t)], opened' = opened + 1
    PROVE  /\ request' \in [Requests -> RequestRow]
           /\ opened' \in 0 .. MaxRequests /\ opened + 1 \in Requests
           /\ \A r \in Requests : (request'[r].status = "NONE") = (r > opened')
           /\ \A r \in 1 .. opened : request'[r] = request[r]
           /\ \A r \in Requests \ (1 .. opened) : request'[r].status \in {"NONE", "PENDING"}
<1> DEFINE n == NewRequest(t)
<1>1. n \in RequestRow /\ n.status = "PENDING"
    BY NewRequestTyped
<1> HIDE DEF n
<1>2. opened \in Nat /\ MaxRequests \in Nat /\ opened + 1 \in Requests
    BY NumbersAssumption DEF TypeOK, Requests
<1>3. request' = [request EXCEPT ![opened + 1] = n] /\ request \in [Requests -> RequestRow]
    BY DEF TypeOK, n
<1>4. /\ request' \in [Requests -> RequestRow]
      /\ request'[opened + 1] = n
      /\ \A r \in Requests : r # opened + 1 => request'[r] = request[r]
    BY <1>1, <1>2, <1>3
<1>5. \A r \in Requests : (request[r].status = "NONE") = (r > opened)
    BY DEF TypeOK
<1>6. \A r \in Requests : (request'[r].status = "NONE") = (r > opened')
    BY <1>1, <1>2, <1>4, <1>5 DEF Requests
<1>7. /\ \A r \in 1 .. opened : request'[r] = request[r]
      /\ \A r \in Requests \ (1 .. opened) : request'[r].status \in {"NONE", "PENDING"}
    BY <1>1, <1>2, <1>4, <1>5 DEF Requests
<1>8. opened' \in 0 .. MaxRequests
    BY <1>2
<1> QED  BY <1>2, <1>4, <1>6, <1>7, <1>8

(* A document is uploaded.                                                  *)
LEMMA UploadedTyped ==
    ASSUME TypeOK, NEW r \in Requests, NEW k \in Kinds, uploaded < MaxDocuments,
           document' = [document EXCEPT ![uploaded + 1] = NewDocument(r, k)],
           uploaded' = uploaded + 1
    PROVE  /\ document' \in [Documents -> DocumentRow]
           /\ uploaded' \in 0 .. MaxDocuments
           /\ \A d \in Documents : (document'[d].request = None) = (d > uploaded')
           /\ \A d \in 1 .. uploaded : document'[d] = document[d]
<1> DEFINE n == NewDocument(r, k)
<1>1. n \in DocumentRow /\ n.request = r /\ r # None
    BY NewDocumentTyped DEF Requests
<1> HIDE DEF n
<1>2. uploaded \in Nat /\ MaxDocuments \in Nat /\ uploaded + 1 \in Documents
    BY NumbersAssumption DEF TypeOK, Documents
<1>3. document' = [document EXCEPT ![uploaded + 1] = n] /\ document \in [Documents -> DocumentRow]
    BY DEF TypeOK, n
<1>4. /\ document' \in [Documents -> DocumentRow]
      /\ document'[uploaded + 1] = n
      /\ \A d \in Documents : d # uploaded + 1 => document'[d] = document[d]
    BY <1>1, <1>2, <1>3
<1>5. \A d \in Documents : (document[d].request = None) = (d > uploaded)
    BY DEF TypeOK
<1>6. \A d \in Documents : (document'[d].request = None) = (d > uploaded')
    BY <1>1, <1>2, <1>4, <1>5 DEF Documents
<1>7. \A d \in 1 .. uploaded : document'[d] = document[d]
    BY <1>2, <1>4 DEF Documents
<1>8. uploaded' \in 0 .. MaxDocuments
    BY <1>2
<1> QED  BY <1>4, <1>6, <1>7, <1>8

(* Nothing new, and the documents still say whose and what they are.       *)
LEMMA DecidedGrows ==
    ASSUME TypeOK, UNCHANGED <<opened, uploaded>>,
           \A d \in Documents : document'[d].request = document[d].request
                                /\ document'[d].kind = document[d].kind,
           \A r \in 1 .. opened : request'[r].type = request[r].type
    PROVE  /\ Grows
           /\ \A d \in Documents : (document'[d].request = None) = (d > uploaded')
<1>1. opened \in Nat /\ uploaded \in Nat
    BY NumbersAssumption DEF TypeOK
<1>2. \A d \in 1 .. uploaded : d \in Documents
    BY NumbersAssumption DEF TypeOK, Documents
<1> QED  BY <1>1, <1>2 DEF Grows, TypeOK

(* An upload adds a document, and perhaps the request it is for.            *)
LEMMA UploadWriteKept ==
    ASSUME Inv, NEW p \in Calls, UploadWrite(p)
    PROVE  Inv'
<1> DEFINE r == IF call[p].request = None THEN opened + 1 ELSE call[p].request
<1>1. opened \in Nat /\ uploaded \in Nat /\ MaxRequests \in Nat /\ MaxDocuments \in Nat
    BY NumbersAssumption DEF Inv, TypeOK
<1>2. r \in Requests /\ call[p].kind \in Kinds /\ call[p].request \in 0 .. opened
    BY <1>1 DEF Inv, CallInv, CallOK, TypeOK, UploadWrite, Requests, Call
<1>3. /\ document' = [document EXCEPT ![uploaded + 1] = NewDocument(r, call[p].kind)]
      /\ uploaded' = uploaded + 1 /\ uploaded < MaxDocuments
    BY DEF UploadWrite
<1>4. /\ document' \in [Documents -> DocumentRow]
      /\ uploaded' \in 0 .. MaxDocuments
      /\ \A d \in Documents : (document'[d].request = None) = (d > uploaded')
      /\ \A d \in 1 .. uploaded : document'[d] = document[d]
    BY <1>2, <1>3, UploadedTyped DEF Inv
<1>5. /\ request' \in [Requests -> RequestRow]
      /\ opened' \in 0 .. MaxRequests /\ opened' \in Nat /\ opened <= opened'
      /\ \A q \in Requests : (request'[q].status = "NONE") = (q > opened')
      /\ \A q \in 1 .. opened : request'[q] = request[q]
      /\ \A q \in Requests \ (1 .. opened) : request'[q].status \in {"NONE", "PENDING"}
    <2>1. CASE call[p].request = None
        <3>1. /\ request' = [request EXCEPT ![opened + 1] = NewRequest("WORKER_ONBOARDING")]
              /\ opened' = opened + 1 /\ opened < MaxRequests
            BY <1>1, <2>1 DEF UploadWrite
        <3> QED  BY <1>1, <3>1, OpenedTyped DEF Inv
    <2>2. CASE call[p].request # None
        <3>1. UNCHANGED <<request, opened>>
            BY <2>2 DEF UploadWrite
        <3>2. \A q \in Requests \ (1 .. opened) : request[q].status = "NONE"
            BY OpenExists DEF Inv
        <3> QED  BY <1>1, <3>1, <3>2 DEF Inv, TypeOK
    <2> QED  BY <2>1, <2>2
<1>6. /\ call' \in [Calls -> Call]
      /\ call'[p].at = "idle"
      /\ \A q \in Calls \ {p} : call'[q] = call[q]
    BY ReturnTyped DEF Inv, UploadWrite
<1>7. TypeOK'
    BY <1>4, <1>5, <1>6 DEF Inv, TypeOK, UploadWrite
<1>8. Grows
    BY <1>1, <1>3, <1>4, <1>5 DEF Grows
<1>9. Undecided
    BY <1>5 DEF Undecided, UploadWrite
<1>10. CallOK(p)'
    BY <1>6 DEF CallOK
<1> QED  BY <1>6, <1>7, <1>8, <1>9, <1>10, CallsKept, UndecidedKept DEF Inv

(* A submission opens its request before its document exists.               *)
LEMMA SubmitOpenKept ==
    ASSUME Inv, NEW p \in Calls, SubmitOpen(p)
    PROVE  Inv'
<1> DEFINE n == opened + 1
           c == [call[p] EXCEPT !.at = "document", !.request = n]
<1>1. opened \in Nat /\ uploaded \in Nat
    BY NumbersAssumption DEF Inv, TypeOK
<1>2. /\ request' \in [Requests -> RequestRow]
      /\ opened' \in 0 .. MaxRequests /\ n \in Requests
      /\ \A q \in Requests : (request'[q].status = "NONE") = (q > opened')
      /\ \A q \in 1 .. opened : request'[q] = request[q]
      /\ \A q \in Requests \ (1 .. opened) : request'[q].status \in {"NONE", "PENDING"}
    BY OpenedTyped DEF Inv, SubmitOpen
<1>3. call \in [Calls -> Call] /\ call[p] \in Call
    BY DEF Inv, TypeOK
<1> HIDE DEF n
<1>4. c \in Call /\ c.at = "document" /\ c.request = n
    BY <1>2, <1>3 DEF Call, Steps
<1>5. call' = [call EXCEPT ![p] = c]
    BY <1>3 DEF SubmitOpen, n
<1> HIDE DEF c
<1>6. /\ call' \in [Calls -> Call] /\ call'[p].at = "document" /\ call'[p].request = n
      /\ \A q \in Calls \ {p} : call'[q] = call[q]
    BY <1>3, <1>4, <1>5
<1>7. TypeOK'
    BY <1>2, <1>6 DEF Inv, TypeOK, SubmitOpen
<1>8. Grows
    BY <1>1, <1>2 DEF Grows, SubmitOpen
<1>9. Undecided
    BY <1>2 DEF Undecided, SubmitOpen
<1>10. CallOK(p)'
    <2>1. n \in 1 .. opened'
        BY <1>1 DEF SubmitOpen, n
    <2> QED  BY <1>6, <2>1 DEF CallOK
<1> QED  BY <1>6, <1>7, <1>8, <1>9, <1>10, CallsKept, UndecidedKept DEF Inv

(* The document follows.                                                    *)
LEMMA SubmitDocumentKept ==
    ASSUME Inv, NEW p \in Calls, SubmitDocument(p)
    PROVE  Inv'
<1>1. opened \in Nat /\ uploaded \in Nat /\ MaxRequests \in Nat /\ MaxDocuments \in Nat
    BY NumbersAssumption DEF Inv, TypeOK
<1>2. call[p].request \in Requests /\ call[p].kind \in Kinds
    BY <1>1 DEF Inv, CallInv, CallOK, TypeOK, SubmitDocument, Requests, Call
<1>3. /\ document' \in [Documents -> DocumentRow]
      /\ uploaded' \in 0 .. MaxDocuments
      /\ \A d \in Documents : (document'[d].request = None) = (d > uploaded')
      /\ \A d \in 1 .. uploaded : document'[d] = document[d]
    BY <1>2, UploadedTyped DEF Inv, SubmitDocument
<1>4. /\ call' \in [Calls -> Call]
      /\ call'[p].at = "idle"
      /\ \A q \in Calls \ {p} : call'[q] = call[q]
    BY ReturnTyped DEF Inv, SubmitDocument
<1>5. TypeOK'
    BY <1>3, <1>4 DEF Inv, TypeOK, SubmitDocument
<1>6. Grows
    BY <1>1, <1>3 DEF Grows, SubmitDocument
<1>7. Undecided
    <2>1. \A r \in Requests \ (1 .. opened) : request[r].status = "NONE"
        BY OpenExists DEF Inv
    <2> QED  BY <2>1 DEF Undecided, SubmitDocument
<1>8. CallOK(p)'
    BY <1>4 DEF CallOK
<1> QED  BY <1>4, <1>5, <1>6, <1>7, <1>8, CallsKept, UndecidedKept DEF Inv

(* A step that gives a request, and with it the worker, a new status.      *)
LEMMA DecisionKept ==
    ASSUME Inv, NEW r \in 1 .. opened, UNCHANGED <<sweep, counts>>,
           NEW status \in KYCStatus \ {"PENDING"},
           request' \in [Requests -> RequestRow],
           request'[r].type = request[r].type, request'[r].status = status,
           \A q \in Requests \ {r} : request'[q] = request[q],
           kycStatus' = status,
           document' \in [Documents -> DocumentRow],
           \A d \in Documents : document'[d].request = document[d].request
                                /\ document'[d].kind = document[d].kind,
           call' \in [Calls -> Call],
           \A q \in Calls : call'[q] = call[q] \/ CallOK(q)',
           \/ status = "SUBMITTED"
           \/ status = "APPROVED" /\ request[r].type = "WORKER_ONBOARDING"
                /\ ~request'[r].override
           => Complete(r)
    PROVE  Inv'
<1>1. r \in Requests /\ opened \in Nat /\ (\A q \in 1 .. opened : q \in Requests)
    BY NumbersAssumption DEF Inv, TypeOK, Requests
<1>2. \A q \in Requests : (request'[q].status = "NONE") = (q > opened)
    <2>1. \A q \in Requests : (request[q].status = "NONE") = (q > opened)
        BY DEF Inv, TypeOK
    <2>2. status # "NONE" /\ ~(r > opened)
        BY <1>1 DEF KYCStatus
    <2> QED  BY <2>1, <2>2
<1>3. \A q \in 1 .. opened : request'[q].type = request[q].type
    BY <1>1
<1>4. Grows /\ (\A d \in Documents : (document'[d].request = None) = (d > uploaded'))
    BY <1>3, DecidedGrows DEF Inv, counts
<1>5. TypeOK'
    BY <1>2, <1>4 DEF Inv, TypeOK, counts
<1>6. CallInv'
    BY <1>4, CallsKept
<1>7. StatusHasRequest'
    BY <1>1 DEF StatusHasRequest
<1>8. NothingIncomplete'
    <2> SUFFICES ASSUME NEW q \in Requests,
                        \/ request'[q].status = "SUBMITTED"
                        \/ /\ request'[q].status = "APPROVED"
                           /\ request'[q].type = "WORKER_ONBOARDING" /\ ~request'[q].override
                 PROVE  Complete(q)'
        BY DEF NothingIncomplete
    <2>1. q \in 1 .. opened
        BY <1>1, <1>2 DEF Requests
    <2>2. Complete(q)
        <3>1. CASE q = r
            BY <3>1
        <3>2. CASE q # r
            BY <3>2 DEF Inv, NothingIncomplete
        <3> QED  BY <3>1, <3>2
    <2> QED  BY <1>4, <2>1, <2>2, CompleteKept DEF Inv
<1> QED  BY <1>5, <1>6, <1>7, <1>8 DEF Inv

(* A request is submitted when it was read to be complete.                  *)
LEMMA AcceptFlipKept ==
    ASSUME Inv, NEW p \in Calls, AcceptFlip(p)
    PROVE  Inv'
<1>1. PICK r \in 1 .. opened : r = call[p].request
    BY DEF Inv, CallInv, CallOK, AcceptFlip
<1>2. Complete(r)
    <2>1. Complete(call[p].request)
        BY DEF Inv, CallInv, CallOK, AcceptFlip
    <2> QED  BY <1>1, <2>1
<1>3. r \in Requests /\ request \in [Requests -> RequestRow]
    BY NumbersAssumption DEF Inv, TypeOK, Requests
<1> DEFINE c == [request[r] EXCEPT !.status = "SUBMITTED"]
<1>4. c \in RequestRow /\ c.type = request[r].type /\ c.status = "SUBMITTED"
    BY <1>3 DEF RequestRow, KYCStatus
<1>5. request' = [request EXCEPT ![r] = c]
    BY <1>1 DEF AcceptFlip
<1> HIDE DEF c
<1>6. /\ request' \in [Requests -> RequestRow]
      /\ request'[r].type = request[r].type /\ request'[r].status = "SUBMITTED"
      /\ \A q \in Requests \ {r} : request'[q] = request[q]
    BY <1>3, <1>4, <1>5
<1>7. /\ call' \in [Calls -> Call]
      /\ \A q \in Calls : call'[q] = call[q] \/ CallOK(q)'
    <2>1. /\ call' \in [Calls -> Call]
          /\ call'[p].at = "idle"
          /\ \A q \in Calls \ {p} : call'[q] = call[q]
        BY ReturnTyped DEF Inv, AcceptFlip
    <2>2. CallOK(p)'
        BY <2>1 DEF CallOK
    <2> QED  BY <2>1, <2>2
<1>8. UNCHANGED <<document, sweep, counts>> /\ kycStatus' = "SUBMITTED"
    BY DEF AcceptFlip
<1>9. document' \in [Documents -> DocumentRow]
    BY <1>8 DEF Inv, TypeOK
<1> QED  BY <1>2, <1>6, <1>7, <1>8, <1>9, DecisionKept DEF KYCStatus

(* So is one approved, and the worker with it.                              *)
LEMMA ApproveWriteKept ==
    ASSUME Inv, NEW p \in Calls, ApproveWrite(p)
    PROVE  Inv'
<1>1. PICK r \in 1 .. opened : r = call[p].request
    BY DEF Inv, CallInv, CallOK, ApproveWrite
<1>2. PICK override \in BOOLEAN : override = call[p].override
    BY DEF Inv, TypeOK, Call
<1>3. request[r].type = "WORKER_ONBOARDING" /\ ~override => Complete(r)
    <2>1. request[call[p].request].type = "WORKER_ONBOARDING" /\ ~call[p].override
              => Complete(call[p].request)
        BY DEF Inv, CallInv, CallOK, ApproveWrite
    <2> QED  BY <1>1, <1>2, <2>1
<1>4. r \in Requests /\ request \in [Requests -> RequestRow]
    BY NumbersAssumption DEF Inv, TypeOK, Requests
<1> DEFINE c == [request[r] EXCEPT !.status = "APPROVED", !.rejectedAt = Never, !.override = override]
<1>5. c \in RequestRow /\ c.type = request[r].type /\ c.status = "APPROVED" /\ c.override = override
    BY <1>4 DEF RequestRow, KYCStatus
<1>6. request' = [request EXCEPT ![r] = c]
    BY <1>1, <1>2, <1>4 DEF ApproveWrite
<1> HIDE DEF c
<1>7. /\ request' \in [Requests -> RequestRow]
      /\ request'[r].type = request[r].type /\ request'[r].status = "APPROVED"
      /\ request'[r].override = override
      /\ \A q \in Requests \ {r} : request'[q] = request[q]
    BY <1>4, <1>5, <1>6
<1>8. /\ call' \in [Calls -> Call]
      /\ \A q \in Calls : call'[q] = call[q] \/ CallOK(q)'
    <2>1. /\ call' \in [Calls -> Call]
          /\ call'[p].at = "idle"
          /\ \A q \in Calls \ {p} : call'[q] = call[q]
        BY ReturnTyped DEF Inv, ApproveWrite
    <2>2. CallOK(p)'
        BY <2>1 DEF CallOK
    <2> QED  BY <2>1, <2>2
<1>9. UNCHANGED <<sweep, counts>> /\ kycStatus' = "APPROVED"
    BY DEF ApproveWrite
<1>10. /\ document' \in [Documents -> DocumentRow]
       /\ \A d \in Documents : document'[d].request = document[d].request
                               /\ document'[d].kind = document[d].kind
    <2>1. \A d \in Documents : document'[d] = Approved(document[d]) \/ document'[d] = document[d]
        BY DEF ApproveWrite
    <2>2. \A d \in Documents : document[d] \in DocumentRow
        BY DEF Inv, TypeOK
    <2>3. \A d \in Documents : /\ document'[d] \in DocumentRow
                               /\ document'[d].request = document[d].request
                               /\ document'[d].kind = document[d].kind
        BY <2>1, <2>2, DecidedTyped DEF Inv
    <2>4. document' = [d \in Documents |-> document'[d]]
        BY DEF ApproveWrite
    <2> QED  BY <2>3, <2>4
<1> QED  BY <1>3, <1>7, <1>8, <1>9, <1>10, DecisionKept DEF KYCStatus

(* A rejection is written with the status of the worker.                    *)
LEMMA RejectVerificationKept ==
    ASSUME Inv, NEW r \in Requests, RejectVerification(r)
    PROVE  Inv'
<1>1. r \in 1 .. opened
    BY OpenExists DEF Inv, RejectVerification
<1>2. request \in [Requests -> RequestRow] /\ now \in Times
    BY DEF Inv, TypeOK
<1> DEFINE c == [request[r] EXCEPT !.status = "REJECTED", !.rejectedAt = now]
<1>3. c \in RequestRow /\ c.type = request[r].type /\ c.status = "REJECTED"
    BY <1>2 DEF RequestRow, KYCStatus
<1>4. request' = [request EXCEPT ![r] = c]
    BY <1>2 DEF RejectVerification
<1> HIDE DEF c
<1>5. /\ request' \in [Requests -> RequestRow]
      /\ request'[r].type = request[r].type /\ request'[r].status = "REJECTED"
      /\ \A q \in Requests \ {r} : request'[q] = request[q]
    BY <1>2, <1>3, <1>4
<1>6. /\ document' \in [Documents -> DocumentRow]
      /\ \A d \in Documents : document'[d].request = document[d].request
                              /\ document'[d].kind = document[d].kind
    <2>1. \A d \in Documents : document'[d] = Rejected(document[d]) \/ document'[d] = document[d]
        BY DEF RejectVerification
    <2>2. \A d \in Documents : document[d] \in DocumentRow
        BY DEF Inv, TypeOK
    <2>3. \A d \in Documents : /\ document'[d] \in DocumentRow
                               /\ document'[d].request = document[d].request
                               /\ document'[d].kind = document[d].kind
        BY <2>1, <2>2, DecidedTyped DEF Inv
    <2>4. document' = [d \in Documents |-> document'[d]]
        BY DEF RejectVerification
    <2> QED  BY <2>3, <2>4
<1>7. UNCHANGED <<call, sweep, counts>> /\ kycStatus' = "REJECTED"
    BY DEF RejectVerification
<1>8. call' \in [Calls -> Call]
    BY <1>7 DEF Inv, TypeOK
<1> QED  BY <1>1, <1>5, <1>6, <1>7, <1>8, DecisionKept DEF KYCStatus

(* One document alone is decided over: the requests stay.                  *)
LEMMA DocumentKept ==
    ASSUME Inv, UNCHANGED <<request, kycStatus, call, sweep, counts>>,
           NEW d \in Documents, NEW x \in DocumentRow,
           x.request = document[d].request, x.kind = document[d].kind,
           document' = [document EXCEPT ![d] = x]
    PROVE  Inv'
<1>1. /\ document' \in [Documents -> DocumentRow]
      /\ \A e \in Documents : document'[e].request = document[e].request
                              /\ document'[e].kind = document[e].kind
    BY DEF Inv, TypeOK
<1>2. Grows /\ (\A e \in Documents : (document'[e].request = None) = (e > uploaded'))
    BY <1>1, DecidedGrows DEF Inv, counts
<1>3. TypeOK'
    BY <1>1, <1>2 DEF Inv, TypeOK, counts
<1>4. Undecided
    <2>1. \A r \in Requests \ (1 .. opened) : request[r].status = "NONE"
        BY OpenExists DEF Inv
    <2> QED  BY <2>1 DEF Undecided
<1> QED  BY <1>2, <1>3, <1>4, CallsKept, UndecidedKept DEF Inv

(* A decision over one document decides nothing over a request.             *)
LEMMA DocumentsDecidedKept ==
    ASSUME Inv, NEW d \in Documents, ApproveDocument(d) \/ RejectDocument(d)
    PROVE  Inv'
<1>1. document[d] \in DocumentRow
    BY DEF Inv, TypeOK
<1>2. PICK x \in {Approved(document[d]), Rejected(document[d])} :
          document' = [document EXCEPT ![d] = x]
    BY DEF ApproveDocument, RejectDocument
<1>3. x \in DocumentRow /\ x.request = document[d].request /\ x.kind = document[d].kind
    BY <1>1, <1>2, DecidedTyped DEF Inv
<1>4. UNCHANGED <<request, kycStatus, call, sweep, counts>>
    BY DEF ApproveDocument, RejectDocument
<1> QED  BY <1>2, <1>3, <1>4, DocumentKept

(* A sweep begins.                                                          *)
LEMMA FlagExpiredKept ==
    ASSUME Inv, NEW s \in Sweeps, FlagExpired(s)
    PROVE  Inv'
<1>1. TypeOK'
    BY DEF Inv, TypeOK, FlagExpired, counts
<1>2. CallInv' /\ StatusHasRequest' /\ NothingIncomplete'
    BY DEF Inv, CallInv, CallOK, StatusHasRequest, NothingIncomplete, Complete, DocumentsOf,
           FlagExpired, counts
<1> QED  BY <1>1, <1>2 DEF Inv

(* A request to renew a lapsed document is opened.                          *)
LEMMA FlagWriteKept ==
    ASSUME Inv, NEW s \in Sweeps, FlagWrite(s)
    PROVE  Inv'
<1>1. opened \in Nat /\ uploaded \in Nat
    BY NumbersAssumption DEF Inv, TypeOK
<1>2. /\ request' \in [Requests -> RequestRow]
      /\ opened' \in 0 .. MaxRequests
      /\ \A q \in Requests : (request'[q].status = "NONE") = (q > opened')
      /\ \A q \in 1 .. opened : request'[q] = request[q]
      /\ \A q \in Requests \ (1 .. opened) : request'[q].status \in {"NONE", "PENDING"}
    BY OpenedTyped DEF Inv, FlagWrite
<1>3. sweep' \in [Sweeps -> BOOLEAN]
    BY DEF Inv, TypeOK, FlagWrite
<1>4. TypeOK'
    BY <1>2, <1>3 DEF Inv, TypeOK, FlagWrite
<1>5. Grows
    BY <1>1, <1>2 DEF Grows, FlagWrite
<1>6. Undecided
    BY <1>2 DEF Undecided, FlagWrite
<1>7. \A q \in Calls : call'[q] = call[q]
    BY DEF FlagWrite
<1> QED  BY <1>4, <1>5, <1>6, <1>7, CallsKept, UndecidedKept DEF Inv

(* Time passes.                                                             *)
LEMMA TickKept ==
    ASSUME Inv, Tick
    PROVE  Inv'
<1>1. TypeOK'
    BY NumbersAssumption DEF Inv, TypeOK, Tick, Times
<1>2. CallInv' /\ StatusHasRequest' /\ NothingIncomplete'
    BY DEF Inv, CallInv, CallOK, StatusHasRequest, NothingIncomplete, Complete, DocumentsOf, Tick
<1> QED  BY <1>1, <1>2 DEF Inv

-----------------------------------------------------------------------------

(* The invariant at first.                                                  *)
LEMMA InitInv == Init => Inv
<1> SUFFICES ASSUME Init PROVE Inv
    OBVIOUS
<1>1. TypeOK
    BY InitTyped
<1>2. CallInv
    BY DEF Init, CallInv, CallOK, Idle
<1>3. StatusHasRequest /\ NothingIncomplete
    BY DEF Init, StatusHasRequest, NothingIncomplete, NoRequest
<1> QED  BY <1>1, <1>2, <1>3 DEF Inv

(* Every step keeps it.                                                     *)
LEMMA NextInv == Inv /\ [Next]_vars => Inv'
<1> SUFFICES ASSUME Inv, [Next]_vars PROVE Inv'
    OBVIOUS
<1>1. ASSUME NEW p \in Calls, Handler(p) PROVE Inv'
    BY <1>1, UploadReadKept, SubmitReadKept, UploadWriteKept, SubmitOpenKept, SubmitDocumentKept,
       AcceptReadKept, AcceptFlipKept, ApproveReadKept, ApproveWriteKept, DieKept DEF Handler
<1>2. ASSUME NEW r \in Requests, RejectVerification(r) PROVE Inv'
    BY <1>2, RejectVerificationKept
<1>3. ASSUME NEW d \in Documents, ApproveDocument(d) \/ RejectDocument(d) PROVE Inv'
    BY <1>3, DocumentsDecidedKept
<1>4. ASSUME NEW s \in Sweeps, FlagExpired(s) \/ FlagWrite(s) PROVE Inv'
    BY <1>4, FlagExpiredKept, FlagWriteKept
<1>5. CASE Tick
    BY <1>5, TickKept
<1>6. CASE UNCHANGED vars
    <2>1. call' = call /\ UNCHANGED <<request, document, kycStatus, sweep, counts>>
        BY <1>6 DEF vars
    <2> QED  BY <2>1, ReadKept DEF Inv, TypeOK
<1> QED  BY <1>1, <1>2, <1>3, <1>4, <1>5, <1>6 DEF Next

(* The invariant, at all times.                                             *)
LEMMA AlwaysInv == Spec => []Inv
BY InitInv, NextInv, PTL DEF Spec

(* Type correctness: every request and every document counted is there,    *)
(* and no other, whatever handlers overlap or die.                         *)
THEOREM VerificationTyped == Spec => []TypeOK
BY AlwaysInv, PTL DEF Inv

(* A worker's status, which searching and accepting jobs ask for, is that  *)
(* of one of his requests (approveVerification, rejectVerification,        *)
(* acceptContract), for any number of handlers and requests.               *)
THEOREM StatusIsRequested == Spec => []StatusHasRequest
BY AlwaysInv, PTL DEF Inv

(* No application is submitted or approved, unless an admin has waived it, *)
(* without every required document, though both were checked earlier       *)
(* (acceptContract, approveVerification).                                  *)
THEOREM NothingIncompleteDecided == Spec => []NothingIncomplete
BY AlwaysInv, PTL DEF Inv
=============================================================================
