----------------------------- MODULE LocalList -----------------------------
(***************************************************************************)
(* The local authorization list (local_authorization_list.rs,              *)
(* state/local_authorization_list.rs) and the erasure of a customer's data *)
(* from it (customer_information.rs).  SendLocalList resolves its update   *)
(* against a published snapshot and hands the actor a whole list; a        *)
(* CustomerInformation request is answered at once and carried out by a    *)
(* task of its own, so an erasure can be applied between the two.  The     *)
(* actor's mailbox keeps order, but what is queued in it is not in the     *)
(* snapshot yet.                                                           *)
(*                                                                         *)
(* The capability is taken as present and a request as within the size a   *)
(* message may have.  The CSMS never numbers downwards: a differential     *)
(* update carries the number after the one it knows, a full one any larger.*)
(***************************************************************************)
EXTENDS Integers, SequencesExt

CONSTANTS
    ListTokens,        \* IdToken: a value and a kind
    ValueOf,           \* the value of each
    ListUpdates,       \* LocalListUpdate: the updates the CSMS may send
    Inquiries,         \* CustomerInformationQuery
    NoToken,           \* the query names no idToken
    MaxListEntries,    \* StateLimits::max_local_authorization_list_entries
    MaxVersion,        \* bound: versions a full update may carry
    MaxListCalls       \* bound: requests received

ASSUME LocalListAssumption ==
    /\ MaxListEntries \in Nat \ {0} /\ MaxVersion \in Nat /\ MaxListCalls \in Nat
    /\ NoToken \notin ListTokens

VARIABLES
    authList,      \* LocalAuthorizationList
    listUpdate,    \* handle_send_local_list: what it has sent to the actor
    inquiries,     \* CustomerInformationQueue
    eraser,        \* run_customer_information_requests
    known,         \* the CSMS: the list it was told the station took over
    listCalls,     \* requests received so far
    erased         \* history: values erased, and not named by the CSMS since

listVars == <<authList, listUpdate, inquiries, eraser, known, listCalls, erased>>

Versioned(version, entries) == [version |-> version, entries |-> entries]
NothingSent == [version |-> 0 - 1]
NoJob == [pc |-> "idle"]

-----------------------------------------------------------------------------
(* Updates. *)

Upserted(entries, entry) ==
    LET i == SelectInSeq(entries, LAMBDA x : x.token = entry.token) IN
    IF i = 0 THEN Append(entries, entry) ELSE ReplaceAt(entries, i, entry)

Without(entries, token) == SelectSeq(entries, LAMBDA x : x.token # token)

\* apply_differential, one change of it.
Changed(entries, change) ==
    IF change.op = "Upsert" THEN Upserted(entries, change.entry)
                            ELSE Without(entries, change.token)

ListAfter(entries, u) ==
    IF u.kind = "Full" THEN u.entries ELSE FoldLeft(Changed, entries, u.changes)

\* The values an update asks the station to hold.
Named(u) ==
    {ValueOf[x.token] : x \in
        IF u.kind = "Full" THEN ToSet(u.entries)
        ELSE {c.entry : c \in {c \in ToSet(u.changes) : c.op = "Upsert"}}}

\* LocalAuthorizationList::replace truncates.
Replaced(version, entries) ==
    Versioned(version,
              SubSeq(entries, 1, Min({Len(entries), MaxListEntries})))

ForgetQuietly(list, value) ==
    Versioned(list.version,
              SelectSeq(list.entries, LAMBDA x : ValueOf[x.token] # value))

\* LocalAuthorizationList::forget goes by the value alone.
Forget(list, value) ==
    LET left == SelectSeq(list.entries, LAMBDA x : ValueOf[x.token] # value) IN
    IF Len(left) = Len(list.entries) THEN list
    ELSE Versioned(list.version + 1, left)

-----------------------------------------------------------------------------
(* Actions. *)

LocalListInit ==
    /\ authList = Versioned(0, << >>) /\ listUpdate = NothingSent
    /\ inquiries = << >> /\ eraser = NoJob
    /\ known = Versioned(0, << >>) /\ listCalls = 0 /\ erased = {}

\* The CSMS waits for the answer to one request before it sends the next.
Received ==
    listUpdate = NothingSent /\ listCalls < MaxListCalls /\ listCalls' = listCalls + 1

\* The versions a CSMS gives an update.
VersionsFor(u) ==
    IF u.kind = "Full" THEN known.version + 1 .. MaxVersion
                       ELSE {known.version + 1}

\* Any full update is taken; a differential one must follow the list.
Follows(version, u) == u.kind = "Full" \/ version = authList.version + 1

Taken(version, u) ==
    /\ Follows(version, u)
    /\ Len(ListAfter(authList.entries, u)) <= MaxListEntries

\* handle_send_local_list up to its await.  VersionMismatch and TooManyEntries
\* leave everything as it is.
SendLocalList(version, u) ==
    /\ Received
    /\ erased' = erased \ Named(u)
    /\ listUpdate' = IF Taken(version, u)
                     THEN [version |-> version, of |-> u,
                           entries |-> ListAfter(authList.entries, u)]
                     ELSE NothingSent
    /\ UNCHANGED <<authList, inquiries, eraser, known>>

\* The actor applies LocalListUpdated and the handler answers Accepted, which
\* may be lost on its way to the CSMS.
LocalListUpdated ==
    /\ listUpdate # NothingSent
    /\ authList' = Replaced(listUpdate.version, listUpdate.entries)
    /\ listUpdate' = NothingSent
    /\ known' \in {known, Versioned(listUpdate.version,
                                    ListAfter(known.entries, listUpdate.of))}
    /\ UNCHANGED <<inquiries, eraser, listCalls, erased>>

\* handle_customer_information: without a flag it is Rejected, without an
\* idToken Invalid.
CustomerInformation(q) ==
    /\ Received
    /\ inquiries' = IF (q.report \/ q.clear) /\ q.token # NoToken
                    THEN Append(inquiries, q) ELSE inquiries
    /\ UNCHANGED <<authList, listUpdate, eraser, known, erased>>

HeldOf(value) ==
    SelectSeq(authList.entries, LAMBDA x : ValueOf[x.token] = value)

\* The report is gathered and its chunks are sent before anything is erased.
TakeInquiry ==
    /\ eraser = NoJob /\ inquiries # << >>
    /\ LET q == Head(inquiries) IN
       eraser' = [pc |-> IF q.report THEN "reporting" ELSE "erasing", job |-> q,
                  found |-> HeldOf(ValueOf[q.token])]
    /\ inquiries' = Tail(inquiries)
    /\ UNCHANGED <<authList, listUpdate, known, listCalls, erased>>

\* The last chunk was sent or failed.
ReportSent ==
    /\ eraser.pc = "reporting"
    /\ eraser' = IF eraser.job.clear THEN [eraser EXCEPT !.pc = "erasing"] ELSE NoJob
    /\ UNCHANGED <<authList, listUpdate, inquiries, known, listCalls, erased>>

CustomerInformationErased ==
    /\ eraser.pc = "erasing"
    /\ LET value == ValueOf[eraser.job.token] IN
       /\ authList' = Forget(authList, value)
       /\ erased' = (erased \cup {value})
                    \ (IF listUpdate = NothingSent THEN {} ELSE Named(listUpdate.of))
    /\ eraser' = NoJob
    /\ UNCHANGED <<listUpdate, inquiries, known, listCalls>>

EraserSteps == TakeInquiry \/ ReportSent \/ CustomerInformationErased

LocalListNext ==
    \/ \E u \in ListUpdates : \E v \in VersionsFor(u) : SendLocalList(v, u)
    \/ LocalListUpdated
    \/ \E q \in Inquiries : CustomerInformation(q)
    \/ EraserSteps

LocalListSpec == LocalListInit /\ [][LocalListNext]_listVars

-----------------------------------------------------------------------------
(* Properties. *)

\* The list keeps to its bound and the handler never leaves `replace` anything
\* to truncate (replace: "a non-zero return means information was lost").
LocalListTypeOK ==
    /\ authList.version \in Nat /\ Len(authList.entries) <= MaxListEntries
    /\ \A i \in 1 .. Len(authList.entries) : authList.entries[i].token \in ListTokens
    /\ listUpdate # NothingSent => Len(listUpdate.entries) <= MaxListEntries
    /\ eraser.pc \in {"idle", "reporting", "erasing"}

\* What the version is for: a CSMS that finds its own number on the station
\* (GetLocalListVersion, or a differential update taken) finds its own list
\* there, whatever was erased, refused or answered in vain meanwhile.
VersionNamesTheList ==
    known.version = authList.version => known.entries = authList.entries

\* An accepted inquiry is carried out (run_customer_information_requests).
InquiriesEnd == <>[](inquiries = << >> /\ eraser = NoJob)

-----------------------------------------------------------------------------
(* Statements of the repository that the code does not keep. *)

\* LocalAuthorizationList::forget: a differential update that assumes the old
\* version must not "silently apply on top of a list that has moved out from
\* under it", so an erased customer is back only if the CSMS names it again.
ErasedStaysErased ==
    \A i \in 1 .. Len(authList.entries) :
        ValueOf[authList.entries[i].token] \notin erased

\* run_customer_information_requests: the report "should describe what was held
\* right before it was deleted".
ReportsWhatItErases ==
    eraser.pc = "erasing" /\ eraser.job.report =>
        eraser.found = HeldOf(ValueOf[eraser.job.token])

=============================================================================
