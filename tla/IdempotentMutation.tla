------------------------- MODULE IdempotentMutation -------------------------
(***************************************************************************)
(* The way of a mutation (approve, deposit, withdraw) from its HTTP        *)
(* attempts to the wallet provider: IdempotencyInterceptor, the            *)
(* IdempotencyService with its table, and the provider call with           *)
(* withRetry inside it.                                                    *)
(*                                                                         *)
(* An attempt is one HTTP request for one operation.  A client that gets   *)
(* no answer sends another attempt with the same key; it may do so while   *)
(* the first one is still being served, and on another API instance.       *)
(* expiresAt is written and never read, so records do not expire.          *)
(***************************************************************************)
EXTENDS Integers, FiniteSets, FiniteSetsExt

CONSTANTS
    Attempts,      \* HTTP requests for one operation
    Keys,          \* values of the idempotency-key header
    KeyOf,         \* the key each attempt carries
    PayloadOf,     \* what the fingerprint of each attempt stands for
    MaxAttempts,   \* DEFAULT_MAX_ATTEMPTS of withRetry
    MaxFaults,     \* bound on failing statements, failing calls and crashes
    Nobody

ASSUME AttemptsAssumption ==
    /\ KeyOf \in [Attempts -> Keys]
    /\ DOMAIN PayloadOf = Attempts
    /\ IsFiniteSet(Attempts)
    /\ Nobody \notin Attempts

ASSUME LimitsAssumption == MaxAttempts \in Nat \ {0} /\ MaxFaults \in Nat

VARIABLES
    record,    \* record[k]: who inserted the row of key k, and is it answered
    attempt,   \* attempt[a]: the interceptor's progress with a
    sent,      \* sent[a]: transactions the provider has accepted for a
    faults     \* failures so far

vars == <<record, attempt, sent, faults>>

AttemptPC ==
    {"idle", "create", "raced",                     \* acquire
     "operation", "sending", "sent",                \* next.handle()
     "saving", "deleting",                          \* complete
     "created", "replayed", "conflict", "inProgress", "error", "crashed"}

NoRecord == [owner |-> Nobody, answered |-> FALSE]

Record == [owner : Attempts \cup {Nobody}, answered : BOOLEAN]

\* tries: provider calls that have thrown and were repeated.
\* answer: the attempt whose response this attempt was given.
Attempt == [pc : AttemptPC, tries : 0..(MaxAttempts - 1), answer : Attempts \cup {Nobody}]

\* The table holds a row per key at most; the row's owner has its payload.
TypeOK ==
    /\ record \in [Keys -> Record]
    /\ attempt \in [Attempts -> Attempt]
    /\ sent \in [Attempts -> Nat]
    /\ faults \in Nat

Init ==
    /\ record = [k \in Keys |-> NoRecord]
    /\ attempt = [a \in Attempts |-> [pc |-> "idle", tries |-> 0, answer |-> Nobody]]
    /\ sent = [a \in Attempts |-> 0]
    /\ faults = 0

At(a, pc) == attempt[a].pc = pc

Goto(a, pc) == attempt' = [attempt EXCEPT ![a].pc = pc]

Fault == faults < MaxFaults /\ faults' = faults + 1

Absent(k) == record[k] = NoRecord

-----------------------------------------------------------------------------
(* IdempotencyService.acquire *)

\* Mutant: an unfinished record counts as an answer.
AnyRecordIsAnswered(k) == TRUE

SamePayload(a, k) == PayloadOf[record[k].owner] = PayloadOf[a]

Answered(k) == record[k].answered

\* Mutant: a record without an answer is taken over.
ResolveOrTakeOver(a, k) ==
    \/ ~SamePayload(a, k) /\ Goto(a, "conflict")
    \/ SamePayload(a, k) /\ ~Answered(k) /\ Goto(a, "operation")
    \/ /\ SamePayload(a, k) /\ Answered(k)
       /\ attempt' = [attempt EXCEPT ![a] =
                        [@ EXCEPT !.pc = "replayed", !.answer = record[k].owner]]

\* resolveExistingRecord: a conflict, a request still in progress, or a replay.
ResolveExisting(a, k) ==
    \/ ~SamePayload(a, k) /\ Goto(a, "conflict")
    \/ SamePayload(a, k) /\ ~Answered(k) /\ Goto(a, "inProgress")
    \/ /\ SamePayload(a, k) /\ Answered(k)
       /\ attempt' = [attempt EXCEPT ![a] =
                        [@ EXCEPT !.pc = "replayed", !.answer = record[k].owner]]

Lookup(a) ==
    LET k == KeyOf[a] IN
    /\ At(a, "idle")
    /\ \/ Absent(k) /\ Goto(a, "create")
       \/ ~Absent(k) /\ ResolveExisting(a, k)
    /\ UNCHANGED <<record, sent, faults>>

\* Mutant: no unique key on (key, requestPath).
NoUniqueKey(k) == TRUE

\* The insert meets the unique key on (key, requestPath).
Insertable(k) == Absent(k)

Create(a) ==
    LET k == KeyOf[a] IN
    /\ At(a, "create")
    /\ \/ /\ Insertable(k)
          /\ record' = [record EXCEPT ![k] = [owner |-> a, answered |-> FALSE]]
          /\ Goto(a, "operation")
       \/ ~Insertable(k) /\ Goto(a, "raced") /\ UNCHANGED record
    /\ UNCHANGED <<sent, faults>>

\* The second lookup; the error of the insert is thrown if the row has gone.
LookupRaced(a) ==
    LET k == KeyOf[a] IN
    /\ At(a, "raced")
    /\ \/ Absent(k) /\ Goto(a, "error")
       \/ ~Absent(k) /\ ResolveExisting(a, k)
    /\ UNCHANGED <<record, sent, faults>>

-----------------------------------------------------------------------------
(* The operation and the provider call inside it *)

\* A check of the operation throws, or it starts to send.  An approval whose
\* allowance is sufficient answers without sending.
Operate(a) ==
    /\ At(a, "operation")
    /\ \E next \in {"deleting", "sending", "saving"} : Goto(a, next)
    /\ UNCHANGED <<record, sent, faults>>

\* The provider accepts the transaction and its answer arrives.
ProviderAnswers(a) ==
    /\ At(a, "sending")
    /\ sent' = [sent EXCEPT ![a] = @ + 1]
    /\ Goto(a, "sent")
    /\ UNCHANGED <<record, faults>>

MayRetry(a) == attempt[a].tries + 1 < MaxAttempts

\* The call throws, before or after the provider accepted the transaction.
\* withRetry makes a new call, with a new provider idempotency key, if the
\* error is retryable and calls are left.
ProviderThrows(a) ==
    /\ At(a, "sending")
    /\ Fault
    /\ \E accepted \in {0, 1} : sent' = [sent EXCEPT ![a] = @ + accepted]
    /\ \/ MayRetry(a) /\ attempt' = [attempt EXCEPT ![a].tries = @ + 1]
       \/ Goto(a, "deleting")
    /\ UNCHANGED record

\* The rest of the operation: its response, or an error after the broadcast.
OperationReturns(a) ==
    /\ At(a, "sent")
    /\ Goto(a, "saving")
    /\ UNCHANGED <<record, sent, faults>>

OperationThrows(a) ==
    /\ At(a, "sent")
    /\ Fault
    /\ Goto(a, "deleting")
    /\ UNCHANGED <<record, sent>>

-----------------------------------------------------------------------------
(* IdempotencyService.complete *)

\* Mutant: shouldPersistResponse the wrong way round.
DropAfterSuccess(k) == [record EXCEPT ![k] = NoRecord]

StoreResponse(k) == [record EXCEPT ![k].answered = TRUE]

SaveResponse(a) ==
    /\ At(a, "saving")
    /\ record' = StoreResponse(KeyOf[a])
    /\ attempt' = [attempt EXCEPT ![a] = [@ EXCEPT !.pc = "created", !.answer = a]]
    /\ UNCHANGED <<sent, faults>>

\* saveResponse throws, committed or not: catchError treats it as a failure of
\* the operation and deletes the record.
SaveThrows(a) ==
    /\ At(a, "saving")
    /\ Fault
    /\ record' \in {record, StoreResponse(KeyOf[a])}
    /\ Goto(a, "deleting")
    /\ UNCHANGED sent

\* Mutant: a failed operation leaves its record behind.
KeepRecord(k) == record

RemoveRecord(k) == [record EXCEPT ![k] = NoRecord]

\* Any status that is not 2xx: the record is deleted, the error is passed on.
DeleteRecord(a) ==
    /\ At(a, "deleting")
    /\ record' = RemoveRecord(KeyOf[a])
    /\ Goto(a, "error")
    /\ UNCHANGED <<sent, faults>>

\* The delete throws, committed or not.
DeleteThrows(a) ==
    /\ At(a, "deleting")
    /\ Fault
    /\ record' \in {record, RemoveRecord(KeyOf[a])}
    /\ Goto(a, "error")
    /\ UNCHANGED sent

Serving(a) ==
    attempt[a].pc \in {"create", "raced", "operation", "sending", "sent", "saving", "deleting"}

\* The process dies, or a statement of acquire throws.
Crash(a) ==
    /\ Serving(a)
    /\ Fault
    /\ Goto(a, "crashed")
    /\ UNCHANGED <<record, sent>>

Step(a) ==
    \/ Create(a) \/ LookupRaced(a)
    \/ Operate(a) \/ ProviderAnswers(a) \/ OperationReturns(a)
    \/ SaveResponse(a) \/ DeleteRecord(a)

Fails(a) ==
    ProviderThrows(a) \/ OperationThrows(a) \/ SaveThrows(a) \/ DeleteThrows(a) \/ Crash(a)

Next == \E a \in Attempts : Lookup(a) \/ Step(a) \/ Fails(a)

Spec == Init /\ [][Next]_vars

\* An attempt that is being served is served on; no client has to send one.
Fairness == \A a \in Attempts : WF_vars(Step(a))

FairSpec == Spec /\ Fairness

-----------------------------------------------------------------------------
(* Properties *)

Sharing(k) == {a \in Attempts : KeyOf[a] = k}

\* Between the insert of its record and the answer.
Holds(a) == attempt[a].pc \in {"operation", "sending", "sent", "saving", "deleting"}

\* Two attempts with one key never run the operation at the same time, however
\* their lookups, inserts and deletes interleave.
OneRunsPerKey ==
    \A a, b \in Attempts : a # b /\ KeyOf[a] = KeyOf[b] => ~(Holds(a) /\ Holds(b))

\* While an attempt runs, the record is its own: it never saves its response to
\* the record of another attempt, and never deletes that of another.
RunnerOwnsRecord == \A a \in Attempts : Holds(a) => record[KeyOf[a]].owner = a

Responded == {"created", "deleting", "error", "crashed"}

\* A replayed response is one that was made for the same key and the same
\* payload, by an operation that got as far as its response.
ReplayIsFaithful ==
    \A a \in Attempts : At(a, "replayed") =>
        LET o == attempt[a].answer IN
        /\ o # Nobody
        /\ KeyOf[o] = KeyOf[a] /\ PayloadOf[o] = PayloadOf[a]
        /\ attempt[o].pc \in Responded

\* A row belongs to an attempt with its key; once it is answered, that attempt
\* has got as far as its response.
RecordIsGenuine ==
    \A k \in Keys :
        /\ ~Absent(k) => record[k].owner \in Sharing(k)
        /\ record[k].answered => attempt[record[k].owner].pc \in Responded

\* Why no two attempts run at once and why replays are faithful.
MutationInv == TypeOK /\ RunnerOwnsRecord /\ RecordIsGenuine /\ ReplayIsFaithful

SentFor(k) == MapThenSumSet(LAMBDA a : sent[a], Sharing(k))

\* All the attempts with one key send one transaction between them.
SentOncePerKey == \A k \in Keys : SentFor(k) <= 1

\* Nothing has failed: one key, one transaction, however often it is retried
\* and however the attempts overlap.
UndisturbedSentOnce == faults = 0 => SentOncePerKey

\* Once one attempt has been answered by its own operation, no attempt with
\* that key sends anything any more, whatever fails later.
SuccessIsFinal ==
    [][\A k \in Keys :
          (\E a \in Sharing(k) : At(a, "created")) => SentFor(k)' = SentFor(k)]_vars

\* A key is not blocked for ever: a record without an answer is answered or
\* deleted, as long as nothing fails.
KeyIsReleased ==
    [](faults = 0) =>
        \A k \in Keys :
            (record[k].owner # Nobody /\ ~record[k].answered)
                ~> (record[k].answered \/ Absent(k))
=============================================================================
