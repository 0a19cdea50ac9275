-------------------------- MODULE RequestProofs ------------------------------
(***************************************************************************)
(* Proofs about what one request of a client is answered.  First           *)
(* IdempotentMutation: two attempts with one key never run at the same     *)
(* time, and a replayed response is faithful.  Both follow from            *)
(* MutationInv: the row of a key is a lock whose owner is known.  Then     *)
(* Catalogue: what is held can be withdrawn, and the endpoints agree, from *)
(* CatalogueInv: what the wallets hold is counted in an ACTIVE position.   *)
(***************************************************************************)
EXTENDS IdempotentMutation, Catalogue, Sums, SequencesExt, TLAPS

\* Nobody is in the table before the first request.
LEMMA MutationInit == Init => MutationInv
  <1> SUFFICES ASSUME Init PROVE MutationInv
    OBVIOUS
  <1>1. TypeOK
    BY AttemptsAssumption, LimitsAssumption
       DEF Init, TypeOK, Record, Attempt, AttemptPC, NoRecord
  <1>2. RunnerOwnsRecord
    BY DEF Init, RunnerOwnsRecord, Holds
  <1>3. RecordIsGenuine
    BY DEF Init, RecordIsGenuine, Absent, NoRecord
  <1>4. ReplayIsFaithful
    BY DEF Init, ReplayIsFaithful, At
  <1> QED
    BY <1>1, <1>2, <1>3, <1>4 DEF MutationInv

\* Moving an attempt to another program counter keeps its type ...
LEMMA GotoType ==
  ASSUME TypeOK, NEW a \in Attempts, NEW pc \in AttemptPC, Goto(a, pc)
  PROVE  attempt' \in [Attempts -> Attempt]
  BY DEF TypeOK, Attempt, Goto

\* ... and so does giving it the response of the owner of a row.
LEMMA AnswerType ==
  ASSUME TypeOK, NEW a \in Attempts, NEW pc \in AttemptPC,
         NEW o \in Attempts \cup {Nobody},
         attempt' = [attempt EXCEPT ![a] = [@ EXCEPT !.pc = pc, !.answer = o]]
  PROVE  attempt' \in [Attempts -> Attempt]
  BY DEF TypeOK, Attempt

\* Whatever a lookup finds, its attempt ends well typed.
LEMMA ResolveType ==
  ASSUME TypeOK, NEW a \in Attempts, ResolveExisting(a, KeyOf[a])
  PROVE  attempt' \in [Attempts -> Attempt]
  <1>1. record[KeyOf[a]].owner \in Attempts \cup {Nobody}
    BY AttemptsAssumption DEF TypeOK, Record
  <1>2. {"conflict", "inProgress", "replayed"} \subseteq AttemptPC
    BY DEF AttemptPC
  <1> QED
    BY <1>1, <1>2, GotoType, AnswerType DEF ResolveExisting

\* The writes of complete and of the insert leave a table of rows.
LEMMA RecordType ==
  ASSUME TypeOK, NEW k \in Keys, NEW a \in Attempts
  PROVE  /\ [record EXCEPT ![k] = [owner |-> a, answered |-> FALSE]] \in [Keys -> Record]
         /\ StoreResponse(k) \in [Keys -> Record]
         /\ RemoveRecord(k) \in [Keys -> Record]
  BY DEF TypeOK, Record, StoreResponse, RemoveRecord, NoRecord

\* Every step keeps the types; withRetry never counts past its limit.
LEMMA TypeStep == TypeOK /\ [Next]_vars => TypeOK'
  <1> SUFFICES ASSUME TypeOK, [Next]_vars PROVE TypeOK'
    OBVIOUS
  <1>1. CASE UNCHANGED vars
    BY <1>1 DEF vars, TypeOK
  <1>2. ASSUME NEW a \in Attempts, Lookup(a) \/ LookupRaced(a) PROVE TypeOK'
    <2>1. {"create", "error"} \subseteq AttemptPC
      BY DEF AttemptPC
    <2>2. attempt' \in [Attempts -> Attempt]
      BY <1>2, <2>1, GotoType, ResolveType DEF Lookup, LookupRaced
    <2> QED
      BY <1>2, <2>2 DEF Lookup, LookupRaced, TypeOK
  <1>3. ASSUME NEW a \in Attempts, Create(a) PROVE TypeOK'
    <2>1. {"operation", "raced"} \subseteq AttemptPC
      BY DEF AttemptPC
    <2>2. attempt' \in [Attempts -> Attempt]
      BY <1>3, <2>1, GotoType DEF Create
    <2>3. record' \in [Keys -> Record]
      <3>1. KeyOf[a] \in Keys /\ record \in [Keys -> Record]
        BY AttemptsAssumption DEF TypeOK
      <3>2. [owner |-> a, answered |-> FALSE] \in Record
        BY DEF Record
      <3>3. \/ record' = record
            \/ record' = [record EXCEPT ![KeyOf[a]] = [owner |-> a, answered |-> FALSE]]
        BY <1>3 DEF Create
      <3> QED
        BY <3>1, <3>2, <3>3
    <2> QED
      BY <1>3, <2>2, <2>3 DEF Create, TypeOK
  <1>4. ASSUME NEW a \in Attempts,
               Operate(a) \/ ProviderAnswers(a) \/ OperationReturns(a) \/ OperationThrows(a)
        PROVE TypeOK'
    <2>1. {"deleting", "sending", "saving", "sent"} \subseteq AttemptPC
      BY DEF AttemptPC
    <2>2. attempt' \in [Attempts -> Attempt]
      BY <1>4, <2>1, GotoType DEF Operate, ProviderAnswers, OperationReturns, OperationThrows
    <2>3. sent' \in [Attempts -> Nat] /\ faults' \in Nat /\ record' = record
      BY <1>4 DEF Operate, ProviderAnswers, OperationReturns, OperationThrows, TypeOK, Fault
    <2> QED
      BY <2>2, <2>3 DEF TypeOK
  <1>5. ASSUME NEW a \in Attempts,
               SaveResponse(a) \/ SaveThrows(a) \/ DeleteRecord(a) \/ DeleteThrows(a)
        PROVE TypeOK'
    <2>1. {"created", "deleting", "error"} \subseteq AttemptPC
      BY DEF AttemptPC
    <2>2. attempt' \in [Attempts -> Attempt]
      BY <1>5, <2>1, GotoType, AnswerType
         DEF SaveResponse, SaveThrows, DeleteRecord, DeleteThrows
    <2>3. record' \in {record, StoreResponse(KeyOf[a]), RemoveRecord(KeyOf[a])}
      BY <1>5 DEF SaveResponse, SaveThrows, DeleteRecord, DeleteThrows
    <2>4. KeyOf[a] \in Keys
      BY AttemptsAssumption
    <2>5. record' \in [Keys -> Record]
      BY <2>3, <2>4, RecordType DEF TypeOK
    <2>6. sent' = sent /\ faults' \in Nat
      BY <1>5 DEF SaveResponse, SaveThrows, DeleteRecord, DeleteThrows, TypeOK, Fault
    <2> QED
      BY <2>2, <2>5, <2>6 DEF TypeOK
  <1>6. ASSUME NEW a \in Attempts, Crash(a) PROVE TypeOK'
    <2>1. "crashed" \in AttemptPC
      BY DEF AttemptPC
    <2>2. attempt' \in [Attempts -> Attempt]
      BY <1>6, <2>1, GotoType DEF Crash
    <2> QED
      BY <1>6, <2>2 DEF Crash, TypeOK, Fault
  <1>7. ASSUME NEW a \in Attempts, ProviderThrows(a) PROVE TypeOK'
    <2>1. sent' \in [Attempts -> Nat] /\ faults' \in Nat /\ record' = record
      BY <1>7 DEF ProviderThrows, Fault, TypeOK
    <2>2. CASE Goto(a, "deleting")
      <3>1. "deleting" \in AttemptPC
        BY DEF AttemptPC
      <3> QED
        BY <2>1, <2>2, <3>1, GotoType DEF TypeOK
    <2>3. CASE MayRetry(a) /\ attempt' = [attempt EXCEPT ![a].tries = @ + 1]
      <3>1. attempt[a].tries + 1 \in 0..(MaxAttempts - 1)
        BY <2>3, LimitsAssumption DEF MayRetry, TypeOK, Attempt
      <3>2. attempt' \in [Attempts -> Attempt]
        BY <2>3, <3>1 DEF TypeOK, Attempt
      <3> QED
        BY <2>1, <3>2 DEF TypeOK
    <2> QED
      BY <1>7, <2>2, <2>3 DEF ProviderThrows
  <1> QED
    BY <1>1, <1>2, <1>3, <1>4, <1>5, <1>6, <1>7 DEF Next, Step, Fails

-----------------------------------------------------------------------------
(* The lock *)

\* A step of one attempt leaves the others, and the rows of other keys, alone.
OnlyTouches(a) ==
    /\ \A b \in Attempts \ {a} : attempt'[b] = attempt[b]
    /\ \A k \in Keys \ {KeyOf[a]} : record'[k] = record[k]

\* The frame of every step.
LEMMA StepFrame ==
  ASSUME TypeOK, NEW a \in Attempts, Lookup(a) \/ Step(a) \/ Fails(a)
  PROVE  OnlyTouches(a)
  <1>1. \A b \in Attempts \ {a} : attempt'[b] = attempt[b]
    <2>1. \A pc : Goto(a, pc) => \A b \in Attempts \ {a} : attempt'[b] = attempt[b]
      BY DEF Goto, TypeOK
    <2>2. ResolveExisting(a, KeyOf[a]) => \A b \in Attempts \ {a} : attempt'[b] = attempt[b]
      BY <2>1 DEF ResolveExisting, TypeOK
    <2>3. CASE Lookup(a) \/ LookupRaced(a)
      BY <2>1, <2>2, <2>3 DEF Lookup, LookupRaced
    <2>4. CASE Create(a) \/ Operate(a) \/ ProviderAnswers(a) \/ OperationReturns(a)
               \/ DeleteRecord(a)
      BY <2>1, <2>4 DEF Create, Operate, ProviderAnswers, OperationReturns, DeleteRecord
    <2>5. CASE SaveResponse(a)
      BY <2>5 DEF SaveResponse, TypeOK
    <2>6. CASE Fails(a)
      BY <2>1, <2>6
         DEF Fails, ProviderThrows, OperationThrows, SaveThrows, DeleteThrows, Crash, TypeOK
    <2> QED
      BY <2>3, <2>4, <2>5, <2>6 DEF Step
  <1>2. \A k \in Keys \ {KeyOf[a]} : record'[k] = record[k]
    <2>1. CASE UNCHANGED record
      BY <2>1
    <2>2. CASE Create(a)
      BY <2>2 DEF Create, TypeOK
    <2>3. CASE record' \in {record, StoreResponse(KeyOf[a]), RemoveRecord(KeyOf[a])}
      BY <2>3 DEF StoreResponse, RemoveRecord, TypeOK
    <2>4. \/ UNCHANGED record \/ Create(a)
          \/ record' \in {record, StoreResponse(KeyOf[a]), RemoveRecord(KeyOf[a])}
      BY DEF Step, Fails, Lookup, LookupRaced, Operate, ProviderAnswers, OperationReturns,
             SaveResponse, DeleteRecord, ProviderThrows, OperationThrows, SaveThrows,
             DeleteThrows, Crash
    <2> QED
      BY <2>1, <2>2, <2>3, <2>4
  <1> QED
    BY <1>1, <1>2 DEF OnlyTouches

\* What a step does to its own attempt and to the row of its key.
OwnStep(a) ==
    LET k == KeyOf[a] IN
    \* a lookup or a failure of acquire: it does not start to run
    \/ /\ ~Holds(a) /\ ~Holds(a)' /\ record'[k] = record[k]
       /\ attempt[a].pc \in {"idle", "create", "raced"}
       /\ attempt'[a].pc = "replayed" =>
             SamePayload(a, k) /\ Answered(k) /\ attempt'[a].answer = record[k].owner
    \* the insert
    \/ /\ At(a, "create") /\ Absent(k) /\ attempt'[a].pc = "operation"
       /\ record'[k] = [owner |-> a, answered |-> FALSE]
    \* on the way to a response: the row waits
    \/ /\ attempt[a].pc \in {"operation", "sending", "sent"}
       /\ attempt'[a].pc \in {"sending", "sent", "saving", "deleting", "crashed"}
       /\ record'[k] = record[k]
    \* with or without the response, on the way out
    \/ /\ attempt[a].pc \in {"saving", "deleting"}
       /\ attempt'[a].pc \in Responded
       /\ \/ record'[k] = record[k]
          \/ record'[k] = NoRecord /\ ~Holds(a)'
          \/ record'[k] = [record[k] EXCEPT !.answered = TRUE]

\* Every step is one of the four.
LEMMA StepShape ==
  ASSUME TypeOK, NEW a \in Attempts, Lookup(a) \/ Step(a) \/ Fails(a)
  PROVE  OwnStep(a)
  <1> DEFINE k == KeyOf[a]
  <1>k. k \in Keys
    BY AttemptsAssumption
  <1>g. \A pc : Goto(a, pc) => attempt'[a].pc = pc
    BY DEF Goto, TypeOK, Attempt
  <1>r. ResolveExisting(a, k) =>
          /\ attempt'[a].pc \in {"conflict", "inProgress", "replayed"}
          /\ attempt'[a].pc = "replayed" =>
                SamePayload(a, k) /\ Answered(k) /\ attempt'[a].answer = record[k].owner
    BY <1>g DEF ResolveExisting, TypeOK, Attempt
  <1>1. CASE Lookup(a) \/ LookupRaced(a)
    BY <1>1, <1>g, <1>r DEF Lookup, LookupRaced, OwnStep, Holds, At
  <1>2. CASE Create(a)
    BY <1>2, <1>g, <1>k DEF Create, Insertable, OwnStep, Holds, At, TypeOK
  <1>3. CASE Operate(a) \/ ProviderAnswers(a) \/ OperationReturns(a) \/ OperationThrows(a)
    BY <1>3, <1>g
       DEF Operate, ProviderAnswers, OperationReturns, OperationThrows, OwnStep, At
  <1>4. CASE ProviderThrows(a)
    BY <1>4, <1>g DEF ProviderThrows, OwnStep, At, TypeOK, Attempt
  <1>5. CASE SaveResponse(a)
    BY <1>5, <1>k DEF SaveResponse, StoreResponse, OwnStep, At, TypeOK, Attempt, Responded
  <1>6. CASE SaveThrows(a)
    BY <1>6, <1>k, <1>g DEF SaveThrows, StoreResponse, OwnStep, At, TypeOK, Responded
  <1>7. CASE DeleteRecord(a) \/ DeleteThrows(a)
    BY <1>7, <1>k, <1>g
       DEF DeleteRecord, DeleteThrows, RemoveRecord, OwnStep, At, TypeOK, Responded, Holds
  <1>8. CASE Crash(a)
    BY <1>8, <1>g DEF Crash, Serving, OwnStep, Holds, Responded
  <1> QED
    BY <1>1, <1>2, <1>3, <1>4, <1>5, <1>6, <1>7, <1>8 DEF Step, Fails

\* MutationInv survives every step: the row of a running attempt is its own,
\* so nobody else can insert, answer or delete it.
LEMMA MutationStep == MutationInv /\ [Next]_vars => MutationInv'
  <1> SUFFICES ASSUME MutationInv, [Next]_vars PROVE MutationInv'
    OBVIOUS
  <1>t. TypeOK'
    BY TypeStep DEF MutationInv
  <1>1. CASE UNCHANGED vars
    BY <1>1, <1>t DEF vars, MutationInv, RunnerOwnsRecord, RecordIsGenuine, ReplayIsFaithful,
                      Holds, Absent, At, Sharing
  <1>2. ASSUME NEW a \in Attempts, Lookup(a) \/ Step(a) \/ Fails(a) PROVE MutationInv'
    <2> DEFINE k == KeyOf[a]
    <2>k. k \in Keys /\ \A b \in Attempts : KeyOf[b] \in Keys
      BY AttemptsAssumption
    <2>o. OnlyTouches(a)
      BY <1>2, StepFrame DEF MutationInv
    <2>s. OwnStep(a)
      BY <1>2, StepShape DEF MutationInv
    <2>i. TypeOK /\ RunnerOwnsRecord /\ RecordIsGenuine /\ ReplayIsFaithful
      BY DEF MutationInv
    <2>n. NoRecord.owner = Nobody /\ NoRecord.answered = FALSE /\ Nobody \notin Attempts
      BY AttemptsAssumption DEF NoRecord
    <2>1. RunnerOwnsRecord'
      <3> SUFFICES ASSUME NEW b \in Attempts, Holds(b)' PROVE (record[KeyOf[b]].owner = b)'
        BY DEF RunnerOwnsRecord
      <3>1. CASE b = a
        <4>1. Holds(a) => record[k].owner = a
          BY <2>i DEF RunnerOwnsRecord
        <4>2. record[k] \in Record
          BY <2>k, <2>i DEF TypeOK
        <4> QED
          BY <3>1, <4>1, <4>2, <2>s DEF OwnStep, Holds, At, Responded, Record
      <3>2. CASE b # a
        <4>1. Holds(b) /\ record[KeyOf[b]].owner = b
          BY <3>2, <2>o, <2>i DEF OnlyTouches, Holds, RunnerOwnsRecord
        <4>2. CASE KeyOf[b] # k
          BY <4>1, <4>2, <2>o, <2>k DEF OnlyTouches
        <4>3. CASE KeyOf[b] = k
          <5>1. ~Holds(a)
            BY <3>2, <4>1, <4>3, <2>i DEF RunnerOwnsRecord
          <5>2. ~Absent(k)
            BY <4>1, <4>3, <2>n DEF Absent
          <5>3. record'[k] = record[k]
            BY <5>1, <5>2, <2>s DEF OwnStep, Holds
          <5> QED
            BY <4>1, <4>3, <5>3
        <4> QED
          BY <4>2, <4>3
      <3> QED
        BY <3>1, <3>2
    <2>2. RecordIsGenuine'
      <3> SUFFICES ASSUME NEW j \in Keys
                   PROVE  /\ ~Absent(j)' => record'[j].owner \in Sharing(j)
                          /\ record'[j].answered => attempt'[record'[j].owner].pc \in Responded
        BY DEF RecordIsGenuine, Sharing, Absent
      <3> DEFINE o == record[j].owner
      <3>1. /\ ~Absent(j) => o \in Sharing(j)
            /\ record[j].answered => attempt[o].pc \in Responded
        BY <2>i DEF RecordIsGenuine
      <3>2. record[j].answered => ~Absent(j)
        BY <2>n DEF Absent
      <3>3. attempt[a].pc \in Responded => attempt'[a].pc \in Responded
        BY <2>s DEF OwnStep, Responded, At
      <3>4. record[j].answered => attempt'[o].pc \in Responded
        <4>1. CASE o = a
          BY <3>1, <3>3, <4>1
        <4>2. CASE o # a
          BY <3>1, <3>2, <4>2, <2>o DEF OnlyTouches, Sharing
        <4> QED
          BY <4>1, <4>2
      <3>5. CASE record'[j] = record[j]
        BY <3>1, <3>4, <3>5 DEF Absent
      <3>6. CASE record'[j] # record[j]
        <4>1. j = k
          BY <3>6, <2>o DEF OnlyTouches
        <4>2. CASE record'[k] = NoRecord
          BY <4>1, <4>2, <2>n DEF Absent
        <4>3. CASE record'[k] = [owner |-> a, answered |-> FALSE]
          BY <4>1, <4>3 DEF Absent, Sharing
        <4>4. CASE /\ record'[k] = [record[k] EXCEPT !.answered = TRUE]
                   /\ attempt[a].pc \in {"saving", "deleting"}
                   /\ attempt'[a].pc \in Responded
          <5>1. record[k].owner = a
            BY <4>4, <2>i DEF RunnerOwnsRecord, Holds
          <5>2. record'[k].owner = a
            BY <4>4, <5>1, <2>i, <2>k DEF TypeOK, Record
          <5> QED
            BY <4>1, <4>4, <5>2 DEF Sharing
        <4> QED
          BY <3>6, <4>1, <4>2, <4>3, <4>4, <2>s DEF OwnStep
      <3> QED
        BY <3>5, <3>6
    <2>3. ReplayIsFaithful'
      <3> SUFFICES ASSUME NEW b \in Attempts, At(b, "replayed")'
                   PROVE  LET o == attempt'[b].answer IN
                          /\ o # Nobody
                          /\ KeyOf[o] = KeyOf[b] /\ PayloadOf[o] = PayloadOf[b]
                          /\ attempt'[o].pc \in Responded
        BY DEF ReplayIsFaithful
      <3> DEFINE o == attempt'[b].answer
      <3>1. attempt[a].pc \in Responded => attempt'[a].pc \in Responded
        BY <2>s DEF OwnStep, Responded, At
      <3>2. CASE b = a
        <4>1. SamePayload(a, k) /\ Answered(k) /\ o = record[k].owner
              /\ attempt[a].pc \in {"idle", "create", "raced"}
          BY <3>2, <2>s DEF OwnStep, At, Responded
        <4>2. record[k].answered /\ ~Absent(k)
          BY <4>1, <2>n DEF Answered, Absent
        <4>3. o \in Attempts /\ KeyOf[o] = k /\ attempt[o].pc \in Responded
          BY <4>1, <4>2, <2>k, <2>i DEF RecordIsGenuine, Sharing
        <4>4. o # a
          BY <4>1, <4>3 DEF Responded
        <4>5. attempt'[o].pc \in Responded
          BY <4>3, <4>4, <2>o DEF OnlyTouches
        <4> QED
          BY <3>2, <4>1, <4>3, <4>5, <2>n DEF SamePayload
      <3>3. CASE b # a
        <4>1. attempt'[b] = attempt[b]
          BY <3>3, <2>o DEF OnlyTouches
        <4>2. /\ o # Nobody
              /\ KeyOf[o] = KeyOf[b] /\ PayloadOf[o] = PayloadOf[b]
              /\ attempt[o].pc \in Responded
          BY <4>1, <2>i DEF ReplayIsFaithful, At
        <4>3. o \in Attempts
          BY <4>1, <4>2, <2>i DEF TypeOK, Attempt
        <4>4. attempt'[o].pc \in Responded
          BY <4>2, <4>3, <3>1, <2>o DEF OnlyTouches
        <4> QED
          BY <4>2, <4>4
      <3> QED
        BY <3>2, <3>3
    <2> QED
      BY <1>t, <2>1, <2>2, <2>3 DEF MutationInv
  <1> QED
    BY <1>1, <1>2 DEF Next

\* MutationInv holds in every state of every behaviour of
\* IdempotencyInterceptor, whatever fails.
THEOREM MutationInvariance == Spec => []MutationInv
  <1>1. Init => MutationInv
    BY MutationInit
  <1>2. MutationInv /\ [Next]_vars => MutationInv'
    BY MutationStep
  <1> QED
    BY <1>1, <1>2, PTL DEF Spec

\* However lookups, inserts and deletes interleave and whatever fails, two
\* attempts with one key never run the operation at the same time.
THEOREM OneRuns == Spec => []OneRunsPerKey
  <1>1. MutationInv => OneRunsPerKey
    BY DEF MutationInv, RunnerOwnsRecord, OneRunsPerKey
  <1> QED
    BY <1>1, MutationInvariance, PTL

\* A client is never replayed the response to another key or payload, nor one
\* of an operation that had not got to its response.
THEOREM FaithfulReplay == Spec => []ReplayIsFaithful
  <1>1. MutationInv => ReplayIsFaithful
    BY DEF MutationInv
  <1> QED
    BY <1>1, MutationInvariance, PTL

-----------------------------------------------------------------------------
(* What is sent *)

Moves(a) == Lookup(a) \/ Step(a) \/ Fails(a)

\* An attempt that was answered by its own operation keeps the row of its key.
CreatedKeepsRecord ==
    \A a \in Attempts : At(a, "created") => record[KeyOf[a]].owner = a

\* As long as nothing fails, an attempt sends once, and has the row of its key
\* from then on.
SenderKeepsRecord ==
    faults = 0 =>
        \A a \in Attempts :
            /\ sent[a] \in {0, 1}
            /\ sent[a] = 1 =>
                  /\ attempt[a].pc \in {"sent", "saving", "created"}
                  /\ record[KeyOf[a]].owner = a

\* A step of another attempt does not take a row from its owner.
LEMMA RowIsKept ==
  ASSUME MutationInv, NEW a \in Attempts, Moves(a),
         NEW b \in Attempts \ {a}, record[KeyOf[b]].owner = b
  PROVE  record'[KeyOf[b]].owner = b /\ attempt'[b] = attempt[b]
  <1>0. TypeOK /\ OnlyTouches(a) /\ OwnStep(a)
    BY StepFrame, StepShape DEF Moves, MutationInv
  <1>1. KeyOf[b] \in Keys /\ KeyOf[a] \in Keys
    BY AttemptsAssumption
  <1>2. CASE KeyOf[b] # KeyOf[a]
    BY <1>0, <1>1, <1>2 DEF OnlyTouches
  <1>3. CASE KeyOf[b] = KeyOf[a]
    <2>1. ~Holds(a)
      BY <1>3 DEF MutationInv, RunnerOwnsRecord
    <2>2. ~Absent(KeyOf[a])
      BY <1>3, AttemptsAssumption DEF Absent, NoRecord
    <2>3. record'[KeyOf[a]] = record[KeyOf[a]]
      BY <2>1, <2>2, <1>0 DEF OwnStep, Holds
    <2> QED
      BY <2>3, <1>3, <1>0 DEF OnlyTouches
  <1> QED
    BY <1>2, <1>3, <1>0 DEF OnlyTouches

\* An attempt gets to "created" by saving its response, and stays there.
LEMMA CreatedStep ==
  ASSUME TypeOK, NEW a \in Attempts, Moves(a)
  PROVE  /\ attempt[a].pc # "created"
         /\ attempt'[a].pc = "created" => At(a, "saving") /\ record' = StoreResponse(KeyOf[a])
  <1>g. \A pc : Goto(a, pc) => attempt'[a].pc = pc
    BY DEF Goto, TypeOK, Attempt
  <1>r. ResolveExisting(a, KeyOf[a]) => attempt'[a].pc \in {"conflict", "inProgress", "replayed"}
    <2>1. \A o : attempt' = [attempt EXCEPT ![a] = [@ EXCEPT !.pc = "replayed", !.answer = o]]
                 => attempt'[a].pc = "replayed"
      BY DEF TypeOK, Attempt
    <2> QED
      BY <2>1, <1>g DEF ResolveExisting
  <1>1. CASE Lookup(a) \/ LookupRaced(a) \/ Create(a)
    BY <1>1, <1>g, <1>r DEF Lookup, LookupRaced, Create, At
  <1>2. CASE Operate(a) \/ ProviderAnswers(a) \/ OperationReturns(a) \/ OperationThrows(a)
    BY <1>2, <1>g DEF Operate, ProviderAnswers, OperationReturns, OperationThrows, At
  <1>3. CASE ProviderThrows(a)
    BY <1>3, <1>g DEF ProviderThrows, At, TypeOK, Attempt
  <1>4. CASE SaveResponse(a)
    BY <1>4 DEF SaveResponse, At
  <1>5. CASE SaveThrows(a) \/ DeleteRecord(a) \/ DeleteThrows(a) \/ Crash(a)
    BY <1>5, <1>g DEF SaveThrows, DeleteRecord, DeleteThrows, Crash, Serving, At
  <1> QED
    BY <1>1, <1>2, <1>3, <1>4, <1>5 DEF Moves, Step, Fails

LEMMA CreatedKeepsStep ==
  ASSUME MutationInv, CreatedKeepsRecord, [Next]_vars
  PROVE  CreatedKeepsRecord'
  <1>1. CASE UNCHANGED vars
    BY <1>1 DEF vars, CreatedKeepsRecord, At
  <1>2. ASSUME NEW a \in Attempts, Moves(a) PROVE CreatedKeepsRecord'
    <2> SUFFICES ASSUME NEW b \in Attempts, attempt'[b].pc = "created"
                 PROVE  record'[KeyOf[b]].owner = b
      BY DEF CreatedKeepsRecord, At
    <2>0. TypeOK /\ OnlyTouches(a) /\ KeyOf[b] \in Keys
      BY <1>2, StepFrame, AttemptsAssumption DEF Moves, MutationInv
    <2>1. CASE b = a
      <3>1. At(a, "saving") /\ record' = StoreResponse(KeyOf[a])
        BY <1>2, <2>0, <2>1, CreatedStep
      <3>2. record[KeyOf[a]].owner = a /\ record[KeyOf[a]] \in Record
        BY <3>1, <2>0, <2>1 DEF MutationInv, RunnerOwnsRecord, Holds, At, TypeOK
      <3> QED
        BY <3>1, <3>2, <2>0, <2>1 DEF StoreResponse, TypeOK, Record
    <2>2. CASE b # a
      <3>1. record[KeyOf[b]].owner = b
        BY <2>0, <2>2 DEF OnlyTouches, CreatedKeepsRecord, At
      <3> QED
        BY <1>2, <2>2, <3>1, RowIsKept
    <2> QED
      BY <2>1, <2>2
  <1> QED
    BY <1>1, <1>2 DEF Next, Moves

\* What an attempt's own step does to what it has sent.
LEMMA SendingStep ==
  ASSUME MutationInv, NEW a \in Attempts, Moves(a)
  PROVE  /\ \A b \in Attempts \ {a} : sent'[b] = sent[b]
         /\ sent'[a] # sent[a] => At(a, "sending")
         /\ faults' = 0 =>
              /\ faults = 0
              /\ \/ sent'[a] = sent[a] + 1 /\ At(a, "sending") /\ attempt'[a].pc = "sent"
                    /\ record' = record
                 \/ /\ sent'[a] = sent[a]
                    /\ \/ At(a, "sent") /\ attempt'[a].pc = "saving" /\ record' = record
                       \/ /\ At(a, "saving") /\ attempt'[a].pc = "created"
                          /\ record' = StoreResponse(KeyOf[a])
                       \/ attempt[a].pc \notin {"sent", "saving", "created"}
  <1>0. TypeOK /\ faults \in Nat
    BY DEF MutationInv, TypeOK
  <1>g. \A pc : Goto(a, pc) => attempt'[a].pc = pc
    BY <1>0 DEF Goto, TypeOK, Attempt
  <1>1. CASE Lookup(a) \/ LookupRaced(a) \/ Create(a) \/ Operate(a) \/ DeleteRecord(a)
    BY <1>1, <1>g, <1>0 DEF Lookup, LookupRaced, Create, Operate, DeleteRecord, At
  <1>2. CASE ProviderAnswers(a)
    BY <1>2, <1>g, <1>0 DEF ProviderAnswers, At, TypeOK
  <1>3. CASE OperationReturns(a)
    BY <1>3, <1>g, <1>0 DEF OperationReturns, At
  <1>4. CASE SaveResponse(a)
    BY <1>4, <1>0 DEF SaveResponse, At, TypeOK, Attempt
  <1>5. CASE Fails(a)
    <2>1. faults' = faults + 1
      BY <1>5 DEF Fails, ProviderThrows, OperationThrows, SaveThrows, DeleteThrows, Crash, Fault
    <2>2. faults' # 0
      BY <2>1, <1>0
    <2> QED
      BY <1>5, <2>2, <1>0
         DEF Fails, ProviderThrows, OperationThrows, SaveThrows, DeleteThrows, Crash, At, TypeOK
  <1> QED
    BY <1>1, <1>2, <1>3, <1>4, <1>5 DEF Moves, Step

LEMMA SenderKeepsStep ==
  ASSUME MutationInv, SenderKeepsRecord, [Next]_vars
  PROVE  SenderKeepsRecord'
  <1>1. CASE UNCHANGED vars
    BY <1>1 DEF vars, SenderKeepsRecord
  <1>2. ASSUME NEW a \in Attempts, Moves(a) PROVE SenderKeepsRecord'
    <2> SUFFICES ASSUME faults' = 0, NEW b \in Attempts
                 PROVE  /\ sent'[b] \in {0, 1}
                        /\ sent'[b] = 1 =>
                             /\ attempt'[b].pc \in {"sent", "saving", "created"}
                             /\ record'[KeyOf[b]].owner = b
      BY DEF SenderKeepsRecord
    <2>0. TypeOK /\ faults = 0 /\ KeyOf[a] \in Keys
      BY <1>2, SendingStep, AttemptsAssumption DEF MutationInv
    <2>1. /\ sent[b] \in {0, 1}
          /\ sent[b] = 1 =>
               /\ attempt[b].pc \in {"sent", "saving", "created"}
               /\ record[KeyOf[b]].owner = b
      BY <2>0 DEF SenderKeepsRecord
    <2>2. CASE b = a
      <3>1. CASE sent'[a] # sent[a]
        <4>1. /\ sent'[a] = sent[a] + 1 /\ At(a, "sending") /\ attempt'[a].pc = "sent"
              /\ record' = record
          BY <1>2, <3>1, SendingStep
        <4>2. record[KeyOf[a]].owner = a
          BY <4>1 DEF MutationInv, RunnerOwnsRecord, Holds, At
        <4> QED
          BY <2>1, <2>2, <4>1, <4>2 DEF At
      <3>2. CASE sent'[a] = sent[a] /\ sent[a] = 1
        <4>1. \/ At(a, "sent") /\ attempt'[a].pc = "saving" /\ record' = record
              \/ /\ At(a, "saving") /\ attempt'[a].pc = "created"
                 /\ record' = StoreResponse(KeyOf[a])
          BY <1>2, <2>1, <2>2, <3>2, <2>0, SendingStep, CreatedStep
        <4>2. record'[KeyOf[a]].owner = record[KeyOf[a]].owner
          BY <4>1, <2>0 DEF StoreResponse, TypeOK, Record
        <4> QED
          BY <2>1, <2>2, <3>2, <4>1, <4>2
      <3>3. CASE sent'[a] = sent[a] /\ sent[a] # 1
        BY <2>1, <2>2, <3>3
      <3> QED
        BY <3>1, <3>2, <3>3
    <2>3. CASE b # a
      <3>1. sent'[b] = sent[b]
        BY <1>2, <2>3, SendingStep
      <3>2. sent[b] = 1 => record'[KeyOf[b]].owner = b /\ attempt'[b] = attempt[b]
        BY <1>2, <2>1, <2>3, RowIsKept
      <3> QED
        BY <2>1, <3>1, <3>2
    <2> QED
      BY <2>2, <2>3
  <1> QED
    BY <1>1, <1>2 DEF Next, Moves

\* SentFor is a sum over a finite set of naturals.
LEMMA SentForIsTotal ==
  ASSUME NEW k \in Keys
  PROVE  /\ SentFor(k) = Total(sent, Sharing(k))
         /\ IsFiniteSet(Sharing(k)) /\ Sharing(k) \subseteq Attempts
  <1>1. SentFor(k) = Total(sent, Sharing(k))
    BY DEF SentFor, Total
  <1>2. IsFiniteSet(Sharing(k)) /\ Sharing(k) \subseteq Attempts
    BY AttemptsAssumption, FS_Subset DEF Sharing
  <1> QED
    BY <1>1, <1>2

\* Two senders with one key would both own its row.
LEMMA OneSender == MutationInv /\ SenderKeepsRecord => UndisturbedSentOnce
  <1> SUFFICES ASSUME MutationInv, SenderKeepsRecord, faults = 0, NEW k \in Keys
               PROVE  SentFor(k) <= 1
    BY DEF UndisturbedSentOnce, SentOncePerKey
  <1> DEFINE o == record[k].owner
  <1>1. \A a \in Sharing(k) : sent[a] \in {0, 1} /\ (sent[a] = 1 => o = a)
    BY DEF SenderKeepsRecord, Sharing
  <1> HIDE DEF o
  <1>2. \A a \in Sharing(k) : sent[a] \in Int /\ (a # o => sent[a] = 0)
    BY <1>1
  <1>3. Total(sent, Sharing(k)) = IF o \in Sharing(k) THEN sent[o] ELSE 0
    BY <1>2, SentForIsTotal, TotalOfOne
  <1> QED
    BY <1>1, <1>3, SentForIsTotal

\* One operation sends one transaction, however often the client repeats its
\* request and however the attempts overlap, as long as nothing fails.
THEOREM SentOnce == Spec => []UndisturbedSentOnce
  <1>1. Init => SenderKeepsRecord
    BY DEF Init, SenderKeepsRecord
  <1>2. MutationInv /\ SenderKeepsRecord /\ [Next]_vars => SenderKeepsRecord'
    BY SenderKeepsStep
  <1> QED
    BY <1>1, <1>2, OneSender, MutationInvariance, PTL DEF Spec

\* Once an attempt has its own operation's answer, no attempt with its key
\* sends anything more, whatever fails and whoever repeats the request.
THEOREM SuccessEndsSending == Spec => SuccessIsFinal
  <1> DEFINE Final == \A k \in Keys :
                         (\E a \in Sharing(k) : At(a, "created")) => SentFor(k)' = SentFor(k)
  <1>1. Init => CreatedKeepsRecord
    BY DEF Init, CreatedKeepsRecord, At
  <1>2. MutationInv /\ CreatedKeepsRecord /\ [Next]_vars => CreatedKeepsRecord'
    BY CreatedKeepsStep
  <1>3. MutationInv /\ MutationInv' /\ CreatedKeepsRecord /\ [Next]_vars => [Final]_vars
    <2> SUFFICES ASSUME MutationInv, MutationInv', CreatedKeepsRecord, Next,
                        NEW k \in Keys, NEW a \in Sharing(k), At(a, "created")
                 PROVE  SentFor(k)' = SentFor(k)
      OBVIOUS
    <2>1. PICK b \in Attempts : Moves(b)
      BY DEF Next, Moves
    <2>2. a \in Attempts /\ KeyOf[a] = k /\ record[k].owner = a
      BY DEF CreatedKeepsRecord, Sharing
    <2>3. \A c \in Sharing(k) : sent'[c] = sent[c]
      <3>1. CASE sent'[b] = sent[b]
        BY <2>1, <3>1, SendingStep DEF Sharing
      <3>2. CASE sent'[b] # sent[b]
        <4>1. record[KeyOf[b]].owner = b /\ b # a
          BY <2>1, <3>2, SendingStep DEF MutationInv, RunnerOwnsRecord, Holds, At
        <4>2. b \notin Sharing(k)
          BY <4>1, <2>2 DEF Sharing
        <4> QED
          BY <2>1, <4>2, SendingStep DEF Sharing
      <3> QED
        BY <3>1, <3>2
    <2>4. Total(sent, Sharing(k)) = Total(sent', Sharing(k))
      BY <2>3, SentForIsTotal, TotalEqual
    <2>5. SentFor(k)' = Total(sent', Sharing(k))
      BY DEF SentFor, Total, Sharing, MapThenSumSet, MapThenFoldSet
    <2> QED
      BY <2>4, <2>5, SentForIsTotal
  <1> QED
    BY <1>1, <1>2, <1>3, MutationInvariance, PTL DEF Spec, SuccessIsFinal

-----------------------------------------------------------------------------
(* The verdict of a list of checks *)

IsSequence(s) == \E S : s \in Seq(S)

\* No check refuses, and the answers a list of checks can give.
Passed(checks) == \A i \in DOMAIN checks : ~checks[i].refused

Answers(checks) == {checks[i].answer : i \in DOMAIN checks}

\* A set of naturals that is not empty has a least member.
LEMMA LeastMember ==
  ASSUME NEW I \in SUBSET Nat, I # {}
  PROVE  Min(I) \in I /\ \A i \in I : Min(I) <= i
  <1> DEFINE Below == {n \in Nat : \A i \in I : n <= i}
  <1>1. \E m \in I : \A i \in I : m <= i
    <2> SUFFICES ASSUME \A m \in I : \E i \in I : ~(m <= i) PROVE FALSE
      OBVIOUS
    <2>1. 0 \in Below
      OBVIOUS
    <2>2. \A n \in Nat : n \in Below => n + 1 \in Below
      OBVIOUS
    <2> HIDE DEF Below
    <2>3. \A n \in Nat : n \in Below
      BY <2>1, <2>2, SetInduction
    <2>4. PICK i \in I : TRUE
      OBVIOUS
    <2>5. i + 1 \in Below
      BY <2>3
    <2> QED
      BY <2>5 DEF Below
  <1> QED
    BY <1>1 DEF Min

\* The verdict is the answer of the first check that refuses.
LEMMA VerdictIsFirst ==
  ASSUME NEW checks, IsSequence(checks)
  PROVE  /\ Passed(checks) => Verdict(checks) = "ok"
         /\ ~Passed(checks) =>
              \E k \in DOMAIN checks :
                 /\ checks[k].refused /\ \A i \in 1..(k - 1) : ~checks[i].refused
                 /\ Verdict(checks) = checks[k].answer
  <1> DEFINE I == {i \in 1..Len(checks) : checks[i].refused}
             k == Min(I)
  <1>0. Len(checks) \in Nat /\ DOMAIN checks = 1..Len(checks)
    BY DEF IsSequence
  <1>1. CASE I = {}
    BY <1>0, <1>1 DEF Verdict, SelectInSeq, Passed
  <1>2. CASE I # {}
    <2>1. k \in I /\ \A i \in I : k <= i
      <3> HIDE DEF k
      <3>1. I \in SUBSET Nat
        OBVIOUS
      <3> HIDE DEF I
      <3> QED
        BY <3>1, <1>2, LeastMember DEF k
    <2>2. SelectInSeq(checks, LAMBDA c : c.refused) = k
      BY <1>2 DEF SelectInSeq
    <2>3. Verdict(checks) = checks[k].answer
      <3> HIDE DEF k
      <3>1. k # 0
        BY <2>1
      <3> QED
        BY <2>2, <3>1 DEF Verdict
    <2> HIDE DEF k
    <2>4. ~Passed(checks) /\ k \in DOMAIN checks /\ checks[k].refused
      BY <1>0, <2>1 DEF Passed
    <2>5. \A i \in 1..(k - 1) : ~checks[i].refused
      BY <1>0, <2>1
    <2> QED
      BY <2>3, <2>4, <2>5
  <1> QED
    BY <1>1, <1>2

LEMMA SequenceIsOne ==
  ASSUME NEW s, NEW S, s \in Seq(S)
  PROVE  IsSequence(s)
BY DEF IsSequence

\* One check.
LEMMA VerdictOfOne ==
  ASSUME NEW c, NEW x
  PROVE  /\ IsSequence(<<Refuse(c, x)>>)
         /\ Passed(<<Refuse(c, x)>>) <=> ~c
         /\ Answers(<<Refuse(c, x)>>) = {x}
         /\ Verdict(<<Refuse(c, x)>>) = IF c THEN x ELSE "ok"
  <1> DEFINE s == <<Refuse(c, x)>>
  <1>1. IsSequence(s) /\ (Passed(s) <=> ~c) /\ Answers(s) = {x}
    <2> DEFINE r == Refuse(c, x)
    <2>1. r.refused = c /\ r.answer = x
      BY DEF Refuse
    <2> HIDE DEF r
    <2>2. <<r>> \in Seq({r})
      OBVIOUS
    <2>3. IsSequence(<<r>>)
      BY <2>2, SequenceIsOne
    <2>4. Passed(<<r>>) <=> ~c
      BY <2>1 DEF Passed
    <2>5. Answers(<<r>>) = {x}
      BY <2>1 DEF Answers
    <2> QED
      BY <2>3, <2>4, <2>5 DEF r
  <1>2. DOMAIN s = {1} /\ s[1].answer = x
    BY DEF Refuse
  <1> HIDE DEF s
  <1>3. Verdict(s) = IF c THEN x ELSE "ok"
    BY <1>1, <1>2, VerdictIsFirst
  <1> QED
    BY <1>1, <1>3 DEF s

\* A list of checks after another is reached when that one passes.
LEMMA VerdictOfBoth ==
  ASSUME NEW a, IsSequence(a), NEW b, IsSequence(b)
  PROVE  /\ IsSequence(a \o b)
         /\ Passed(a \o b) <=> Passed(a) /\ Passed(b)
         /\ Answers(a \o b) = Answers(a) \cup Answers(b)
         /\ Verdict(a \o b) = IF Passed(a) THEN Verdict(b) ELSE Verdict(a)
  <1> DEFINE s == a \o b
  <1>1. /\ IsSequence(s) /\ Len(s) = Len(a) + Len(b)
        /\ \A i \in 1..Len(a) : s[i] = a[i]
        /\ \A i \in 1..Len(b) : s[Len(a) + i] = b[i]
        /\ Len(a) \in Nat /\ Len(b) \in Nat
        /\ DOMAIN a = 1..Len(a) /\ DOMAIN b = 1..Len(b) /\ DOMAIN s = 1..Len(s)
    <2>1. PICK U : a \in Seq(U)
      BY DEF IsSequence
    <2>2. PICK V : b \in Seq(V)
      BY DEF IsSequence
    <2>3. a \in Seq(U \cup V) /\ b \in Seq(U \cup V)
      BY <2>1, <2>2
    <2>4. s \in Seq(U \cup V)
      BY <2>3
    <2> QED
      BY <2>3, <2>4 DEF IsSequence
  <1> HIDE DEF s
  <1>2. \A i \in DOMAIN s : i \in DOMAIN a \/ (i - Len(a) \in DOMAIN b /\ i = Len(a) + (i - Len(a)))
    BY <1>1
  <1>3. Passed(s) <=> Passed(a) /\ Passed(b)
    <2>1. ASSUME Passed(s) PROVE Passed(a) /\ Passed(b)
      <3>1. \A i \in DOMAIN b : Len(a) + i \in DOMAIN s
        BY <1>1
      <3> QED
        BY <1>1, <2>1, <3>1 DEF Passed
    <2>2. ASSUME Passed(a), Passed(b) PROVE Passed(s)
      BY <1>1, <1>2, <2>2 DEF Passed
    <2> QED
      BY <2>1, <2>2
  <1>4. Answers(s) = Answers(a) \cup Answers(b)
    <2>1. ASSUME NEW i \in DOMAIN s PROVE s[i].answer \in Answers(a) \cup Answers(b)
      BY <1>1, <1>2 DEF Answers
    <2>2. ASSUME NEW i \in DOMAIN a PROVE a[i].answer \in Answers(s)
      <3>1. i \in DOMAIN s /\ s[i] = a[i]
        BY <1>1
      <3> QED
        BY <3>1 DEF Answers
    <2>3. ASSUME NEW i \in DOMAIN b PROVE b[i].answer \in Answers(s)
      <3>1. Len(a) + i \in DOMAIN s /\ s[Len(a) + i] = b[i]
        BY <1>1
      <3> QED
        BY <3>1 DEF Answers
    <2> QED
      BY <2>1, <2>2, <2>3 DEF Answers
  <1>5. CASE ~Passed(a)
    <2>1. PICK k \in DOMAIN a : /\ a[k].refused /\ \A i \in 1..(k - 1) : ~a[i].refused
                                /\ Verdict(a) = a[k].answer
      BY <1>5, VerdictIsFirst
    <2>2. PICK n \in DOMAIN s : /\ s[n].refused /\ \A i \in 1..(n - 1) : ~s[i].refused
                                /\ Verdict(s) = s[n].answer
      BY <1>1, <1>3, <1>5, VerdictIsFirst
    <2>3. k \in DOMAIN s /\ s[k] = a[k] /\ \A i \in 1..(k - 1) : s[i] = a[i]
      BY <1>1
    <2>4. n = k
      <3>1. k \in Nat \ {0} /\ n \in Nat \ {0}
        BY <1>1
      <3>2. ~(k < n)
        BY <2>1, <2>2, <2>3, <3>1
      <3>3. ~(n < k)
        BY <2>1, <2>2, <2>3, <3>1
      <3> QED
        BY <3>1, <3>2, <3>3
    <2> QED
      BY <1>1, <1>3, <1>4, <1>5, <2>1, <2>2, <2>3, <2>4 DEF s
  <1>6. CASE Passed(a) /\ Passed(b)
    BY <1>1, <1>3, <1>4, <1>6, VerdictIsFirst DEF s
  <1>7. CASE Passed(a) /\ ~Passed(b)
    <2>1. PICK k \in DOMAIN b : /\ b[k].refused /\ \A i \in 1..(k - 1) : ~b[i].refused
                                /\ Verdict(b) = b[k].answer
      BY <1>7, VerdictIsFirst
    <2>2. PICK n \in DOMAIN s : /\ s[n].refused /\ \A i \in 1..(n - 1) : ~s[i].refused
                                /\ Verdict(s) = s[n].answer
      BY <1>1, <1>3, <1>7, VerdictIsFirst
    <2>3. n \notin DOMAIN a
      BY <1>1, <1>7, <2>2 DEF Passed
    <2>4. n - Len(a) \in DOMAIN b /\ s[n] = b[n - Len(a)]
      BY <1>1, <1>2, <2>3
    <2>5. n - Len(a) = k
      <3>1. k \in Nat \ {0} /\ n - Len(a) \in Nat \ {0} /\ n \in Nat
        BY <1>1, <2>4
      <3>2. ~(k < n - Len(a))
        <4> SUFFICES ASSUME k < n - Len(a) PROVE FALSE
          OBVIOUS
        <4>1. Len(a) + k \in 1..(n - 1) /\ s[Len(a) + k] = b[k]
          BY <1>1, <3>1
        <4> QED
          BY <2>1, <2>2, <4>1
      <3>3. ~(n - Len(a) < k)
        BY <2>1, <2>2, <2>4, <3>1
      <3> QED
        BY <3>1, <3>2, <3>3
    <2> QED
      BY <1>1, <1>3, <1>4, <1>7, <2>1, <2>2, <2>4, <2>5 DEF s
  <1> QED
    BY <1>5, <1>6, <1>7

-----------------------------------------------------------------------------
(* What the endpoints check *)

\* The conditions of the checks, one name for each list of them.
Buildable(v) == HasDecimals(v) /\ HasClient(v)

OnNetwork(v) ==
  /\ Home(v) \in Testnets \/ config.mainnet
  /\ config.chain[Home(v)] = "enabled"

FitsWallet(v, w) == w \in Owned /\ ChainOf[w] = Home(v)

Approvable(v, w) ==
  /\ Defined(v, Chains) /\ Buildable(v) /\ config.vault[v].deposits
  /\ OnNetwork(v) /\ FitsWallet(v, w)

ApproveRefusals ==
  {"not found", "error", "deposits disabled", "forbidden", "chain disabled", "wallet chain"}

\* A list of checks: it passes when the condition holds, and no answer is "ok".
IsChecks(checks, condition, answers) ==
  /\ IsSequence(checks)
  /\ Passed(checks) <=> condition
  /\ Answers(checks) = answers

LEMMA ChecksOfOne ==
  ASSUME NEW c, NEW x
  PROVE  IsChecks(<<Refuse(c, x)>>, ~c, {x})
BY VerdictOfOne DEF IsChecks

LEMMA ChecksOfTwo ==
  ASSUME NEW c, NEW x, NEW d, NEW y
  PROVE  /\ IsChecks(<<Refuse(c, x), Refuse(d, y)>>, ~c /\ ~d, {x, y})
         /\ Verdict(<<Refuse(c, x), Refuse(d, y)>>) =
               IF c THEN x ELSE IF d THEN y ELSE "ok"
  <1> DEFINE s == <<Refuse(c, x), Refuse(d, y)>>
  <1>1. /\ IsSequence(s) /\ DOMAIN s = {1, 2}
        /\ s[1].refused = c /\ s[1].answer = x /\ s[2].refused = d /\ s[2].answer = y
    <2> DEFINE r == Refuse(c, x)
               q == Refuse(d, y)
    <2>1. r.refused = c /\ r.answer = x /\ q.refused = d /\ q.answer = y
      BY DEF Refuse
    <2> HIDE DEF r, q
    <2>2. <<r, q>> \in Seq({r, q}) /\ DOMAIN <<r, q>> = {1, 2}
      OBVIOUS
    <2>3. IsSequence(<<r, q>>)
      BY <2>2, SequenceIsOne
    <2>4. /\ <<r, q>>[1].refused = c /\ <<r, q>>[1].answer = x
          /\ <<r, q>>[2].refused = d /\ <<r, q>>[2].answer = y
      BY <2>1
    <2> QED
      BY <2>2, <2>3, <2>4 DEF r, q
  <1> HIDE DEF s
  <1>2. /\ Passed(s) <=> ~c /\ ~d
        /\ Answers(s) = {x, y}
    BY <1>1 DEF Passed, Answers
  <1>3. Verdict(s) = IF c THEN x ELSE IF d THEN y ELSE "ok"
    <2>1. CASE ~c /\ ~d
      BY <1>1, <1>2, <2>1, VerdictIsFirst
    <2>2. CASE c \/ d
      <3>1. PICK k \in DOMAIN s : /\ s[k].refused /\ \A i \in 1..(k - 1) : ~s[i].refused
                                 /\ Verdict(s) = s[k].answer
        BY <1>1, <1>2, <2>2, VerdictIsFirst
      <3>2. k = 1 \/ k = 2
        BY <1>1
      <3> QED
        BY <1>1, <3>1, <3>2
    <2> QED
      BY <2>1, <2>2
  <1> QED
    BY <1>1, <1>2, <1>3 DEF IsChecks, s

LEMMA ChecksOfBoth ==
  ASSUME NEW a, NEW b, NEW c, NEW d, NEW A, NEW B, IsChecks(a, c, A), IsChecks(b, d, B)
  PROVE  IsChecks(a \o b, c /\ d, A \cup B)
  <1>1. /\ IsSequence(a \o b) /\ (Passed(a \o b) <=> Passed(a) /\ Passed(b))
        /\ Answers(a \o b) = Answers(a) \cup Answers(b)
    BY VerdictOfBoth DEF IsChecks
  <1> QED
    BY <1>1 DEF IsChecks

\* A list whose answers are refusals passes exactly when its verdict is "ok".
LEMMA VerdictOfChecks ==
  ASSUME NEW checks, NEW c, NEW A, "ok" \notin A, IsChecks(checks, c, A)
  PROVE  /\ Verdict(checks) = "ok" <=> c
         /\ Verdict(checks) \in A \cup {"ok"}
  <1>1. IsSequence(checks) /\ (Passed(checks) <=> c) /\ Answers(checks) = A
    BY DEF IsChecks
  <1>2. ~Passed(checks) => Verdict(checks) \in A
    BY <1>1, VerdictIsFirst DEF Answers
  <1>3. Passed(checks) => Verdict(checks) = "ok"
    BY <1>1, VerdictIsFirst
  <1> QED
    BY <1>1, <1>2, <1>3

LEMMA BuildAndVaultChecks ==
  ASSUME NEW v, NEW cs
  PROVE  /\ IsChecks(BuildChecks(v), Buildable(v), {"error"})
         /\ IsChecks(VaultChecks(v, cs), Defined(v, cs) /\ Buildable(v),
                     {"not found", "error"})
  <1>2. IsChecks(BuildChecks(v), ~~HasDecimals(v) /\ ~~HasClient(v),
                 {"error", "error"})
    BY ChecksOfTwo DEF BuildChecks
  <1>3. IsChecks(BuildChecks(v), Buildable(v), {"error"})
    BY <1>2 DEF IsChecks, Buildable
  <1>4. IsChecks(<<Refuse(~Defined(v, cs), "not found")>>, ~~Defined(v, cs),
                 {"not found"})
    BY ChecksOfOne
  <1>5. IsChecks(VaultChecks(v, cs), ~~Defined(v, cs) /\ Buildable(v),
                 {"not found"} \cup {"error"})
    BY <1>3, <1>4, ChecksOfBoth DEF VaultChecks
  <1>6. IsChecks(VaultChecks(v, cs), Defined(v, cs) /\ Buildable(v),
                 {"not found", "error"})
    BY <1>5 DEF IsChecks
  <1> QED
    BY <1>3, <1>6

LEMMA OtherChecks ==
  ASSUME NEW v, NEW w
  PROVE  /\ IsChecks(DepositEnabled(v), config.vault[v].deposits, {"deposits disabled"})
         /\ IsChecks(WithdrawEnabled(v), config.vault[v].withdrawals,
                     {"withdrawals disabled"})
         /\ IsChecks(ChainChecks(v), OnNetwork(v), {"forbidden", "chain disabled"})
         /\ IsChecks(WalletChecks(v, w), FitsWallet(v, w), {"not found", "wallet chain"})
  <1>2. IsChecks(DepositEnabled(v), ~~config.vault[v].deposits, {"deposits disabled"})
    BY ChecksOfOne DEF DepositEnabled
  <1>3. IsChecks(WithdrawEnabled(v), ~~config.vault[v].withdrawals, {"withdrawals disabled"})
    BY ChecksOfOne DEF WithdrawEnabled
  <1>4. IsChecks(ChainChecks(v),
                 ~(Home(v) \notin Testnets /\ ~config.mainnet)
                   /\ ~(config.chain[Home(v)] # "enabled"), {"forbidden", "chain disabled"})
    BY ChecksOfTwo DEF ChainChecks
  <1>5. IsChecks(WalletChecks(v, w), ~(w \notin Owned) /\ ~(ChainOf[w] # Home(v)),
                 {"not found", "wallet chain"})
    BY ChecksOfTwo DEF WalletChecks
  <1> QED
    BY <1>2, <1>3, <1>4, <1>5 DEF IsChecks, OnNetwork, FitsWallet

\* What each endpoint demands.
LEMMA ApproveDemands ==
  ASSUME NEW v, NEW w
  PROVE  /\ IsChecks(ApproveChecks(v, w), Approvable(v, w), ApproveRefusals)
         /\ Verdict(ApproveChecks(v, w)) = "ok" <=> Approvable(v, w)
  <1> DEFINE vault == VaultChecks(v, Chains)
             A1 == {"not found", "error"} \cup {"deposits disabled"}
             A2 == A1 \cup {"forbidden", "chain disabled"}
             A3 == A2 \cup {"not found", "wallet chain"}
             D1 == (Defined(v, Chains) /\ Buildable(v)) /\ config.vault[v].deposits
             D2 == D1 /\ OnNetwork(v)
             D3 == D2 /\ FitsWallet(v, w)
  <1>1. IsChecks(vault \o DepositEnabled(v), D1, A1)
    BY BuildAndVaultChecks, OtherChecks, ChecksOfBoth
  <1>2. IsChecks((vault \o DepositEnabled(v)) \o ChainChecks(v), D2, A2)
    <2>1. IsChecks(ChainChecks(v), OnNetwork(v), {"forbidden", "chain disabled"})
      BY OtherChecks
    <2> HIDE DEF D1, A1, vault
    <2> QED
      BY <1>1, <2>1, ChecksOfBoth
  <1>3. IsChecks(((vault \o DepositEnabled(v)) \o ChainChecks(v))
                   \o WalletChecks(v, w), D3, A3)
    <2>1. IsChecks(WalletChecks(v, w), FitsWallet(v, w), {"not found", "wallet chain"})
      BY OtherChecks
    <2> HIDE DEF D2, A2, vault
    <2> QED
      BY <1>2, <2>1, ChecksOfBoth
  <1>4. IsChecks(ApproveChecks(v, w), Approvable(v, w), ApproveRefusals)
    BY <1>3 DEF IsChecks, Approvable, ApproveRefusals, ApproveChecks
  <1>5. "ok" \notin ApproveRefusals
    BY DEF ApproveRefusals
  <1> QED
    BY <1>4, <1>5, VerdictOfChecks

LEMMA PreviewDemands ==
  ASSUME NEW v, NEW w, NEW amount \in Int, NEW balance \in Int
  PROVE  Verdict(PreviewChecks(v, w, amount, balance)) = "ok" <=>
           Defined(v, Chains) /\ Buildable(v) /\ FitsWallet(v, w) /\ ~(balance < amount)
  <1> DEFINE vault == VaultChecks(v, Chains)
             short == balance < amount
             x == "insufficient balance"
             funds == <<Refuse(short, x)>>
             A == ({"not found", "error"} \cup {"not found", "wallet chain"})
                    \cup {"insufficient balance"}
  <1>1. IsChecks(vault \o WalletChecks(v, w),
                 (Defined(v, Chains) /\ Buildable(v)) /\ FitsWallet(v, w),
                 {"not found", "error"} \cup {"not found", "wallet chain"})
    <2>1. IsChecks(WalletChecks(v, w), FitsWallet(v, w), {"not found", "wallet chain"})
      BY OtherChecks
    <2>2. IsChecks(vault, Defined(v, Chains) /\ Buildable(v), {"not found", "error"})
      BY BuildAndVaultChecks
    <2> HIDE DEF vault
    <2> QED
      BY <2>1, <2>2, ChecksOfBoth
  <1>2. IsChecks(funds, ~short, {x})
    <2> HIDE DEF short, x
    <2> QED
      BY ChecksOfOne
  <1> HIDE DEF funds, short
  <1>3. IsChecks((vault \o WalletChecks(v, w)) \o funds,
                 ((Defined(v, Chains) /\ Buildable(v)) /\ FitsWallet(v, w)) /\ ~short, A)
    BY <1>1, <1>2, ChecksOfBoth
  <1>4. IsChecks(PreviewChecks(v, w, amount, balance),
                 ((Defined(v, Chains) /\ Buildable(v)) /\ FitsWallet(v, w)) /\ ~short, A)
    BY <1>3 DEF IsChecks, PreviewChecks, funds, short
  <1>5. "ok" \notin A
    OBVIOUS
  <1> HIDE DEF A
  <1> QED
    BY <1>4, <1>5, VerdictOfChecks DEF short

LEMMA DepositDemands ==
  ASSUME NEW v, NEW w, NEW amount \in Int, NEW balance \in Int, NEW allowance \in Int
  PROVE  /\ Verdict(DepositChecks(v, w, amount, balance, allowance)) = "ok" <=>
               Approvable(v, w) /\ ~(balance < amount) /\ ~(allowance < amount)
         /\ Verdict(DepositChecks(v, w, amount, balance, allowance))
               = "insufficient allowance" <=>
               Approvable(v, w) /\ ~(balance < amount) /\ allowance < amount
  <1> DEFINE approve == ApproveChecks(v, w)
             short == balance < amount
             few == allowance < amount
             x == "insufficient balance"
             y == "insufficient allowance"
             funds == <<Refuse(short, x), Refuse(few, y)>>
  <1>1. IsChecks(approve, Approvable(v, w), ApproveRefusals)
    BY ApproveDemands
  <1>2. Verdict(approve) \in ApproveRefusals \cup {"ok"}
    <2>1. "ok" \notin ApproveRefusals
      BY DEF ApproveRefusals
    <2> QED
      BY <1>1, <2>1, VerdictOfChecks
  <1>3. Verdict(approve) = "ok" <=> Approvable(v, w)
    BY ApproveDemands
  <1>4. /\ IsSequence(funds)
        /\ Verdict(funds) = IF short THEN x ELSE IF few THEN y ELSE "ok"
    <2> HIDE DEF short, few, x, y
    <2> QED
      BY ChecksOfTwo DEF IsChecks
  <1>5. DepositChecks(v, w, amount, balance, allowance) = approve \o funds
    BY DEF DepositChecks
  <1> HIDE DEF approve, funds, short, few
  <1>6. Verdict(approve \o funds) =
           IF Approvable(v, w) THEN Verdict(funds) ELSE Verdict(approve)
    BY <1>1, <1>4, VerdictOfBoth DEF IsChecks
  <1> QED
    BY <1>2, <1>3, <1>4, <1>5, <1>6 DEF ApproveRefusals, short, few

LEMMA WithdrawDemands ==
  ASSUME NEW v, NEW w, NEW amount, NEW full
  PROVE  Verdict(WithdrawChecks(v, w, amount, full)) = "ok" <=>
           /\ position[v].status = "ACTIVE"
           /\ Defined(v, {row[v]}) /\ Buildable(v) /\ config.vault[v].withdrawals
           /\ OnNetwork(v) /\ FitsWallet(v, w)
           /\ ~(WithdrawAmount(v, amount, full) > position[v].shares)
           /\ ~(WithdrawAmount(v, amount, full) > held[w][v])
  <1> DEFINE active == <<Refuse(position[v].status # "ACTIVE", "position not active")>>
             vault == VaultChecks(v, {row[v]})
             tooMuch == WithdrawAmount(v, amount, full) > position[v].shares
             notHeld == WithdrawAmount(v, amount, full) > held[w][v]
             x == "insufficient position"
             funds == <<Refuse(tooMuch, x), Refuse(notHeld, x)>>
             C == ~tooMuch /\ ~notHeld
             A1 == {"position not active"} \cup {"not found", "error"}
             A2 == A1 \cup {"withdrawals disabled"}
             A3 == A2 \cup {"forbidden", "chain disabled"}
             A4 == A3 \cup {"not found", "wallet chain"}
             A5 == A4 \cup {x, x}
  <1>1. IsChecks(active, ~(position[v].status # "ACTIVE"), {"position not active"})
    BY ChecksOfOne
  <1>2. IsChecks(funds, C, {x, x})
    <2> HIDE DEF tooMuch, notHeld, x
    <2> QED
      BY ChecksOfTwo
  <1>3. "ok" \notin A5
    OBVIOUS
  <1>4. WithdrawChecks(v, w, amount, full) =
          ((((active \o vault) \o WithdrawEnabled(v)) \o ChainChecks(v))
             \o WalletChecks(v, w)) \o funds
    BY DEF WithdrawChecks
  <1>5. IsChecks(active \o vault,
                 ~(position[v].status # "ACTIVE") /\ (Defined(v, {row[v]}) /\ Buildable(v)), A1)
    BY <1>1, BuildAndVaultChecks, ChecksOfBoth
  <1> DEFINE D1 == ~(position[v].status # "ACTIVE") /\ (Defined(v, {row[v]}) /\ Buildable(v))
             D2 == D1 /\ config.vault[v].withdrawals
             D3 == D2 /\ OnNetwork(v)
             D4 == D3 /\ FitsWallet(v, w)
  <1>6. IsChecks((active \o vault) \o WithdrawEnabled(v), D2, A2)
    <2>1. IsChecks(WithdrawEnabled(v), config.vault[v].withdrawals, {"withdrawals disabled"})
      BY OtherChecks
    <2>2. IsChecks(active \o vault, D1, A1)
      BY <1>5
    <2> HIDE DEF D1, A1, active, vault
    <2> QED
      BY ONLY <2>1, <2>2, ChecksOfBoth
  <1>7. IsChecks(((active \o vault) \o WithdrawEnabled(v)) \o ChainChecks(v), D3, A3)
    <2> HIDE DEF D2, A2, active, vault
    <2> QED
      BY <1>6, OtherChecks, ChecksOfBoth
  <1>8. IsChecks((((active \o vault) \o WithdrawEnabled(v)) \o ChainChecks(v))
                   \o WalletChecks(v, w), D4, A4)
    <2> HIDE DEF D3, A3, active, vault
    <2> QED
      BY <1>7, OtherChecks, ChecksOfBoth
  <1>9. IsChecks(((((active \o vault) \o WithdrawEnabled(v)) \o ChainChecks(v))
                    \o WalletChecks(v, w)) \o funds, D4 /\ C, A5)
    <2> HIDE DEF D4, A4, C, active, vault, funds
    <2> QED
      BY <1>2, <1>8, ChecksOfBoth
  <1>10. Verdict(WithdrawChecks(v, w, amount, full)) = "ok" <=> D4 /\ C
    <2> HIDE DEF D4, A5, C, active, vault, funds
    <2> QED
      BY <1>3, <1>4, <1>9, VerdictOfChecks
  <1> QED
    BY <1>10

-----------------------------------------------------------------------------
(* The endpoints agree *)

LEMMA DepositsAgree ==
  ASSUME NEW v, NEW w, NEW amount \in Int, NEW balance \in Int, NEW allowance \in Int
  PROVE  DepositAgrees(v, w, amount, balance, allowance)
  <1>1. Approvable(v, w) => Defined(v, Chains) /\ Buildable(v) /\ FitsWallet(v, w)
    BY DEF Approvable
  <1> QED
    <2>1. Verdict(PreviewChecks(v, w, amount, balance)) = "ok" <=>
            Defined(v, Chains) /\ Buildable(v) /\ FitsWallet(v, w) /\ ~(balance < amount)
      BY PreviewDemands
    <2>2. Verdict(ApproveChecks(v, w)) = "ok" <=> Approvable(v, w)
      BY ApproveDemands
    <2>3. /\ Verdict(DepositChecks(v, w, amount, balance, allowance)) = "ok" <=>
               Approvable(v, w) /\ ~(balance < amount) /\ ~(allowance < amount)
          /\ Verdict(DepositChecks(v, w, amount, balance, allowance))
                = "insufficient allowance" <=>
               Approvable(v, w) /\ ~(balance < amount) /\ allowance < amount
      BY DepositDemands
    <2> DEFINE p == Verdict(PreviewChecks(v, w, amount, balance))
               a == Verdict(ApproveChecks(v, w))
               d == Verdict(DepositChecks(v, w, amount, balance, allowance))
    <2>4. /\ d = "ok" => ~(allowance < amount)
          /\ d = "insufficient allowance" => allowance < amount
          /\ d \in {"ok", "insufficient allowance"} => p = "ok" /\ a = "ok"
      BY <1>1, <2>1, <2>2, <2>3
    <2>5. a = "ok" /\ amount <= balance /\ amount <= allowance => d = "ok"
      <3>1. amount <= balance => ~(balance < amount)
        OBVIOUS
      <3>2. amount <= allowance => ~(allowance < amount)
        OBVIOUS
      <3> QED
        BY <2>2, <2>3, <3>1, <3>2, Zenon
    <2> QED
      BY <2>4, <2>5 DEF DepositAgrees, RequiresApproval

LEMMA ListsAgree ==
  ASSUME CatalogueTypeOK, NEW v \in Vaults, NEW w, Approvable(v, w)
  PROVE  /\ Home(v) \in ListChains \cap ListAssets
         /\ \A cs \in SUBSET Chains :
               ListVaults(cs) # {} /\ Home(v) \in cs => v \in ListVaults(cs)
  <1>1. Home(v) \in Chains
    BY DEF Approvable, Defined
  <1>2. Home(v) \in ListChains \cap ListAssets
    BY <1>1 DEF Approvable, OnNetwork, Buildable, HasDecimals, ListChains, ListAssets
  <1>3. ASSUME NEW cs \in SUBSET Chains, ListVaults(cs) # {}, Home(v) \in cs
        PROVE  v \in ListVaults(cs)
    <2>1. ListVaults(cs) = Filtered(cs)
      BY <1>3 DEF ListVaults
    <2>2. v \in Filtered(cs)
      BY <1>3 DEF Approvable, Defined, Filtered
    <2> QED
      BY <2>1, <2>2
  <1> QED
    BY <1>2, <1>3

\* assertDepositEnabled, getVault, the lists and the preview: at every moment the
\* endpoints say the same of a vault.
LEMMA EndpointsAgreeAlways ==
  ASSUME CatalogueTypeOK
  PROVE  EndpointsAgree
  <1> SUFFICES ASSUME NEW v \in Vaults, NEW w \in Wallets
               PROVE
        /\ \A amount \in Amounts : \A balance, allowance \in {amount - 1, amount} :
              DepositAgrees(v, w, amount, balance, allowance)
        /\ Verdict(ApproveChecks(v, w)) = "ok" =>
              /\ Home(v) \in ListChains \cap ListAssets
              /\ \A cs \in SUBSET Chains :
                    ListVaults(cs) # {} /\ Home(v) \in cs => v \in ListVaults(cs)
        /\ \A amount \in Amounts, full \in BOOLEAN :
              Verdict(WithdrawChecks(v, w, amount, full)) = "ok" =>
                  Shown(v) /\ (ListPositions # {} => v \in ListPositions)
    BY DEF EndpointsAgree
  <1>1. ASSUME NEW amount \in Amounts, NEW balance \in {amount - 1, amount},
               NEW allowance \in {amount - 1, amount}
        PROVE  DepositAgrees(v, w, amount, balance, allowance)
    <2>1. amount \in Int /\ balance \in Int /\ allowance \in Int
      BY CatalogueAssumption
    <2> QED
      BY <2>1, DepositsAgree
  <1>2. ASSUME Verdict(ApproveChecks(v, w)) = "ok"
        PROVE  /\ Home(v) \in ListChains \cap ListAssets
               /\ \A cs \in SUBSET Chains :
                    ListVaults(cs) # {} /\ Home(v) \in cs => v \in ListVaults(cs)
    BY <1>2, ApproveDemands, ListsAgree
  <1>3. ASSUME NEW amount \in Amounts, NEW full \in BOOLEAN,
               Verdict(WithdrawChecks(v, w, amount, full)) = "ok"
        PROVE  Shown(v) /\ (ListPositions # {} => v \in ListPositions)
    <2>1. /\ position[v].status = "ACTIVE"
          /\ Defined(v, {row[v]}) /\ Buildable(v)
      BY <1>3, WithdrawDemands
    <2>2. Shown(v)
      <3>1. "ok" \notin {"not found", "error"}
        OBVIOUS
      <3> QED
        BY <2>1, <3>1, BuildAndVaultChecks, VerdictOfChecks DEF Shown
    <2>3. v \in Opened
      BY <2>1 DEF Opened
    <2> QED
      BY <2>2, <2>3 DEF ListPositions
  <1> QED
    BY <1>1, <1>2, <1>3

-----------------------------------------------------------------------------
(* What a position says is what the user's wallets hold, up to the drift *)

\* Inductive: the position of a vault counts what the wallets hold of it, but for
\* what the protocol has moved by itself, and a position that is not active counts
\* nothing.
HeldIsCounted(v) ==
  /\ HeldIn(v) <= position[v].shares + drift
  /\ position[v].shares <= HeldIn(v) + drift
  /\ position[v].shares > 0 => position[v].status = "ACTIVE"

CatalogueInv == CatalogueTypeOK /\ \A v \in Vaults : HeldIsCounted(v)

LEMMA HeldIsTotal ==
  ASSUME NEW v
  PROVE  /\ HeldIn(v) = Total([w \in Owned |-> held[w][v]], Owned)
         /\ HeldIn(v)' = Total([w \in Owned |-> held'[w][v]], Owned)
  <1>1. HeldIn(v) = Total([w \in Owned |-> held[w][v]], Owned)
    BY Zenon DEF HeldIn, Total, MapThenSumSet, MapThenFoldSet
  <1>2. HeldIn(v)' = Total([w \in Owned |-> held'[w][v]], Owned)
    BY Zenon DEF HeldIn, Total, MapThenSumSet, MapThenFoldSet
  <1> QED
    BY <1>1, <1>2

LEMMA OwnedIsFinite == IsFiniteSet(Owned) /\ Owned \subseteq Wallets
BY CatalogueAssumption, FS_Subset

\* A wallet of the user holds no more than all of them.
LEMMA HeldIsAtMost ==
  ASSUME CatalogueTypeOK, NEW v \in Vaults, NEW w \in Owned
  PROVE  /\ HeldIn(v) \in Nat /\ held[w][v] \in Nat /\ held[w][v] <= HeldIn(v)
  <1> DEFINE num == [x \in Owned |-> held[x][v]]
  <1>1. IsFiniteSet(Owned) /\ \A x \in Owned : num[x] \in Nat
    BY OwnedIsFinite DEF CatalogueTypeOK
  <1>2. HeldIn(v) = Total(num, Owned) /\ num[w] = held[w][v]
    BY HeldIsTotal
  <1> HIDE DEF num
  <1>3. /\ Total(num, Owned) \in Nat /\ Total(num, Owned \ {w}) \in Nat
        /\ Total(num, Owned) = num[w] + Total(num, Owned \ {w})
    <2>1. Total(num, Owned) \in Nat /\ \A T \in SUBSET Owned : Total(num, T) \in Nat
      BY <1>1, TotalOfNaturals
    <2>2. \A x \in Owned : num[x] \in Int
      BY <1>1
    <2> QED
      BY <1>1, <2>1, <2>2, TotalRemove
  <1> QED
    BY <1>1, <1>2, <1>3

\* One wallet's aTokens of one vault change.
LEMMA HeldChanges ==
  ASSUME CatalogueTypeOK, NEW v \in Vaults, NEW w \in Owned,
         NEW n \in Nat, held' = [held EXCEPT ![w][v] = n]
  PROVE  /\ held' \in [Wallets -> [Vaults -> Nat]]
         /\ HeldIn(v)' = HeldIn(v) + (n - held[w][v])
         /\ \A u \in Vaults \ {v} : HeldIn(u)' = HeldIn(u)
  <1>1. IsFiniteSet(Owned) /\ Owned \subseteq Wallets /\ held \in [Wallets -> [Vaults -> Nat]]
    BY OwnedIsFinite DEF CatalogueTypeOK
  <1>2. held' \in [Wallets -> [Vaults -> Nat]]
    BY <1>1
  <1>3. \A x \in Owned, u \in Vaults :
          held'[x][u] = IF x = w /\ u = v THEN n ELSE held[x][u]
    BY <1>1
  <1>4. HeldIn(v)' = HeldIn(v) + (n - held[w][v])
    <2> DEFINE num == [x \in Owned |-> held[x][v]]
               mun == [x \in Owned |-> held'[x][v]]
    <2>1. /\ \A x \in Owned : num[x] \in Int /\ mun[x] \in Int
          /\ \A x \in Owned \ {w} : mun[x] = num[x]
          /\ num[w] = held[w][v] /\ mun[w] = n
      BY <1>1, <1>2, <1>3
    <2>2. HeldIn(v) = Total(num, Owned) /\ HeldIn(v)' = Total(mun, Owned)
      BY HeldIsTotal
    <2> HIDE DEF num, mun
    <2>3. Total(mun, Owned) = Total(num, Owned) + (mun[w] - num[w])
      BY <1>1, <2>1, TotalUpdate
    <2> QED
      BY <2>1, <2>2, <2>3
  <1>5. ASSUME NEW u \in Vaults \ {v} PROVE HeldIn(u)' = HeldIn(u)
    <2>1. [x \in Owned |-> held[x][u]] = [x \in Owned |-> held'[x][u]]
      BY <1>3
    <2> QED
      BY <2>1, HeldIsTotal
  <1> QED
    BY <1>2, <1>4, <1>5

LEMMA HeldIsNat ==
  ASSUME NEW v \in Vaults
  PROVE  /\ CatalogueTypeOK => HeldIn(v) \in Nat
         /\ CatalogueTypeOK' => HeldIn(v)' \in Nat
  <1>1. ASSUME NEW h \in [Wallets -> [Vaults -> Nat]]
        PROVE  Total([x \in Owned |-> h[x][v]], Owned) \in Nat
    <2> DEFINE num == [x \in Owned |-> h[x][v]]
    <2>1. IsFiniteSet(Owned) /\ \A x \in Owned : num[x] \in Nat
      BY OwnedIsFinite
    <2>2. Owned \in SUBSET Owned
      OBVIOUS
    <2> HIDE DEF num
    <2>3. Total(num, Owned) \in Nat
      BY <2>1, <2>2, TotalOfNaturals
    <2> QED
      BY <2>3 DEF num
  <1> QED
    BY <1>1, HeldIsTotal DEF CatalogueTypeOK

LEMMA CatalogueStarts ==
  ASSUME CatalogueInit
  PROVE  CatalogueInv
  <1>1. CatalogueTypeOK
    <2>1. config \in Config
      BY DEF CatalogueInit, Config, ChainEntry, AssetEntry, VaultEntry
    <2>2. NoPosition \in [status : {"NONE", "ACTIVE", "CLOSED", "FAILED"}, shares : Nat]
      BY DEF NoPosition
    <2> QED
      BY <2>1, <2>2, CatalogueAssumption DEF CatalogueInit, CatalogueTypeOK
  <1>2. ASSUME NEW v \in Vaults PROVE HeldIsCounted(v)
    <2> DEFINE num == [w \in Owned |-> held[w][v]]
    <2>1. IsFiniteSet(Owned) /\ \A w \in Owned : num[w] = 0
      BY OwnedIsFinite DEF CatalogueInit
    <2>2. HeldIn(v) = Total(num, Owned)
      BY HeldIsTotal
    <2> HIDE DEF num
    <2>3. Total(num, Owned) = 0
      <3>1. \A x \in Owned : num[x] \in Int /\ (x # NoChain => num[x] = 0)
        BY <2>1
      <3>2. Total(num, Owned) = IF NoChain \in Owned THEN num[NoChain] ELSE 0
        BY <2>1, <3>1, TotalOfOne
      <3> QED
        BY <2>1, <3>2
    <2>4. position[v].shares = 0 /\ drift = 0
      BY DEF CatalogueInit, NoPosition
    <2> QED
      BY <2>2, <2>3, <2>4 DEF HeldIsCounted
  <1> QED
    BY <1>1, <1>2 DEF CatalogueInv

\* The operator changes the configuration alone.
LEMMA RestartInv ==
  ASSUME CatalogueInv, Restart
  PROVE  CatalogueInv'
  <1>1. config' \in Config
    <2>0. config \in Config
      BY DEF CatalogueInv, CatalogueTypeOK
    <2>1. CASE config' = [config EXCEPT !.mainnet = ~@]
      <3>1. (~config.mainnet) \in BOOLEAN
        BY <2>0 DEF Config
      <3> QED
        BY <2>0, <2>1, <3>1 DEF Config
    <2>2. ASSUME NEW c \in Chains, NEW entry \in ChainEntry,
                 config' = [config EXCEPT !.chain[c] = entry]
          PROVE  config' \in Config
      <3>1. [config.chain EXCEPT ![c] = entry] \in [Chains -> ChainEntry]
        BY <2>0 DEF Config
      <3> QED
        BY <2>0, <2>2, <3>1 DEF Config
    <2>3. ASSUME NEW c \in Chains, config' = [config EXCEPT !.asset[c] = ~@]
          PROVE  config' \in Config
      <3>1. (~config.asset[c]) \in AssetEntry
        BY <2>0 DEF Config, AssetEntry
      <3>2. [config.asset EXCEPT ![c] = ~config.asset[c]] \in [Chains -> AssetEntry]
        BY <2>0, <3>1 DEF Config
      <3> QED
        BY <2>0, <2>3, <3>2 DEF Config
    <2>4. ASSUME NEW v \in Vaults, NEW entry \in VaultEntry,
                 config' = [config EXCEPT !.vault[v] = entry]
          PROVE  config' \in Config
      <3>1. [config.vault EXCEPT ![v] = entry] \in [Vaults -> VaultEntry]
        BY <2>0 DEF Config
      <3> QED
        BY <2>0, <2>4, <3>1 DEF Config
    <2> QED
      BY <2>1, <2>2, <2>3, <2>4 DEF Restart
  <1>2. CatalogueTypeOK'
    BY <1>1, CatalogueAssumption DEF CatalogueInv, CatalogueTypeOK, Restart
  <1>3. ASSUME NEW v \in Vaults PROVE HeldIsCounted(v)'
    <2>1. held' = held /\ position' = position /\ drift' = drift
      BY DEF Restart
    <2>2. HeldIn(v)' = HeldIn(v)
      BY <2>1, HeldIsTotal
    <2> QED
      BY <2>1, <2>2 DEF CatalogueInv, HeldIsCounted
  <1> QED
    BY <1>2, <1>3 DEF CatalogueInv

\* A deposit that is mined is counted as it is held.
LEMMA DepositInv ==
  ASSUME CatalogueInv, NEW v \in Vaults, NEW w \in Wallets,
         NEW amount \in Amounts, NEW success \in BOOLEAN,
         DepositVault(v, w, amount, success)
  PROVE  CatalogueInv'
  <1>0. CatalogueTypeOK /\ amount \in Nat \ {0} /\ position[v].shares \in Nat
    BY CatalogueAssumption DEF CatalogueInv, CatalogueTypeOK
  <1>1. w \in Owned /\ Home(v) \in Chains
    <2>1. amount \in Int
      BY <1>0
    <2>2. Verdict(DepositChecks(v, w, amount, amount, amount)) = "ok"
      BY DEF DepositVault
    <2>3. Approvable(v, w)
      BY <2>1, <2>2, DepositDemands
    <2> QED
      BY <2>3 DEF Approvable, FitsWallet, Defined
  <1>2. /\ row' \in [Vaults -> Chains \cup {NoChain}]
        /\ requests' \in 0..MaxRequests /\ config' = config /\ restarts' = restarts
        /\ drift' = drift /\ drift \in Nat
    BY <1>0, <1>1, CatalogueAssumption DEF DepositVault, FindOrCreate, CatalogueTypeOK
  <1>3. position' = [position EXCEPT ![v] = Deposited(position[v], amount, success)]
    BY DEF DepositVault
  <1>4. /\ Deposited(position[v], amount, success)
             \in [status : {"NONE", "ACTIVE", "CLOSED", "FAILED"}, shares : Nat]
        /\ Deposited(position[v], amount, success).shares =
             IF success THEN position[v].shares + amount ELSE position[v].shares
        /\ success => Deposited(position[v], amount, success).status = "ACTIVE"
        /\ position[v].status = "ACTIVE" =>
             Deposited(position[v], amount, success).status = "ACTIVE"
    BY <1>0 DEF Deposited, CatalogueTypeOK
  <1>5. position' \in [Vaults -> [status : {"NONE", "ACTIVE", "CLOSED", "FAILED"}, shares : Nat]]
    BY <1>0, <1>3, <1>4 DEF CatalogueTypeOK
  <1>6. /\ position'[v] = Deposited(position[v], amount, success)
        /\ \A u \in Vaults \ {v} : position'[u] = position[u]
    BY <1>0, <1>3 DEF CatalogueTypeOK
  <1>7. CASE success
    <2>1. held' = [held EXCEPT ![w][v] = held[w][v] + amount]
      BY <1>7 DEF DepositVault
    <2>2. held[w][v] + amount \in Nat /\ held[w][v] \in Nat /\ HeldIn(v) \in Nat
      BY <1>0, <1>1, HeldIsAtMost
    <2>3. /\ held' \in [Wallets -> [Vaults -> Nat]]
          /\ HeldIn(v)' = HeldIn(v) + ((held[w][v] + amount) - held[w][v])
          /\ \A u \in Vaults \ {v} : HeldIn(u)' = HeldIn(u)
      BY <1>0, <1>1, <2>1, <2>2, HeldChanges
    <2>4. HeldIn(v)' = HeldIn(v) + amount
      BY <1>0, <2>2, <2>3
    <2>5. HeldIsCounted(v)'
      <3>1. /\ HeldIn(v) <= position[v].shares + drift
            /\ position[v].shares <= HeldIn(v) + drift
        BY DEF CatalogueInv, HeldIsCounted
      <3>2. /\ position'[v].shares = position[v].shares + amount
            /\ position'[v].status = "ACTIVE"
        BY <1>4, <1>6, <1>7
      <3>3. /\ HeldIn(v)' <= position'[v].shares + drift'
            /\ position'[v].shares <= HeldIn(v)' + drift'
        BY <1>0, <1>2, <2>2, <2>4, <3>1, <3>2
      <3> QED
        BY <3>2, <3>3 DEF HeldIsCounted
    <2>6. \A u \in Vaults \ {v} : HeldIsCounted(u)'
      BY <1>2, <1>6, <2>3 DEF CatalogueInv, HeldIsCounted
    <2> QED
      BY <1>0, <1>2, <1>5, <2>3, <2>5, <2>6 DEF CatalogueInv, CatalogueTypeOK
  <1>8. CASE ~success
    <2>1. held' = held
      BY <1>8 DEF DepositVault
    <2>2. \A u \in Vaults : HeldIn(u)' = HeldIn(u)
      BY <2>1, HeldIsTotal
    <2>3. \A u \in Vaults : HeldIsCounted(u)'
      BY <1>2, <1>4, <1>6, <1>8, <2>2 DEF CatalogueInv, HeldIsCounted
    <2> QED
      BY <1>0, <1>2, <1>5, <2>1, <2>3 DEF CatalogueInv, CatalogueTypeOK
  <1> QED
    BY <1>7, <1>8

\* A withdrawal takes from the wallet what it takes from the position.  A full
\* one is let through only for a wallet that holds at least that, and takes what
\* the wallet holds more, which was part of the drift.
LEMMA WithdrawInv ==
  ASSUME CatalogueInv, NEW v \in Vaults, NEW w \in Wallets,
         NEW amount \in Amounts, NEW full \in BOOLEAN,
         WithdrawPosition(v, w, amount, full)
  PROVE  CatalogueInv'
  <1> DEFINE out == WithdrawAmount(v, amount, full)
  <1>0. CatalogueTypeOK /\ amount \in Nat \ {0} /\ position[v].shares \in Nat
    BY CatalogueAssumption DEF CatalogueInv, CatalogueTypeOK
  <1>1. /\ w \in Owned
        /\ ~(out > position[v].shares) /\ ~(out > held[w][v])
    <2>1. Verdict(WithdrawChecks(v, w, amount, full)) = "ok"
      BY DEF WithdrawPosition
    <2>2. /\ FitsWallet(v, w)
          /\ ~(out > position[v].shares) /\ ~(out > held[w][v])
      BY ONLY <2>1, WithdrawDemands
    <2> QED
      BY <2>2 DEF FitsWallet
  <1>2. out \in Nat /\ out = IF full THEN position[v].shares ELSE amount
    BY <1>0 DEF WithdrawAmount
  <1>3. /\ held[w][v] \in Nat /\ held[w][v] <= HeldIn(v) /\ HeldIn(v) \in Nat
        /\ HeldIn(v) <= position[v].shares + drift
        /\ position[v].shares <= HeldIn(v) + drift
    BY <1>0, <1>1, HeldIsAtMost DEF CatalogueInv, HeldIsCounted
  <1>4. /\ position' = [position EXCEPT ![v] = Withdrawn(position[v], out)]
        /\ held' = [held EXCEPT ![w][v] = IF full THEN 0 ELSE held[w][v] - amount]
        /\ row' = row /\ config' = config /\ restarts' = restarts
        /\ requests' \in 0..MaxRequests /\ drift' = drift /\ drift \in Nat
    BY <1>0, CatalogueAssumption DEF WithdrawPosition, CatalogueTypeOK
  <1> HIDE DEF out
  <1>5. PICK left \in Nat : /\ left = IF full THEN 0 ELSE held[w][v] - amount
                            /\ left <= held[w][v] - out
                            /\ full \/ left = held[w][v] - out
    BY <1>0, <1>1, <1>2, <1>3
  <1>6. held' = [held EXCEPT ![w][v] = left]
    BY <1>4, <1>5
  <1>7. /\ held' \in [Wallets -> [Vaults -> Nat]]
        /\ HeldIn(v)' = HeldIn(v) + (left - held[w][v])
        /\ \A u \in Vaults \ {v} : HeldIn(u)' = HeldIn(u)
    BY <1>0, <1>1, <1>5, <1>6, HeldChanges
  <1>8. Withdrawn(position[v], out) =
          [status |-> IF position[v].shares = out THEN "CLOSED" ELSE "ACTIVE",
           shares |-> position[v].shares - out]
    BY DEF Withdrawn
  <1>9. position[v].shares - out \in Nat
    BY <1>0, <1>1, <1>2
  <1>10. /\ position'
                  \in [Vaults -> [status : {"NONE", "ACTIVE", "CLOSED", "FAILED"}, shares : Nat]]
         /\ position'[v].shares = position[v].shares - out
         /\ position'[v].status = IF position[v].shares = out THEN "CLOSED" ELSE "ACTIVE"
         /\ \A u \in Vaults \ {v} : position'[u] = position[u]
    BY <1>0, <1>4, <1>8, <1>9 DEF CatalogueTypeOK
  <1>11. HeldIsCounted(v)'
    <2>1. /\ HeldIn(v)' <= position'[v].shares + drift'
          /\ position'[v].shares <= HeldIn(v)' + drift'
      <3>1. CASE full
        <4>1. out = position[v].shares /\ left = 0
          BY <1>2, <1>5, <3>1
        <4> QED
          BY <1>0, <1>1, <1>2, <1>3, <1>4, <1>7, <1>10, <4>1
      <3>2. CASE left = held[w][v] - out
        BY <1>0, <1>2, <1>3, <1>4, <1>7, <1>10, <3>2
      <3> QED
        BY <1>5, <3>1, <3>2
    <2>2. position'[v].shares > 0 => position'[v].status = "ACTIVE"
      BY <1>0, <1>2, <1>10
    <2> QED
      BY <2>1, <2>2 DEF HeldIsCounted
  <1>12. \A u \in Vaults \ {v} : HeldIsCounted(u)'
    BY <1>4, <1>7, <1>10 DEF CatalogueInv, HeldIsCounted
  <1> QED
    BY <1>0, <1>4, <1>7, <1>10, <1>11, <1>12 DEF CatalogueInv, CatalogueTypeOK

\* A balance the protocol moves by a unit has drifted by no more.
LEMMA DriftInv ==
  ASSUME CatalogueInv, NEW v \in Vaults, NEW w \in Wallets, BalanceDrifts(v, w)
  PROVE  CatalogueInv'
  <1>0. CatalogueTypeOK /\ drift \in Nat /\ held[w][v] \in Nat
    BY DEF CatalogueInv, CatalogueTypeOK
  <1>1. /\ UNCHANGED <<config, row, position, restarts, requests>>
        /\ drift' = drift + 1 /\ drift' \in 0..MaxDrift
    BY <1>0, CatalogueAssumption DEF BalanceDrifts, CatalogueTypeOK
  <1>2. PICK n \in Nat : /\ held' = [held EXCEPT ![w][v] = n]
                         /\ n <= held[w][v] + 1 /\ held[w][v] <= n + 1
    BY <1>0 DEF BalanceDrifts
  <1>3. /\ held' \in [Wallets -> [Vaults -> Nat]]
        /\ \A u \in Vaults : /\ HeldIn(u)' <= HeldIn(u) + 1 /\ HeldIn(u) <= HeldIn(u)' + 1
                             /\ HeldIn(u) \in Nat /\ HeldIn(u)' \in Nat
    <2>1. held' \in [Wallets -> [Vaults -> Nat]]
      BY <1>0, <1>2 DEF CatalogueTypeOK
    <2>2. CatalogueTypeOK'
      BY <1>0, <1>1, <2>1 DEF CatalogueTypeOK
    <2>3. \A u \in Vaults : HeldIn(u) \in Nat /\ HeldIn(u)' \in Nat
      BY <1>0, <2>2, HeldIsNat
    <2>4. CASE w \in Owned
      <3>1. /\ HeldIn(v)' = HeldIn(v) + (n - held[w][v])
            /\ \A u \in Vaults \ {v} : HeldIn(u)' = HeldIn(u)
        BY <1>0, <1>2, <2>4, HeldChanges
      <3>2. HeldIn(v)' <= HeldIn(v) + 1 /\ HeldIn(v) <= HeldIn(v)' + 1
        BY <1>0, <1>2, <2>3, <3>1
      <3> QED
        BY <2>1, <2>3, <3>1, <3>2
    <2>5. CASE w \notin Owned
      <3>1. \A x \in Owned : held'[x] = held[x]
        BY <1>0, <1>2, <2>5, OwnedIsFinite DEF CatalogueTypeOK
      <3>2. ASSUME NEW u \in Vaults PROVE HeldIn(u)' = HeldIn(u)
        <4>1. [x \in Owned |-> held[x][u]] = [x \in Owned |-> held'[x][u]]
          BY <3>1
        <4> QED
          BY <4>1, HeldIsTotal
      <3> QED
        BY <2>1, <2>3, <3>2
    <2> QED
      BY <2>4, <2>5
  <1>4. ASSUME NEW u \in Vaults PROVE HeldIsCounted(u)'
    <2>1. /\ HeldIn(u) <= position[u].shares + drift /\ position[u].shares <= HeldIn(u) + drift
          /\ position[u].shares \in Nat
      BY <1>0 DEF CatalogueInv, HeldIsCounted, CatalogueTypeOK
    <2>2. position' = position
      BY <1>1
    <2>3. /\ HeldIn(u)' <= HeldIn(u) + 1 /\ HeldIn(u) <= HeldIn(u)' + 1
          /\ HeldIn(u) \in Nat /\ HeldIn(u)' \in Nat
      BY <1>3
    <2>4. /\ HeldIn(u)' <= position[u].shares + drift'
          /\ position[u].shares <= HeldIn(u)' + drift'
      BY <1>0, <1>1, <2>1, <2>3
    <2> QED
      BY <2>2, <2>4 DEF CatalogueInv, HeldIsCounted
  <1> QED
    BY <1>0, <1>1, <1>3, <1>4 DEF CatalogueInv, CatalogueTypeOK

LEMMA CatalogueStep ==
  ASSUME CatalogueInv, [CatalogueNext]_catalogueVars
  PROVE  CatalogueInv'
  <1>1. CASE Restart
    BY <1>1, RestartInv
  <1>2. ASSUME NEW v \in Vaults, NEW w \in Wallets, NEW amount \in Amounts, NEW yes \in BOOLEAN,
               DepositVault(v, w, amount, yes)
        PROVE  CatalogueInv'
    BY <1>2, DepositInv
  <1>3. ASSUME NEW v \in Vaults, NEW w \in Wallets, NEW amount \in Amounts, NEW yes \in BOOLEAN,
               WithdrawPosition(v, w, amount, yes)
        PROVE  CatalogueInv'
    BY <1>3, WithdrawInv
  <1>4. ASSUME NEW v \in Vaults, NEW w \in Wallets, BalanceDrifts(v, w)
        PROVE  CatalogueInv'
    BY <1>4, DriftInv
  <1>5. CASE UNCHANGED catalogueVars
    <2>1. /\ config' = config /\ row' = row /\ position' = position /\ held' = held
          /\ drift' = drift /\ restarts' = restarts /\ requests' = requests
      BY <1>5 DEF catalogueVars
    <2>2. \A v : HeldIn(v)' = HeldIn(v)
      BY <2>1, HeldIsTotal
    <2>3. \A v \in Vaults : HeldIsCounted(v)'
      BY <2>1, <2>2 DEF CatalogueInv, HeldIsCounted
    <2>4. CatalogueTypeOK'
      BY <2>1 DEF CatalogueInv, CatalogueTypeOK
    <2> QED
      BY <2>3, <2>4 DEF CatalogueInv
  <1> QED
    BY <1>1, <1>2, <1>3, <1>4, <1>5 DEF CatalogueNext

\* What is held can be withdrawn.
LEMMA HeldCanLeave ==
  ASSUME CatalogueInv
  PROVE  MoneyInCanLeave
  <1>1. \A v \in Vaults : HeldIsCounted(v) /\ position[v].shares \in Nat
    BY DEF CatalogueInv, CatalogueTypeOK
  <1>2. ASSUME NEW v \in Vaults, NEW w \in Wallets, config.vault[v].withdrawals,
               Verdict(ApproveChecks(v, w)) = "ok", row[v] = Home(v), position[v].shares > 0
        PROVE  /\ \A amount \in 1 .. position[v].shares :
                     amount <= held[w][v] => Verdict(WithdrawChecks(v, w, amount, FALSE)) = "ok"
               /\ Verdict(WithdrawChecks(v, w, 0, TRUE)) = "ok" <=> held[w][v] >= position[v].shares
    <2>1. Approvable(v, w)
      BY <1>2, ApproveDemands
    <2>2. /\ Defined(v, {row[v]}) /\ Buildable(v) /\ OnNetwork(v) /\ FitsWallet(v, w)
      BY <1>2, <2>1 DEF Approvable, Defined
    <2>3. position[v].status = "ACTIVE" /\ position[v].shares \in Nat /\ held[w][v] \in Nat
      BY <1>1, <1>2 DEF HeldIsCounted, CatalogueInv, CatalogueTypeOK
    <2>4. ASSUME NEW amount \in 1 .. position[v].shares, amount <= held[w][v]
          PROVE  Verdict(WithdrawChecks(v, w, amount, FALSE)) = "ok"
      <3>1. WithdrawAmount(v, amount, FALSE) = amount
        BY DEF WithdrawAmount
      <3>2. ~(amount > position[v].shares) /\ ~(amount > held[w][v])
        BY <2>3, <2>4
      <3>3. /\ ~(WithdrawAmount(v, amount, FALSE) > position[v].shares)
            /\ ~(WithdrawAmount(v, amount, FALSE) > held[w][v])
        BY <3>1, <3>2, Zenon
      <3> QED
        BY <1>2, <2>2, <2>3, <3>3, WithdrawDemands
    <2>5. Verdict(WithdrawChecks(v, w, 0, TRUE)) = "ok" <=> held[w][v] >= position[v].shares
      <3>1. WithdrawAmount(v, 0, TRUE) = position[v].shares
        BY DEF WithdrawAmount
      <3>2. /\ ~(position[v].shares > position[v].shares)
            /\ ~(position[v].shares > held[w][v]) <=> held[w][v] >= position[v].shares
        BY <2>3
      <3>3. /\ ~(WithdrawAmount(v, 0, TRUE) > position[v].shares)
            /\ ~(WithdrawAmount(v, 0, TRUE) > held[w][v]) <=> held[w][v] >= position[v].shares
        BY <3>1, <3>2, Zenon
      <3> QED
        BY <1>2, <2>2, <2>3, <3>3, WithdrawDemands
    <2> QED
      BY <2>4, <2>5
  <1>3. ASSUME NEW v \in Vaults, NEW w \in Wallets, config.vault[v].withdrawals,
               Verdict(ApproveChecks(v, w)) = "ok", row[v] = Home(v)
        PROVE  /\ \A amount \in 1 .. position[v].shares :
                     amount <= held[w][v] => Verdict(WithdrawChecks(v, w, amount, FALSE)) = "ok"
               /\ position[v].shares > 0 =>
                     (Verdict(WithdrawChecks(v, w, 0, TRUE)) = "ok"
                        <=> held[w][v] >= position[v].shares)
    <2>1. CASE position[v].shares > 0
      BY <1>2, <1>3, <2>1
    <2>2. CASE ~(position[v].shares > 0)
      <3>1. 1 .. position[v].shares = {}
        BY <1>1, <2>2
      <3> QED
        BY <2>2, <3>1
    <2> QED
      BY <2>1, <2>2
  <1> QED
    BY <1>1, <1>3 DEF HeldIsCounted, MoneyInCanLeave

\* depositVault and withdrawPosition, for every set of vaults, chains and
\* wallets, whatever the operator changes between two requests and however often
\* the protocol moves a balance: the money that came in through a vault can leave
\* through it, at once from a wallet that holds at least what the position says.
THEOREM CatalogueMoneyInCanLeave ==
  CatalogueSpec => []MoneyInCanLeave
  <1>1. CatalogueInit => CatalogueInv
    BY CatalogueStarts
  <1>2. CatalogueInv /\ [CatalogueNext]_catalogueVars => CatalogueInv'
    BY CatalogueStep
  <1>3. CatalogueInv => MoneyInCanLeave
    BY HeldCanLeave
  <1> QED
    BY <1>1, <1>2, <1>3, PTL DEF CatalogueSpec

\* The lists, the preview, approveVault, depositVault and withdrawPosition say
\* the same of a vault at every moment.
THEOREM CatalogueEndpointsAgree ==
  CatalogueSpec => []EndpointsAgree
  <1>1. CatalogueInit => CatalogueInv
    BY CatalogueStarts
  <1>2. CatalogueInv /\ [CatalogueNext]_catalogueVars => CatalogueInv'
    BY CatalogueStep
  <1>3. CatalogueInv => EndpointsAgree
    BY EndpointsAgreeAlways DEF CatalogueInv
  <1> QED
    BY <1>1, <1>2, <1>3, PTL DEF CatalogueSpec
=============================================================================
