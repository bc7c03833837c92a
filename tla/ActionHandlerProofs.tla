------------------------- MODULE ActionHandlerProofs -------------------------
(***************************************************************************)
(* Proofs about ActionHandler for any sets of assets, users, keys, traces  *)
(* and requests, overlapping or not.  The invariants of the runs follow    *)
(* from IInv, which adds to them what a request that is about to persist   *)
(* knows, what a record of idempotency_records refers to, and that a       *)
(* request without a record of its key came in before the record.          *)
(***************************************************************************)
EXTENDS ActionHandler, TLAPS

-----------------------------------------------------------------------------
(***************************************************************************)
(* Facts about the operators the handler is built from.                    *)
(***************************************************************************)

(***************************************************************************)
(* What next_state_for_action allows is what the state tables of           *)
(* docs/foundation/state-machine.md list.                                  *)
(***************************************************************************)
LEMMA NextStateIsLegal ==
    ASSUME NEW current \in AssetState, NEW action \in AssetAction,
           NEW previous \in OptState, NEW target \in AssetState,
           NextState(current, action, previous, target)
    PROVE  LegalStep(current, target)
<1> USE DEF AssetState, LiveStates, PreSaleStates, SoldStates, TerminalStates, Frozen
<1>1. CASE <<current, action, target>> \in BusinessTransitions
  <2>1. CASE \E i \in 1..7 : current = BusinessPath[i] /\ target = BusinessPath[i + 1]
    BY <2>1 DEF LegalStep
  <2>2. CASE ~\E i \in 1..7 : current = BusinessPath[i] /\ target = BusinessPath[i + 1]
    <3>1. 1 \in 1..7 /\ 2 \in 1..7 /\ 3 \in 1..7 /\ 4 \in 1..7 /\ 5 \in 1..7 /\ 6 \in 1..7
          /\ 7 \in 1..7
      OBVIOUS
    <3>2. /\ BusinessPath[1] = "PreMinted" /\ BusinessPath[1 + 1] = "FactoryLogged"
          /\ BusinessPath[2] = "FactoryLogged" /\ BusinessPath[2 + 1] = "Unassigned"
          /\ BusinessPath[3] = "Unassigned" /\ BusinessPath[3 + 1] = "RotatingKeys"
          /\ BusinessPath[4] = "RotatingKeys" /\ BusinessPath[4 + 1] = "EntangledPending"
          /\ BusinessPath[5] = "EntangledPending" /\ BusinessPath[5 + 1] = "Activated"
          /\ BusinessPath[6] = "Activated" /\ BusinessPath[6 + 1] = "LegallySold"
          /\ BusinessPath[7] = "LegallySold" /\ BusinessPath[7 + 1] = "Transferred"
      BY DEF BusinessPath
    <3> QED
      BY <1>1, <2>2, <3>1, <3>2 DEF BusinessTransitions, LegalStep
  <2> QED
    BY <2>1, <2>2
<1>2. CASE <<current, action, target>> \notin BusinessTransitions
  BY <1>2 DEF NextState, LegalStep, Verdicts
<1> QED
  BY <1>1, <1>2

(***************************************************************************)
(* apply_action accepts only what the state table has a target for, and a  *)
(* sale only with a buyer.                                                 *)
(***************************************************************************)
LEMMA ApplyOk ==
    ASSUME NEW rec, NEW action, NEW context, ApplyStatus(rec, action, context) = "Ok"
    PROVE  /\ rec.current \notin TerminalStates
           /\ ~(rec.current = Frozen /\ action \in BusinessActions)
           /\ action = "LegalSell" => context.buyer # None
           /\ \E target \in AssetState :
                 NextState(rec.current, action, rec.previous, target)
  BY DEF ApplyStatus

\* InsertIdempotency keeps every record and adds at most the one of its key.
LEMMA IdempotencyGrows ==
    ASSUME NEW k, NEW hash, NEW n, InsertIdempotency(k, hash, n)
    PROVE  /\ idempotency \subseteq idempotency'
           /\ \A rec \in idempotency' :
                 \/ rec \in idempotency
                 \/ /\ RecordsOf(k) = {}
                    /\ rec = [key |-> k, hash |-> hash, event |-> n]
           /\ \E rec \in idempotency' : rec.key = k
<1>1. CASE RecordsOf(k) # {}
  <2>1. idempotency' = idempotency
    BY <1>1 DEF InsertIdempotency
  <2> QED
    BY <1>1, <2>1 DEF RecordsOf
<1>2. CASE RecordsOf(k) = {}
  <2> DEFINE new == [key |-> k, hash |-> hash, event |-> n]
  <2>1. idempotency' = idempotency \cup {new}
    BY <1>2 DEF InsertIdempotency
  <2>2. new \in idempotency' /\ new.key = k
    BY <2>1
  <2> QED
    BY <1>2, <2>1, <2>2
<1> QED
  BY <1>1, <1>2

-----------------------------------------------------------------------------
(***************************************************************************)
(* The inductive invariant.                                                *)
(***************************************************************************)

\* The rows the model starts from are sound.
OriginSound == \A a \in Asset : SoundRow(origin[a])

\* What a request knows when it is about to persist: apply_action accepted a
\* state that was committed before.
PersistingKnows ==
    \A r \in Request : pc[r] = "persist" =>
        LET a == input[r].asset IN
        /\ read[r].at <= Len(events[a])
        /\ read[r].current = StateAt(a, read[r].at)
        /\ ApplyStatus(read[r], input[r].action, input[r]) = "Ok"

\* A request that came in after its key was recorded finds the record, and one
\* that is past the lookup came in before.
StaleMeetsRecord ==
    \A r \in Request :
        /\ pc[r] = "load" /\ ~fresh[r] => RecordsOf(input[r].key) # {}
        /\ pc[r] \in {"fetch", "persist"} => fresh[r]

\* The request that wrote an event is done with it, and a record of the event's
\* key exists.
EventsSettled ==
    \A a \in Asset : \A i \in DOMAIN events[a] :
        /\ pc[events[a][i].by] = "done"
        /\ \E rec \in idempotency : rec.key = events[a][i].key

\* A record of idempotency_records stands for the first event of its key.
RecordsPointToEvents ==
    \A rec \in idempotency :
        LET log == events[rec.hash.asset] IN
        /\ rec.event \in DOMAIN log
        /\ log[rec.event].key = rec.key
        /\ log[rec.event].action = rec.hash.action
        /\ \A m \in 1..(rec.event - 1) : log[m].key # rec.key

\* Only a finished request has an answer.
AnsweredIsDone == \A r \in Request : answer[r].status = "Ok" => pc[r] = "done"

IInv ==
    /\ TypeOK
    /\ OriginSound
    /\ PersistingKnows
    /\ StaleMeetsRecord
    /\ EventsSettled
    /\ RecordsPointToEvents
    /\ AnsweredIsDone
    /\ AuditExplainsSteps
    /\ RowMatchesAudit
    /\ RetryNeverReexecutes
    /\ AnswersAreTrue

-----------------------------------------------------------------------------
(***************************************************************************)
(* The initial states satisfy the invariant.                               *)
(***************************************************************************)
LEMMA InitIInv == Init => IInv
<1> SUFFICES ASSUME Init PROVE IInv
  OBVIOUS
<1>1. NoInput \in AllInputs
  BY InputsAssumption DEF NoInput
<1>2. NoRead \in Reads /\ NoAnswer \in Answers
  BY DEF NoRead, Reads, NoAnswer, Answers, Status, OptState, AssetState, LiveStates,
         PreSaleStates
<1>3. StoreTypeOK
  BY DEF Init, StoreInit, StoreTypeOK
<1>4. TypeOK
  BY <1>1, <1>2, <1>3 DEF Init, TypeOK, Stage
<1>5. \A a \in Asset : events[a] = << >> /\ Len(events[a]) = 0 /\ DOMAIN events[a] = {}
  BY DEF Init, StoreInit
<1>6. OriginSound /\ RowMatchesAudit
  BY <1>5 DEF Init, StoreInit, OriginSound, RowMatchesAudit
<1>7. PersistingKnows /\ StaleMeetsRecord /\ AnsweredIsDone /\ AnswersAreTrue
  BY DEF Init, PersistingKnows, StaleMeetsRecord, AnsweredIsDone, AnswersAreTrue, NoAnswer
<1>8. RecordsPointToEvents
  BY DEF Init, StoreInit, RecordsPointToEvents
<1>9. EventsSettled /\ AuditExplainsSteps /\ RetryNeverReexecutes
  BY <1>5 DEF EventsSettled, AuditExplainsSteps, RetryNeverReexecutes
<1> QED
  BY <1>4, <1>6, <1>7, <1>8, <1>9 DEF IInv

-----------------------------------------------------------------------------
(***************************************************************************)
(* Steps that do not write to the database.  They keep what is said of the *)
(* tables alone.                                                           *)
(***************************************************************************)
LEMMA TablesKept ==
    ASSUME IInv, UNCHANGED storeVars
    PROVE  StoreTypeOK' /\ OriginSound' /\ RecordsPointToEvents' /\ AuditExplainsSteps'
           /\ RowMatchesAudit'
<1> USE DEF storeVars
<1>1. StoreTypeOK'
  BY DEF IInv, TypeOK, StoreTypeOK
<1>2. OriginSound' /\ RecordsPointToEvents'
  BY DEF IInv, OriginSound, RecordsPointToEvents
<1>3. AuditExplainsSteps'
  BY DEF IInv, AuditExplainsSteps, StateAt
<1>4. RowMatchesAudit'
  BY DEF IInv, RowMatchesAudit
<1> QED
  BY <1>1, <1>2, <1>3, <1>4

(***************************************************************************)
(* The events of the log are typed.                                        *)
(***************************************************************************)
LEMMA EventType ==
    ASSUME TypeOK, NEW a \in Asset, NEW j \in DOMAIN events[a]
    PROVE  /\ events[a] \in Seq(Events)
           /\ j \in 1..Len(events[a])
           /\ events[a][j] \in Events
           /\ events[a][j].by \in Request
<1>1. events[a] \in Seq(Events)
  BY DEF TypeOK, StoreTypeOK
<1>2. j \in 1..Len(events[a]) /\ events[a][j] \in Events
  BY <1>1
<1> QED
  BY <1>1, <1>2 DEF Events

(***************************************************************************)
(* A request that was not done and whose answer this step may set.         *)
(***************************************************************************)
LEMMA AnswerType ==
    ASSUME TypeOK, NEW r \in Request, NEW status \in Status, NEW n \in Nat,
           Answer(r, status, n)
    PROVE  /\ pc' \in [Request -> Stage] /\ answer' \in [Request -> Answers]
           /\ pc'[r] = "done" /\ answer'[r].status = status /\ answer'[r].event = n
           /\ \A q \in Request \ {r} : pc'[q] = pc[q] /\ answer'[q] = answer[q]
  BY DEF TypeOK, Answer, Stage, Answers

LEMMA ReceiveIInv ==
    ASSUME IInv, NEW r \in Request, NEW i \in Inputs, Receive(r, i)
    PROVE  IInv'
<1> USE DEF IInv
<1>1. UNCHANGED storeVars /\ UNCHANGED read
  BY DEF Receive
<1>2. i \in AllInputs
  BY InputsAssumption
<1>3. /\ input' = [input EXCEPT ![r] = i] /\ input' \in [Request -> AllInputs]
      /\ fresh' = [fresh EXCEPT ![r] = RecordsOf(i.key) = {}]
      /\ fresh' \in [Request -> BOOLEAN]
      /\ pc[r] = "idle"
  BY <1>2 DEF Receive, TypeOK
<1>4. /\ pc' \in [Request -> Stage] /\ answer' \in [Request -> Answers]
      /\ \/ pc'[r] = "load" /\ answer' = answer
         \/ pc'[r] = "done" /\ answer'[r].status = "InvalidInput"
      /\ \A q \in Request \ {r} : pc'[q] = pc[q] /\ answer'[q] = answer[q]
  <2>1. CASE Answer(r, "InvalidInput", 0)
    BY <2>1, AnswerType DEF Status
  <2>2. CASE pc' = [pc EXCEPT ![r] = "load"] /\ UNCHANGED answer
    BY <2>2 DEF TypeOK, Stage
  <2> QED
    BY <2>1, <2>2 DEF Receive
<1>5. TypeOK'
  BY <1>1, <1>3, <1>4, TablesKept DEF TypeOK
<1>6. PersistingKnows'
  BY <1>1, <1>3, <1>4 DEF PersistingKnows, TypeOK, storeVars, StateAt
<1>7. StaleMeetsRecord'
  <2> SUFFICES ASSUME NEW q \in Request
               PROVE  /\ pc'[q] = "load" /\ ~fresh'[q] => RecordsOf(input[q].key)' # {}
                      /\ pc'[q] \in {"fetch", "persist"} => fresh'[q]
    BY DEF StaleMeetsRecord
  <2>1. \A k : RecordsOf(k)' = RecordsOf(k)
    BY <1>1 DEF storeVars, RecordsOf
  <2>2. CASE q = r
    <3>1. input'[r].key = i.key /\ (fresh'[r] <=> RecordsOf(i.key) = {})
      BY <1>3 DEF TypeOK
    <3> QED
      BY <1>1, <1>4, <2>2, <3>1 DEF storeVars, RecordsOf
  <2>3. CASE q # r
    BY <1>1, <1>3, <1>4, <2>3 DEF StaleMeetsRecord, TypeOK, storeVars, RecordsOf
  <2> QED
    BY <2>2, <2>3
<1>8. \A a \in Asset : \A j \in DOMAIN events[a] : events[a][j].by \in Request \ {r}
  BY <1>3, EventType DEF EventsSettled
<1>9. EventsSettled' /\ RetryNeverReexecutes'
  BY <1>1, <1>3, <1>4, <1>8 DEF EventsSettled, RetryNeverReexecutes, TypeOK, storeVars
<1>10. AnsweredIsDone'
  BY <1>3, <1>4 DEF AnsweredIsDone
<1>11. AnswersAreTrue'
  <2>1. answer'[r].status # "Ok"
    <3>1. answer[r].status # "Ok"
      BY <1>3 DEF AnsweredIsDone
    <3> QED
      BY <1>4, <3>1
  <2>2. \A q \in Request \ {r} : answer'[q] = answer[q] /\ input'[q] = input[q]
    BY <1>3, <1>4 DEF TypeOK
  <2>3. events' = events
    BY <1>1 DEF storeVars
  <2> SUFFICES ASSUME NEW q \in Request, answer'[q].status = "Ok"
               PROVE  AnswerIsTrue(q)'
    BY DEF AnswersAreTrue
  <2>4. q # r
    BY <2>1
  <2>5. AnswerIsTrue(q)
    BY <2>2, <2>4 DEF AnswersAreTrue
  <2> QED
    BY <2>2, <2>3, <2>4, <2>5 DEF AnswerIsTrue
<1> QED
  BY <1>1, <1>5, <1>6, <1>7, <1>9, <1>10, <1>11, TablesKept

LEMMA LoadIInv ==
    ASSUME IInv, NEW r \in Request, LoadMiss(r) \/ LoadHit(r)
    PROVE  IInv'
<1> USE DEF IInv
<1> "Ok" \in Status /\ "IdempotencyConflict" \in Status
  BY DEF Status
<1>1. UNCHANGED <<storeVars, input, read, fresh>> /\ pc[r] = "load"
  BY DEF LoadMiss, LoadHit
<1>2. /\ pc' \in [Request -> Stage] /\ answer' \in [Request -> Answers]
      /\ \A q \in Request \ {r} : pc'[q] = pc[q] /\ answer'[q] = answer[q]
      /\ \/ /\ pc'[r] = "fetch" /\ answer'[r] = answer[r]
            /\ RecordsOf(input[r].key) = {}
         \/ /\ pc'[r] = "done"
            /\ answer'[r].status = "Ok" =>
                  \E rec \in RecordsOf(input[r].key) :
                     /\ rec.hash = RequestHash(input[r])
                     /\ answer'[r].event = rec.event
  <2>1. CASE LoadMiss(r)
    BY <2>1 DEF LoadMiss, TypeOK, Stage
  <2>2. CASE LoadHit(r)
    <3>1. PICK rec \in RecordsOf(input[r].key) :
             IF rec.hash = RequestHash(input[r])
             THEN Answer(r, "Ok", rec.event)
             ELSE Answer(r, "IdempotencyConflict", 0)
      BY <2>2 DEF LoadHit
    <3>2. rec.event \in Nat
      BY DEF RecordsOf, TypeOK, StoreTypeOK, IdempotencyRecords
    <3>3. CASE rec.hash = RequestHash(input[r])
      <4>1. Answer(r, "Ok", rec.event)
        BY <3>1, <3>3
      <4>2. /\ pc' \in [Request -> Stage] /\ answer' \in [Request -> Answers]
            /\ pc'[r] = "done" /\ answer'[r].event = rec.event
            /\ \A q \in Request \ {r} : pc'[q] = pc[q] /\ answer'[q] = answer[q]
        BY <3>2, <4>1, AnswerType
      <4> QED
        BY <3>3, <4>2
    <3>4. CASE rec.hash # RequestHash(input[r])
      <4>1. Answer(r, "IdempotencyConflict", 0)
        BY <3>1, <3>4
      <4>2. /\ pc' \in [Request -> Stage] /\ answer' \in [Request -> Answers]
            /\ pc'[r] = "done" /\ answer'[r].status = "IdempotencyConflict"
            /\ \A q \in Request \ {r} : pc'[q] = pc[q] /\ answer'[q] = answer[q]
        BY <4>1, AnswerType
      <4> QED
        BY <4>2
    <3> QED
      BY <3>3, <3>4
  <2> QED
    BY <2>1, <2>2
<1>3. TypeOK'
  BY <1>1, <1>2, TablesKept DEF TypeOK
<1>4. PersistingKnows'
  BY <1>1, <1>2 DEF PersistingKnows, storeVars, StateAt
<1>5. StaleMeetsRecord'
  BY <1>1, <1>2 DEF StaleMeetsRecord, storeVars, RecordsOf
<1>6. \A a \in Asset : \A j \in DOMAIN events[a] : events[a][j].by \in Request \ {r}
  BY <1>1, EventType DEF EventsSettled
<1>7. EventsSettled' /\ RetryNeverReexecutes'
  BY <1>1, <1>2, <1>6 DEF EventsSettled, RetryNeverReexecutes, storeVars
<1>8. AnsweredIsDone'
  BY <1>1, <1>2 DEF AnsweredIsDone
<1>9. AnswersAreTrue'
  <2> SUFFICES ASSUME NEW q \in Request, answer'[q].status = "Ok"
               PROVE  AnswerIsTrue(q)'
    BY DEF AnswersAreTrue
  <2>1. CASE q # r
    <3>1. AnswerIsTrue(q) /\ answer'[q] = answer[q]
      BY <1>2, <2>1 DEF AnswersAreTrue
    <3> QED
      BY <1>1, <3>1 DEF AnswerIsTrue, storeVars
  <2>2. CASE q = r
    <3>1. PICK rec \in RecordsOf(input[r].key) :
             rec.hash = RequestHash(input[r]) /\ answer'[r].event = rec.event
      BY <1>1, <1>2, <2>2 DEF AnsweredIsDone
    <3>2. /\ rec \in idempotency /\ rec.key = input[r].key
          /\ rec.hash.asset = input[r].asset /\ rec.hash.action = input[r].action
      BY <3>1 DEF RecordsOf, RequestHash
    <3>3. /\ rec.event \in DOMAIN events[rec.hash.asset]
          /\ events[rec.hash.asset][rec.event].key = rec.key
          /\ events[rec.hash.asset][rec.event].action = rec.hash.action
          /\ \A m \in 1..(rec.event - 1) : events[rec.hash.asset][m].key # rec.key
      BY <3>2 DEF RecordsPointToEvents
    <3> QED
      BY <1>1, <2>2, <3>1, <3>2, <3>3 DEF AnswerIsTrue, storeVars
  <2> QED
    BY <2>1, <2>2
<1> QED
  BY <1>1, <1>3, <1>4, <1>5, <1>7, <1>8, <1>9, TablesKept

LEMMA FetchFailIInv ==
    ASSUME IInv, NEW r \in Request, Fetch(r) \/ Fail(r)
    PROVE  IInv'
<1> USE DEF IInv
<1>1. /\ UNCHANGED <<storeVars, input, fresh>>
      /\ pc[r] \in {"load", "fetch", "persist"}
      /\ \A a, n : StateAt(a, n)' = StateAt(a, n)
      /\ \A a : Len(events'[a]) = Len(events[a])
  BY DEF Fetch, Fail, InFlight, storeVars, StateAt
<1> DEFINE rec == FetchAsset(input[r].asset, input[r].previous)
<1>2. rec \in Reads /\ rec.at = Len(events[input[r].asset])
      /\ rec.current = assets[input[r].asset].current
  BY DEF TypeOK, StoreTypeOK, FetchAsset, Reads, Rows, AllInputs, OptState
<1>3. ApplyStatus(rec, input[r].action, input[r]) \in Status
  BY DEF ApplyStatus, Status
<1>4. /\ pc' \in [Request -> Stage] /\ answer' \in [Request -> Answers]
      /\ read' \in [Request -> Reads]
      /\ \A q \in Request \ {r} :
            pc'[q] = pc[q] /\ answer'[q] = answer[q] /\ read'[q] = read[q]
      /\ answer'[r].status # "Ok"
      /\ \/ /\ pc[r] = "fetch" /\ pc'[r] = "persist" /\ read'[r] = rec
            /\ ApplyStatus(rec, input[r].action, input[r]) = "Ok"
         \/ pc'[r] = "done"
  <2>1. CASE Fail(r)
    <3>1. Answer(r, "Database", 0) /\ UNCHANGED read
      BY <2>1 DEF Fail
    <3>2. "Database" \in Status
      BY DEF Status
    <3> QED
      BY <3>1, <3>2, AnswerType DEF TypeOK
  <2>2. CASE Fetch(r) /\ ApplyStatus(rec, input[r].action, input[r]) = "Ok"
    BY <1>2, <2>2 DEF Fetch, TypeOK, Stage, AnsweredIsDone
  <2>3. CASE Fetch(r) /\ ApplyStatus(rec, input[r].action, input[r]) # "Ok"
    <3>1. Answer(r, ApplyStatus(rec, input[r].action, input[r]), 0)
          /\ read' = [read EXCEPT ![r] = rec]
      BY <2>3 DEF Fetch
    <3>2. read' \in [Request -> Reads] /\ \A q \in Request \ {r} : read'[q] = read[q]
      BY <1>2, <3>1 DEF TypeOK
    <3> HIDE DEF rec
    <3> QED
      BY <1>3, <2>3, <3>1, <3>2, AnswerType
  <2> QED
    BY <2>1, <2>2, <2>3
<1>5. TypeOK'
  BY <1>1, <1>4, TablesKept DEF TypeOK
<1>6. rec.current = StateAt(input[r].asset, rec.at)
  BY <1>2 DEF RowMatchesAudit, StateAt, TypeOK, StoreTypeOK, AllInputs
<1>7. PersistingKnows'
  <2> SUFFICES ASSUME NEW q \in Request, pc'[q] = "persist"
               PROVE  /\ read'[q].at <= Len(events[input[q].asset])
                      /\ read'[q].current = StateAt(input[q].asset, read'[q].at)
                      /\ ApplyStatus(read'[q], input[q].action, input[q]) = "Ok"
    BY <1>1 DEF PersistingKnows
  <2>1. CASE q # r
    BY <1>4, <2>1 DEF PersistingKnows
  <2>2. CASE q = r
    BY <1>2, <1>4, <1>6, <2>2 DEF Reads
  <2> QED
    BY <2>1, <2>2
<1>8. StaleMeetsRecord'
  BY <1>1, <1>4 DEF StaleMeetsRecord, storeVars, RecordsOf
<1>9. \A a \in Asset : \A j \in DOMAIN events[a] : events[a][j].by \in Request \ {r}
  BY <1>1, EventType DEF EventsSettled
<1>10. EventsSettled' /\ RetryNeverReexecutes'
  BY <1>1, <1>4, <1>9 DEF EventsSettled, RetryNeverReexecutes, storeVars
<1>11. AnsweredIsDone'
  BY <1>1, <1>4 DEF AnsweredIsDone
<1>12. AnswersAreTrue'
  <2> SUFFICES ASSUME NEW q \in Request, answer'[q].status = "Ok"
               PROVE  AnswerIsTrue(q)'
    BY DEF AnswersAreTrue
  <2>1. q # r
    BY <1>4
  <2>2. AnswerIsTrue(q) /\ answer'[q] = answer[q]
    BY <1>4, <2>1 DEF AnswersAreTrue
  <2> QED
    BY <1>1, <2>2 DEF AnswerIsTrue, storeVars
<1> QED
  BY <1>1, <1>5, <1>7, <1>8, <1>10, <1>11, <1>12, TablesKept

(***************************************************************************)
(* The transaction of persist_action appends one event to the log of the   *)
(* asked asset and changes nothing else of any log.                        *)
(***************************************************************************)
LEMMA LogGrows ==
    ASSUME TypeOK, NEW a \in Asset, NEW e \in Events,
           events' = [events EXCEPT ![a] = Append(@, e)], origin' = origin
    PROVE  /\ events' \in [Asset -> Seq(Events)]
           /\ Len(events'[a]) = Len(events[a]) + 1
           /\ events'[a][Len(events[a]) + 1] = e
           /\ \A b \in Asset : Len(events[b]) <= Len(events'[b])
           /\ \A b \in Asset \ {a} : events'[b] = events[b]
           /\ \A b \in Asset : \A j \in DOMAIN events[b] :
                 j \in DOMAIN events'[b] /\ events'[b][j] = events[b][j]
           /\ \A b \in Asset : \A j \in DOMAIN events'[b] :
                 j \in DOMAIN events[b] \/ (b = a /\ j = Len(events[a]) + 1)
           /\ \A b \in Asset : \A n \in 0..Len(events[b]) : StateAt(b, n)' = StateAt(b, n)
<1>1. events[a] \in Seq(Events) /\ \A b \in Asset : events[b] \in Seq(Events)
  BY DEF TypeOK, StoreTypeOK
<1>2. events'[a] = Append(events[a], e) /\ \A b \in Asset \ {a} : events'[b] = events[b]
  BY DEF TypeOK, StoreTypeOK
<1>3. Append(events[a], e) \in Seq(Events) /\ Len(Append(events[a], e)) = Len(events[a]) + 1
      /\ Append(events[a], e)[Len(events[a]) + 1] = e
      /\ \A j \in 1..Len(events[a]) : Append(events[a], e)[j] = events[a][j]
  BY <1>1
<1>4. events' \in [Asset -> Seq(Events)]
  BY <1>1, <1>3 DEF TypeOK, StoreTypeOK
<1>5. \A b \in Asset : \A j \in DOMAIN events[b] :
         j \in DOMAIN events'[b] /\ events'[b][j] = events[b][j]
  BY <1>1, <1>2, <1>3
<1>6. \A b \in Asset : \A j \in DOMAIN events'[b] :
         j \in DOMAIN events[b] \/ (b = a /\ j = Len(events[a]) + 1)
  <2>1. DOMAIN events'[a] = 1..(Len(events[a]) + 1) /\ DOMAIN events[a] = 1..Len(events[a])
    BY <1>1, <1>2, <1>3
  <2>2. \A j \in DOMAIN events'[a] : j \in DOMAIN events[a] \/ j = Len(events[a]) + 1
    BY <1>1, <2>1
  <2> SUFFICES ASSUME NEW b \in Asset, NEW j \in DOMAIN events'[b]
               PROVE  j \in DOMAIN events[b] \/ (b = a /\ j = Len(events[a]) + 1)
    OBVIOUS
  <2>3. CASE b = a
    BY <2>2, <2>3
  <2>4. CASE b # a
    BY <1>2, <2>4
  <2> QED
    BY <2>3, <2>4
<1>7. \A b \in Asset : \A n \in 0..Len(events[b]) : StateAt(b, n)' = StateAt(b, n)
  BY <1>1, <1>5 DEF StateAt
<1>8. \A b \in Asset : Len(events[b]) <= Len(events'[b])
  BY <1>1, <1>2, <1>3
<1> QED
  BY <1>2, <1>3, <1>4, <1>5, <1>6, <1>7, <1>8

LEMMA PersistIInv ==
    ASSUME IInv, NEW r \in Request, Persist(r)
    PROVE  IInv'
<1> USE DEF IInv
<1> DEFINE a == input[r].asset
           n == Len(events[a]) + 1
<1>1. PICK target \in AssetState :
         /\ NextState(read[r].current, input[r].action, read[r].previous, target)
         /\ PersistAction(a, EventOf(r, target), RequestHash(input[r]),
                          input[r].buyer, input[r].actor)
  BY DEF Persist
<1> DEFINE e == EventOf(r, target)
<1>2. /\ pc[r] = "persist" /\ UNCHANGED <<input, read, fresh, origin>>
      /\ input[r] \in AllInputs /\ read[r] \in Reads /\ a \in Asset
      /\ fresh[r] /\ input[r].action \in AssetAction
  BY <1>1 DEF Persist, PersistAction, TypeOK, StaleMeetsRecord, AllInputs, HandledActions
<1>3. /\ e \in Events /\ e.by = r /\ e.key = input[r].key /\ e.action = input[r].action
      /\ e.from = read[r].current /\ e.to = target /\ e.at = read[r].at
  BY <1>2 DEF EventOf, Events, AllInputs, Reads
<1>4. /\ assets' = [assets EXCEPT ![a] =
            [current |-> target, previous |-> PreviousAfter(read[r].current, target),
             owner |-> OwnerAfter(input[r].action, @.owner, input[r].buyer, input[r].actor)]]
      /\ events' = [events EXCEPT ![a] = Append(@, e)]
      /\ InsertIdempotency(input[r].key, RequestHash(input[r]), n)
  BY <1>1, <1>3 DEF PersistAction, UpdateAsset
<1>5. /\ events' \in [Asset -> Seq(Events)]
      /\ Len(events'[a]) = n /\ events'[a][n] = e /\ n \in Nat \ {0} /\ n \in DOMAIN events'[a]
      /\ \A b \in Asset : Len(events[b]) <= Len(events'[b])
      /\ \A b \in Asset \ {a} : events'[b] = events[b]
      /\ \A b \in Asset : \A j \in DOMAIN events[b] :
            j \in DOMAIN events'[b] /\ events'[b][j] = events[b][j]
      /\ \A b \in Asset : \A j \in DOMAIN events'[b] :
            j \in DOMAIN events[b] \/ (b = a /\ j = n)
      /\ \A b \in Asset : \A m \in 0..Len(events[b]) : StateAt(b, m)' = StateAt(b, m)
  <2>1. events[a] \in Seq(Events)
    BY <1>2 DEF TypeOK, StoreTypeOK
  <2>2. n \in Nat \ {0}
    BY <2>1
  <2>3. /\ events' \in [Asset -> Seq(Events)]
        /\ Len(events'[a]) = n /\ events'[a][n] = e
        /\ \A b \in Asset : Len(events[b]) <= Len(events'[b])
        /\ \A b \in Asset \ {a} : events'[b] = events[b]
        /\ \A b \in Asset : \A j \in DOMAIN events[b] :
              j \in DOMAIN events'[b] /\ events'[b][j] = events[b][j]
        /\ \A b \in Asset : \A j \in DOMAIN events'[b] :
              j \in DOMAIN events[b] \/ (b = a /\ j = n)
        /\ \A b \in Asset : \A m \in 0..Len(events[b]) : StateAt(b, m)' = StateAt(b, m)
    <3>1. TypeOK /\ a \in Asset /\ e \in Events
          /\ events' = [events EXCEPT ![a] = Append(@, e)] /\ origin' = origin
      BY <1>2, <1>3, <1>4
    <3> HIDE DEF e, a
    <3> QED
      BY <3>1, LogGrows
  <2>4. n \in DOMAIN events'[a]
    BY <1>2, <2>2, <2>3
  <2> HIDE DEF e, a
  <2> QED
    BY <2>2, <2>3, <2>4
<1>6. /\ pc' \in [Request -> Stage] /\ answer' \in [Request -> Answers]
      /\ pc'[r] = "done" /\ (answer'[r].status = "Ok" => answer'[r].event = n)
      /\ \A q \in Request \ {r} : pc'[q] = pc[q] /\ answer'[q] = answer[q]
  <2>1. Answer(r, "Ok", n) \/ Answer(r, "Database", 0)
    BY <1>5 DEF Persist
  <2>2. "Ok" \in Status /\ "Database" \in Status
    BY DEF Status
  <2> QED
    BY <1>5, <2>1, <2>2, AnswerType
<1>7. /\ idempotency \subseteq idempotency'
      /\ \A rec \in idempotency' :
            \/ rec \in idempotency
            \/ /\ RecordsOf(input[r].key) = {}
               /\ rec = [key |-> input[r].key, hash |-> RequestHash(input[r]), event |-> n]
      /\ \E rec \in idempotency' : rec.key = input[r].key
  BY <1>4, IdempotencyGrows
<1>8. TypeOK'
  <2>1. target \in OptState /\ PreviousAfter(read[r].current, target) \in OptState
    BY <1>2 DEF PreviousAfter, OptState, Reads
  <2>2. OwnerAfter(input[r].action, assets[a].owner, input[r].buyer, input[r].actor)
           \in User \cup {None}
    BY <1>2 DEF OwnerAfter, AllInputs, TypeOK, StoreTypeOK, Rows
  <2>3. assets' \in [Asset -> Rows]
    BY <1>2, <1>4, <2>1, <2>2 DEF TypeOK, StoreTypeOK, Rows
  <2>4. RequestHash(input[r]) \in Hashes
    BY <1>2 DEF RequestHash, Hashes, AllInputs
  <2>5. idempotency' \subseteq IdempotencyRecords
    BY <1>2, <1>5, <1>7, <2>4 DEF TypeOK, StoreTypeOK, IdempotencyRecords, AllInputs
  <2> QED
    BY <1>2, <1>5, <1>6, <2>3, <2>5 DEF TypeOK, StoreTypeOK
<1>9. OriginSound'
  BY <1>2 DEF OriginSound
<1>10. PersistingKnows'
  <2> SUFFICES ASSUME NEW q \in Request, pc'[q] = "persist"
               PROVE  /\ read[q].at <= Len(events'[input[q].asset])
                      /\ (read[q].current = StateAt(input[q].asset, read[q].at))'
                      /\ ApplyStatus(read[q], input[q].action, input[q]) = "Ok"
    BY <1>2 DEF PersistingKnows
  <2>1. q # r /\ pc[q] = "persist"
    BY <1>6
  <2>2. input[q].asset \in Asset /\ read[q].at \in Nat
    BY DEF TypeOK, AllInputs, Reads
  <2>3. /\ Len(events[input[q].asset]) \in Nat
        /\ Len(events'[input[q].asset]) \in Nat
    BY <1>5, <2>2 DEF TypeOK, StoreTypeOK
  <2>4. /\ read[q].at <= Len(events[input[q].asset])
        /\ read[q].current = StateAt(input[q].asset, read[q].at)
        /\ ApplyStatus(read[q], input[q].action, input[q]) = "Ok"
    BY <2>1 DEF PersistingKnows
  <2>5. read[q].at \in 0..Len(events[input[q].asset])
    BY <2>2, <2>3, <2>4
  <2> QED
    BY <1>2, <1>5, <2>2, <2>3, <2>4, <2>5 DEF StateAt
<1>11. StaleMeetsRecord'
  BY <1>2, <1>6, <1>7 DEF StaleMeetsRecord, RecordsOf
<1>12. EventsSettled'
  <2> SUFFICES ASSUME NEW b \in Asset, NEW j \in DOMAIN events'[b]
               PROVE  /\ pc'[events'[b][j].by] = "done"
                      /\ \E rec \in idempotency' : rec.key = events'[b][j].key
    BY DEF EventsSettled
  <2>1. CASE j \in DOMAIN events[b]
    <3>1. /\ events[b][j].by \in Request \ {r} /\ pc[events[b][j].by] = "done"
          /\ \E rec \in idempotency : rec.key = events[b][j].key
      BY <1>2, <2>1, EventType DEF EventsSettled
    <3> QED
      BY <1>5, <1>6, <1>7, <2>1, <3>1
  <2>2. CASE b = a /\ j = n
    BY <1>3, <1>5, <1>6, <1>7, <2>2
  <2> QED
    BY <1>5, <2>1, <2>2
<1>13. RecordsPointToEvents'
  <2> SUFFICES ASSUME NEW rec \in idempotency'
               PROVE  /\ rec.event \in DOMAIN events'[rec.hash.asset]
                      /\ events'[rec.hash.asset][rec.event].key = rec.key
                      /\ events'[rec.hash.asset][rec.event].action = rec.hash.action
                      /\ \A m \in 1..(rec.event - 1) :
                            events'[rec.hash.asset][m].key # rec.key
    BY DEF RecordsPointToEvents
  <2>1. CASE rec \in idempotency
    <3>1. rec.hash.asset \in Asset /\ rec.event \in Nat
      BY <2>1 DEF TypeOK, StoreTypeOK, IdempotencyRecords, Hashes
    <3>2. /\ rec.event \in DOMAIN events[rec.hash.asset]
          /\ events[rec.hash.asset][rec.event].key = rec.key
          /\ events[rec.hash.asset][rec.event].action = rec.hash.action
          /\ \A m \in 1..(rec.event - 1) : events[rec.hash.asset][m].key # rec.key
      BY <2>1 DEF RecordsPointToEvents
    <3>3. \A m \in 1..(rec.event - 1) : m \in DOMAIN events[rec.hash.asset]
      BY <3>1, <3>2 DEF TypeOK, StoreTypeOK
    <3> QED
      BY <1>5, <3>1, <3>2, <3>3
  <2>2. CASE /\ RecordsOf(input[r].key) = {}
             /\ rec = [key |-> input[r].key, hash |-> RequestHash(input[r]), event |-> n]
    <3>1. /\ rec.key = input[r].key /\ rec.event = n
          /\ rec.hash.asset = a /\ rec.hash.action = input[r].action
      BY <2>2 DEF RequestHash
    <3>2. \A m \in 1..(n - 1) : m \in DOMAIN events[a]
      BY <1>2 DEF TypeOK, StoreTypeOK
    <3>3. \A m \in 1..(n - 1) : events[a][m].key # input[r].key
      BY <1>2, <2>2, <3>2 DEF EventsSettled, RecordsOf
    <3> QED
      BY <1>2, <1>3, <1>5, <3>1, <3>2, <3>3
  <2> QED
    BY <1>7, <2>1, <2>2
<1>14. AnsweredIsDone'
  BY <1>6 DEF AnsweredIsDone
<1>15. AuditExplainsSteps'
  <2> SUFFICES ASSUME NEW b \in Asset, NEW j \in DOMAIN events'[b]
               PROVE  /\ events'[b][j].at < j
                      /\ (events[b][j].from = StateAt(b, events[b][j].at))'
                      /\ LegalStep(events'[b][j].from, events'[b][j].to)
    BY DEF AuditExplainsSteps
  <2>1. CASE j \in DOMAIN events[b]
    <3>1. /\ events[b][j].at < j
          /\ events[b][j].from = StateAt(b, events[b][j].at)
          /\ LegalStep(events[b][j].from, events[b][j].to)
      BY <2>1 DEF AuditExplainsSteps
    <3>2. events[b][j].at \in 0..Len(events[b])
      BY <2>1, <3>1, EventType DEF Events
    <3> QED
      BY <1>5, <2>1, <3>1, <3>2 DEF StateAt
  <2>2. CASE b = a /\ j = n
    <3>1. read[r].at \in 0..Len(events[a]) /\ read[r].current = StateAt(a, read[r].at)
      BY <1>2 DEF PersistingKnows, TypeOK, StoreTypeOK, Reads
    <3>2. LegalStep(read[r].current, target)
      BY <1>1, <1>2, NextStateIsLegal DEF Reads
    <3>3. events'[b][j] = e /\ read[r].at < n
      BY <1>2, <1>5, <2>2, <3>1 DEF TypeOK, StoreTypeOK
    <3>4. StateAt(a, read[r].at)' = StateAt(a, read[r].at)
      BY <1>2, <1>5, <3>1
    <3>5. /\ events'[b][j].at = read[r].at /\ events'[b][j].from = read[r].current
          /\ events'[b][j].to = target
      BY <1>3, <3>3
    <3>6. (StateAt(b, events[b][j].at))' = StateAt(a, read[r].at)'
      BY <1>2, <2>2, <3>5 DEF StateAt
    <3> HIDE DEF a, e
    <3> QED
      BY <2>2, <3>1, <3>2, <3>3, <3>4, <3>5, <3>6
  <2> QED
    BY <1>5, <2>1, <2>2
<1>16. RowMatchesAudit'
  <2> SUFFICES ASSUME NEW b \in Asset
               PROVE  LET m == Len(events'[b]) IN
                      IF m = 0 THEN assets'[b] = origin'[b]
                      ELSE /\ assets'[b].current = events'[b][m].to
                           /\ assets'[b].previous =
                                 (IF events'[b][m].to = Frozen THEN events'[b][m].from
                                                               ELSE None)
    BY DEF RowMatchesAudit
  <2>1. CASE b = a
    BY <1>2, <1>3, <1>4, <1>5, <2>1 DEF TypeOK, StoreTypeOK, PreviousAfter
  <2>2. CASE b # a
    <3>1. assets'[b] = assets[b] /\ events'[b] = events[b] /\ origin' = origin
      BY <1>2, <1>4, <1>5, <2>2 DEF TypeOK, StoreTypeOK
    <3> QED
      BY <3>1 DEF RowMatchesAudit
  <2> QED
    BY <2>1, <2>2
<1>17. RetryNeverReexecutes'
  BY <1>2, <1>3, <1>5, SMTT(60) DEF RetryNeverReexecutes
<1>18. AnswersAreTrue'
  <2> SUFFICES ASSUME NEW q \in Request, answer'[q].status = "Ok"
               PROVE  AnswerIsTrue(q)'
    BY DEF AnswersAreTrue
  <2>1. CASE q = r
    BY <1>2, <1>3, <1>5, <1>6, <2>1 DEF AnswerIsTrue
  <2>2. CASE q # r
    <3>1. AnswerIsTrue(q) /\ answer'[q] = answer[q] /\ input'[q] = input[q]
      BY <1>2, <1>6, <2>2 DEF AnswersAreTrue
    <3>2. input[q].asset \in Asset /\ answer[q].event \in DOMAIN events[input[q].asset]
      BY <3>1 DEF AnswerIsTrue, TypeOK, AllInputs
    <3>3. \A m \in 1..(answer[q].event - 1) : m \in DOMAIN events[input[q].asset]
      BY <3>2 DEF TypeOK, StoreTypeOK
    <3>4. /\ answer[q].event \in DOMAIN events'[input[q].asset]
          /\ events'[input[q].asset][answer[q].event] = events[input[q].asset][answer[q].event]
          /\ \A m \in 1..(answer[q].event - 1) :
                events'[input[q].asset][m] = events[input[q].asset][m]
      BY <1>5, <3>2, <3>3
    <3> QED
      BY <3>1, <3>4 DEF AnswerIsTrue
  <2> QED
    BY <2>1, <2>2
<1> HIDE DEF e
<1> QED
  BY <1>8, <1>9, <1>10, <1>11, <1>12, <1>13, <1>14, <1>15, <1>16, <1>17, <1>18

-----------------------------------------------------------------------------
(***************************************************************************)
(* The invariant holds in every reachable state, whatever the interleaving *)
(* of requests and failures.                                               *)
(***************************************************************************)
THEOREM Invariance == Spec => []IInv
<1>1. IInv /\ [Next]_vars => IInv'
  <2> SUFFICES ASSUME IInv, [Next]_vars PROVE IInv'
    OBVIOUS
  <2>1. CASE Next
    BY <2>1, ReceiveIInv, LoadIInv, FetchFailIInv, PersistIInv DEF Next
  <2>2. CASE UNCHANGED vars
    <3>1. /\ UNCHANGED storeVars
          /\ UNCHANGED <<assets, origin, events, idempotency, pc, input, read, fresh, answer>>
      BY <2>2 DEF vars, storeVars, reqVars
    <3>2. TypeOK' /\ PersistingKnows' /\ StaleMeetsRecord' /\ EventsSettled' /\ AnsweredIsDone'
      BY <3>1, TablesKept DEF IInv, TypeOK, PersistingKnows, StateAt, StaleMeetsRecord,
                              RecordsOf, EventsSettled, AnsweredIsDone
    <3>3. RetryNeverReexecutes' /\ AnswersAreTrue'
      BY <3>1 DEF IInv, RetryNeverReexecutes, AnswersAreTrue, AnswerIsTrue
    <3> QED
      BY <3>1, <3>2, <3>3, TablesKept DEF IInv
  <2> QED
    BY <2>1, <2>2
<1> QED
  BY InitIInv, <1>1, PTL DEF Spec

(***************************************************************************)
(* Every variable keeps its type.                                          *)
(***************************************************************************)
THEOREM TypeCorrect == Spec => []TypeOK
<1>1. IInv => TypeOK
  BY DEF IInv
<1> QED
  BY <1>1, Invariance, PTL

(***************************************************************************)
(* Every audit event is a legal step from a state the asset was in.        *)
(***************************************************************************)
THEOREM AuditCorrect == Spec => []AuditExplainsSteps
<1>1. IInv => AuditExplainsSteps
  BY DEF IInv
<1> QED
  BY <1>1, Invariance, PTL

(***************************************************************************)
(* The row of an asset and its audit log agree.                            *)
(***************************************************************************)
THEOREM RowAndLogAgree == Spec => []RowMatchesAudit
<1>1. IInv => RowMatchesAudit
  BY DEF IInv
<1> QED
  BY <1>1, Invariance, PTL

(***************************************************************************)
(* A frozen asset can be recovered: the freeze it is in is the last event  *)
(* of its log, a legal step, so it interrupted a live state.               *)
(***************************************************************************)
THEOREM FrozenCanRecover == Spec => []FrozenIsRecoverable
<1>1. IInv => FrozenIsRecoverable
  <2> SUFFICES ASSUME IInv, NEW a \in Asset, assets[a].current = Frozen
               PROVE  assets[a].previous \in LiveStates
    BY DEF FrozenIsRecoverable
  <2> DEFINE n == Len(events[a])
  <2>1. CASE n = 0
    <3>1. assets[a] = origin[a] /\ SoundRow(origin[a])
      BY <2>1 DEF IInv, RowMatchesAudit, OriginSound
    <3> QED
      BY <3>1 DEF SoundRow
  <2>2. CASE n # 0
    <3>1. n \in DOMAIN events[a]
      BY <2>2 DEF IInv, TypeOK, StoreTypeOK
    <3>2. events[a][n].to = Frozen /\ assets[a].previous = events[a][n].from
      BY <2>2 DEF IInv, RowMatchesAudit
    <3>3. LegalStep(events[a][n].from, Frozen)
      BY <3>1, <3>2 DEF IInv, AuditExplainsSteps
    <3>4. \A i \in 1..7 : BusinessPath[i + 1] # Frozen
      <4>1. \A i \in 1..7 : i = 1 \/ i = 2 \/ i = 3 \/ i = 4 \/ i = 5 \/ i = 6 \/ i = 7
        OBVIOUS
      <4>2. /\ BusinessPath[1 + 1] # Frozen /\ BusinessPath[2 + 1] # Frozen
            /\ BusinessPath[3 + 1] # Frozen /\ BusinessPath[4 + 1] # Frozen
            /\ BusinessPath[5 + 1] # Frozen /\ BusinessPath[6 + 1] # Frozen
            /\ BusinessPath[7 + 1] # Frozen
        BY DEF BusinessPath, Frozen
      <4> QED
        BY <4>1, <4>2
    <3> QED
      BY <3>2, <3>3, <3>4 DEF LegalStep, LiveStates, PreSaleStates, SoldStates, Frozen
  <2> QED
    BY <2>1, <2>2
<1> QED
  BY <1>1, Invariance, PTL

(***************************************************************************)
(* A retry of a recorded key never executes again.                         *)
(***************************************************************************)
THEOREM RetryIsSafe == Spec => []RetryNeverReexecutes
<1>1. IInv => RetryNeverReexecutes
  BY DEF IInv
<1> QED
  BY <1>1, Invariance, PTL

(***************************************************************************)
(* A success names a committed event of the asked asset, action and key.   *)
(***************************************************************************)
THEOREM AnswersCorrect == Spec => []AnswersAreTrue
<1>1. IInv => AnswersAreTrue
  BY DEF IInv
<1> QED
  BY <1>1, Invariance, PTL
=============================================================================
