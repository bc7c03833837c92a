--------------------------- MODULE TransferProofs ---------------------------
(***************************************************************************)
(* Proofs about Transfer: transfers, settlements and asset actions in any  *)
(* number, interleaved in any way, failing anywhere.                       *)
(***************************************************************************)
EXTENDS Transfer, ActionHandlerProofs, SequenceTheorems

\* The tuples that UNCHANGED names in the actions.
USE DEF tableVars, moveVars, ghostVars

-----------------------------------------------------------------------------
(***************************************************************************)
(* The inductive invariant.                                                *)
(***************************************************************************)

\* A request is an asset action, or a transfer, or a settlement.
OneRole == \A r \in Request : pc[r] = "idle" \/ stage[r] = "idle"

\* How far a transfer is tells whether it gave the asset away and what it read.
StageTells ==
    \A r \in Request :
        /\ stage[r] \in {"insert", "log"} => r \in moved
        /\ r \in moved => stage[r] \in {"insert", "log", "done"}
        /\ reply[r].status = "Ok" => stage[r] = "done"
        /\ stage[r] \in {"owner", "device", "tap", "give"} =>
              local[r].current \in SoldStates
        /\ stage[r] \in {"device", "tap", "give", "insert"} =>
              local[r].owner = move[r].actor

\* A transfer authorised to give its asset away.
Authorised(r) == stage[r] = "give" \/ r \in moved

\* An authorised tap is one the card will not accept again, and nobody else's.
TapsAreSpent ==
    \A r, s \in Request :
        /\ Authorised(r) /\ Authorised(s) /\ move[r].asset = move[s].asset
        /\ devices[move[r].asset].type = "PHYSICAL_NFC"
        => /\ move[r].ctr <= devices[move[r].asset].ctr
           /\ move[r].ctr = move[s].ctr => r = s

\* Whoever wrote a record is past writing it.
WritersAreDone ==
    \A n \in DOMAIN transfers : stage[transfers[n].by] \in {"log", "done"}

\* A settlement under way names a record, and past the lookup one of its own.
SettlementsKnow ==
    \A r \in Request :
        /\ stage[r] \in {"find", "settle"} => verdict[r].record \in DOMAIN transfers
        /\ stage[r] = "settle" =>
              verdict[r].actor = transfers[verdict[r].record].to
        /\ reply[r].status = "Ok" /\ r \notin moved =>
              reply[r].record \in DOMAIN transfers

\* What a transfer has read is the row, unless it was written since.
TransferReads ==
    \A r \in Request :
        LET a == move[r].asset IN
        stage[r] \in {"owner", "device", "tap", "give"} =>
            /\ seen[r] <= version[a]
            /\ seen[r] = version[a] =>
                  /\ local[r].current = assets[a].current
                  /\ stage[r] # "owner" => local[r].owner = assets[a].owner

\* So is what an asset action has read; apply_action accepted it.
ActionReads ==
    \A r \in Request :
        LET a == input[r].asset IN
        pc[r] = "persist" =>
            /\ ApplyStatus(read[r], input[r].action, input[r]) = "Ok"
            /\ seen[r] <= version[a]
            /\ seen[r] = version[a] /\ input[r].previous = None =>
                  /\ read[r].current = assets[a].current
                  /\ read[r].previous = assets[a].previous

TInv ==
    /\ TransferTypeOK
    /\ OneRole /\ StageTells
    /\ TapsAreSpent
    /\ RecordsAreBacked /\ WritersAreDone
    /\ SettlementsKnow /\ SettledAsAnswered
    /\ TransferReads /\ ActionReads

-----------------------------------------------------------------------------
LEMMA InitTInv == TransferInit => TInv
<1> SUFFICES ASSUME TransferInit PROVE TInv
  OBVIOUS
<1>1. NoMove \in AllMoves
  BY MovesAssumption DEF NoMove
<1>2. TypeOK
  BY InitIInv DEF TransferInit, IInv
<1>3. /\ NoLocal \in Locals /\ NoReply \in Replies /\ NoVerdict \in Settlements
      /\ << >> \in Seq(TransferRecords)
  BY <1>1 DEF NoLocal, Locals, NoReply, Replies, NoVerdict, Settlements, Outcomes, AllMoves,
              AssetState, LiveStates, PreSaleStates
<1>4. TransferTypeOK
  BY <1>1, <1>2, <1>3 DEF TransferInit, TransferTypeOK, Stages
<1>5. /\ \A r \in Request : stage[r] = "idle" /\ pc[r] = "idle" /\ reply[r].status = "None"
      /\ moved = {} /\ DOMAIN transfers = {}
  BY DEF TransferInit, Init, NoReply
<1> QED
  BY <1>4, <1>5 DEF TInv, OneRole, StageTells, TapsAreSpent, Authorised, RecordsAreBacked,
                    WritersAreDone, SettlementsKnow, SettledAsAnswered, TransferReads,
                    ActionReads

(***************************************************************************)
(* A step of a transfer or a settlement touches its own locals only.       *)
(***************************************************************************)
LEMMA OthersKept ==
    ASSUME TransferTypeOK, NEW r \in Request, TransferStep(r)
    PROVE  /\ UNCHANGED <<reqVars, origin, idempotency>>
           /\ \A q \in Request \ {r} :
                 /\ stage'[q] = stage[q] /\ move'[q] = move[q] /\ local'[q] = local[q]
                 /\ verdict'[q] = verdict[q] /\ reply'[q] = reply[q] /\ seen'[q] = seen[q]
<1> USE DEF TransferTypeOK, vars, storeVars, Goto, Reply
<1>1. CASE \E m \in Moves : StartTransfer(r, m)
  BY <1>1 DEF StartTransfer
<1>2. CASE ReadAsset(r)
  BY <1>2 DEF ReadAsset
<1>3. CASE ReadOwner(r)
  BY <1>3 DEF ReadOwner
<1>4. CASE ReadDevice(r)
  BY <1>4 DEF ReadDevice
<1>5. CASE Tap(r)
  BY <1>5 DEF Tap
<1>6. CASE GiveAway(r)
  BY <1>6 DEF GiveAway
<1>7. CASE InsertTransfer(r)
  BY <1>7 DEF InsertTransfer
<1>8. CASE LogTransfer(r)
  BY <1>8 DEF LogTransfer
<1>9. CASE \E v \in [record : DOMAIN transfers, outcome : Outcomes, actor : User] :
              StartSettlement(r, v)
  BY <1>9 DEF StartSettlement
<1>10. CASE FindTransfer(r)
  BY <1>10 DEF FindTransfer
<1>11. CASE Settle(r)
  BY <1>11 DEF Settle
<1>12. CASE Abandon(r)
  BY <1>12 DEF Abandon
<1> QED
  BY <1>1, <1>2, <1>3, <1>4, <1>5, <1>6, <1>7, <1>8, <1>9, <1>10, <1>11, <1>12
     DEF TransferStep

(***************************************************************************)
(* Every step keeps the types.                                             *)
(***************************************************************************)
LEMMA StageAndReplyType ==
    ASSUME TransferTypeOK, NEW r \in Request, NEW n \in Nat,
           \/ \E s \in Stages : Goto(r, s)
           \/ \E status \in {"Ok", "InvalidInput", "Forbidden", "Conflict", "Database"} :
                 Reply(r, status, n)
    PROVE  stage' \in [Request -> Stages] /\ reply' \in [Request -> Replies]
<1>1. stage \in [Request -> Stages] /\ reply \in [Request -> Replies] /\ "done" \in Stages
  BY DEF TransferTypeOK, Stages
<1>2. CASE \E s \in Stages : Goto(r, s)
  BY <1>1, <1>2 DEF Goto
<1>3. CASE \E status \in {"Ok", "InvalidInput", "Forbidden", "Conflict", "Database"} :
              Reply(r, status, n)
  <2>1. PICK status \in {"Ok", "InvalidInput", "Forbidden", "Conflict", "Database"} :
              Reply(r, status, n)
    BY <1>3
  <2>2. [status |-> status, record |-> n] \in Replies
    BY DEF Replies
  <2> QED
    BY <1>1, <2>1, <2>2 DEF Reply
<1> QED
  BY <1>2, <1>3

LEMMA TransferStepType ==
    ASSUME TransferTypeOK, StageTells, SettlementsKnow, NEW r \in Request, TransferStep(r)
    PROVE  TransferTypeOK'
<1> USE DEF TransferTypeOK, vars, storeVars, reqVars
<1>1. \A q \in Request : move[q] \in AllMoves /\ move[q].asset \in Asset
                         /\ move[q].to \in User /\ move[q].actor \in User
  BY DEF AllMoves
<1>2. 0 \in Nat /\ \A n \in DOMAIN transfers : n \in Nat
  OBVIOUS
<1>3. ASSUME NEW rec \in TransferRecords, transfers' = Append(transfers, rec)
      PROVE  transfers' \in Seq(TransferRecords)
  BY <1>3
<1>4. StoreTypeOK /\ reqVars' = reqVars /\ origin' = origin /\ idempotency' = idempotency
  BY OthersKept DEF TypeOK
<1> DEFINE Quiet == UNCHANGED <<assets, events, devices, transfers, version, moved>>
<1>5. Quiet => TypeOK' /\ devices' \in [Asset -> Devices] /\ transfers' \in Seq(TransferRecords)
                       /\ version' \in [Asset -> Nat] /\ moved' \subseteq Request
  BY <1>4 DEF TypeOK, StoreTypeOK
<1> HIDE DEF Quiet
<1>6. CASE \E m \in Moves : StartTransfer(r, m)
  <2>1. PICK m \in Moves : StartTransfer(r, m)
    BY <1>6
  <2>2. m \in AllMoves
    BY MovesAssumption
  <2>3. stage' \in [Request -> Stages] /\ reply' \in [Request -> Replies]
    BY <1>2, <2>1, StageAndReplyType DEF StartTransfer, Stages, MoveStages
  <2> QED
    BY <1>5, <2>1, <2>2, <2>3 DEF StartTransfer, Quiet
<1>7. CASE ReadAsset(r)
  <2>1. stage' \in [Request -> Stages] /\ reply' \in [Request -> Replies]
    BY <1>2, <1>7, StageAndReplyType DEF ReadAsset, Stages, MoveStages
  <2>2. assets[move[r].asset].current \in AssetState /\ Len(events[move[r].asset]) \in Nat
    BY <1>1, <1>4 DEF StoreTypeOK, Rows
  <2>3. local' \in [Request -> Locals] /\ seen' \in [Request -> Nat]
    BY <1>1, <1>7, <2>2 DEF ReadAsset, Locals
  <2> QED
    BY <1>5, <1>7, <2>1, <2>3 DEF ReadAsset, Quiet
<1>8. CASE ReadOwner(r)
  <2>1. stage' \in [Request -> Stages] /\ reply' \in [Request -> Replies]
    BY <1>2, <1>8, StageAndReplyType DEF ReadOwner, Stages, MoveStages
  <2>2. assets[move[r].asset].owner \in User \cup {None}
    BY <1>1, <1>4 DEF StoreTypeOK, Rows
  <2>3. local' \in [Request -> Locals]
    BY <1>8, <2>2 DEF ReadOwner, Locals
  <2> QED
    BY <1>5, <1>8, <2>1, <2>3 DEF ReadOwner, Quiet
<1>9. CASE ReadDevice(r)
  <2>1. stage' \in [Request -> Stages] /\ reply' \in [Request -> Replies]
    BY <1>2, <1>9, StageAndReplyType DEF ReadDevice, Stages, MoveStages
  <2> QED
    BY <1>5, <1>9, <2>1 DEF ReadDevice, Quiet
<1>10. CASE Tap(r)
  <2>1. stage' \in [Request -> Stages] /\ reply' \in [Request -> Replies]
    BY <1>2, <1>10, StageAndReplyType DEF Tap, Stages, MoveStages
  <2> DEFINE a == move[r].asset
             card == [type |-> devices[a].type, ctr |-> move[r].ctr]
  <2>4. a \in Asset /\ devices[a] \in Devices /\ card \in Devices
    BY <1>1 DEF Devices, AllMoves
  <2>5. devices' = [devices EXCEPT ![a] = card] \/ devices' = devices
    BY <1>10, <2>4 DEF Tap, Devices
  <2>2. devices' \in [Asset -> Devices]
    BY <2>4, <2>5
  <2>3. TypeOK'
    BY <1>4, <1>10 DEF Tap, TypeOK, StoreTypeOK
  <2> QED
    BY <1>10, <2>1, <2>2, <2>3 DEF Tap
<1>11. CASE GiveAway(r)
  <2>1. stage' \in [Request -> Stages] /\ reply' \in [Request -> Replies]
    BY <1>2, <1>11, StageAndReplyType DEF GiveAway, Stages, MoveStages
  <2>2. local[r].current \in OptState /\ "Transferred" \in AssetState
    BY DEF Locals, OptState, AssetState, LiveStates, SoldStates
  <2>3. assets' \in [Asset -> Rows] /\ version' \in [Asset -> Nat] /\ events' = events
    BY <1>1, <1>4, <1>11, <2>2 DEF GiveAway, StoreTypeOK, Rows
  <2>4. TypeOK'
    BY <1>4, <2>3 DEF TypeOK, StoreTypeOK
  <2> QED
    BY <1>11, <2>1, <2>3, <2>4 DEF GiveAway
<1>12. CASE InsertTransfer(r)
  <2>1. stage' \in [Request -> Stages] /\ reply' \in [Request -> Replies]
    BY <1>2, <1>12, StageAndReplyType DEF InsertTransfer, Stages, MoveStages
  <2>2. local[r].owner \in User
    BY <1>1, <1>12 DEF StageTells, InsertTransfer
  <2>3. transfers' \in Seq(TransferRecords)
    BY <1>1, <1>3, <1>12, <2>2 DEF InsertTransfer, TransferRecords
  <2>4. TypeOK'
    BY <1>4, <1>12 DEF InsertTransfer, TypeOK, StoreTypeOK
  <2> QED
    BY <1>12, <2>1, <2>3, <2>4 DEF InsertTransfer
<1>13. CASE LogTransfer(r)
  <2>1. stage' \in [Request -> Stages] /\ reply' \in [Request -> Replies]
    BY <1>2, <1>13, StageAndReplyType DEF LogTransfer
  <2> DEFINE e == [action |-> "Transfer", from |-> local[r].current, to |-> "Transferred",
                   key |-> move[r].key, by |-> r, at |-> local[r].at]
  <2>2. e \in Events
    BY <1>1 DEF Events, Locals, AllMoves, AssetAction, BusinessActions, AssetState, LiveStates,
               SoldStates
  <2>3. events' = [events EXCEPT ![move[r].asset] = Append(@, e)] \/ events' = events
    BY <1>13 DEF LogTransfer
  <2> HIDE DEF e
  <2>4. events' \in [Asset -> Seq(Events)]
    BY <1>1, <1>4, <2>2, <2>3, LogGrows DEF StoreTypeOK
  <2>5. TypeOK'
    BY <1>4, <1>13, <2>4 DEF LogTransfer, TypeOK, StoreTypeOK
  <2> QED
    BY <1>13, <2>1, <2>5 DEF LogTransfer
<1>14. CASE \E v \in [record : DOMAIN transfers, outcome : Outcomes, actor : User] :
              StartSettlement(r, v)
  <2>1. PICK v \in [record : DOMAIN transfers, outcome : Outcomes, actor : User] :
              StartSettlement(r, v)
    BY <1>14
  <2>2. v \in Settlements
    BY <1>2 DEF Settlements
  <2>3. stage' \in [Request -> Stages] /\ reply' \in [Request -> Replies]
    BY <1>2, <2>1, StageAndReplyType DEF StartSettlement, Stages
  <2> QED
    BY <1>5, <2>1, <2>2, <2>3 DEF StartSettlement, Quiet
<1>15. CASE FindTransfer(r)
  <2>1. stage' \in [Request -> Stages] /\ reply' \in [Request -> Replies]
    BY <1>2, <1>15, StageAndReplyType DEF FindTransfer, Stages
  <2> QED
    BY <1>5, <1>15, <2>1 DEF FindTransfer, Quiet
<1>16. CASE Settle(r)
  <2>1. verdict[r].record \in Nat /\ verdict[r].outcome \in Outcomes
    BY DEF Settlements
  <2>2. stage' \in [Request -> Stages] /\ reply' \in [Request -> Replies]
    BY <1>2, <1>16, <2>1, StageAndReplyType DEF Settle
  <2> DEFINE n == verdict[r].record
             rec == [transfers[n] EXCEPT !.status = verdict[r].outcome]
  <2>5. n \in DOMAIN transfers /\ transfers[n] \in TransferRecords
    BY <1>16 DEF Settle, SettlementsKnow
  <2>6. rec \in TransferRecords
    BY <2>1, <2>5 DEF TransferRecords
  <2>7. transfers' = [transfers EXCEPT ![n] = rec] \/ transfers' = transfers
    BY <1>16, <2>5 DEF Settle
  <2>3. transfers' \in Seq(TransferRecords)
    <3>1. transfers \in Seq(TransferRecords) /\ n \in 1..Len(transfers)
      BY <2>5
    <3> HIDE DEF n, rec, TransferTypeOK
    <3>2. [transfers EXCEPT ![n] = rec] \in Seq(TransferRecords)
      BY <2>6, <3>1, ExceptSeq
    <3> QED
      BY <2>7, <3>1, <3>2
  <2>4. TypeOK'
    BY <1>4, <1>16 DEF Settle, TypeOK, StoreTypeOK
  <2> QED
    BY <1>16, <2>2, <2>3, <2>4 DEF Settle
<1>17. CASE Abandon(r)
  <2>1. stage' \in [Request -> Stages] /\ reply' \in [Request -> Replies]
    BY <1>2, <1>17, StageAndReplyType DEF Abandon
  <2> QED
    BY <1>5, <1>17, <2>1 DEF Abandon, Quiet
<1> QED
  BY <1>6, <1>7, <1>8, <1>9, <1>10, <1>11, <1>12, <1>13, <1>14, <1>15, <1>16, <1>17
     DEF TransferStep

LEMMA ActionStepType ==
    ASSUME TransferTypeOK, NEW r \in Request, ActionStep(r)
    PROVE  TransferTypeOK'
<1> USE DEF TransferTypeOK
<1>1. /\ input[r] \in AllInputs /\ input[r].asset \in Asset /\ read[r] \in Reads
      /\ assets[input[r].asset] \in Rows /\ events[input[r].asset] \in Seq(Events)
  BY DEF TypeOK, StoreTypeOK, AllInputs
<1>2. /\ version' \in [Asset -> Nat] /\ seen' \in [Request -> Nat]
      /\ UNCHANGED <<devices, transfers, stage, move, local, verdict, reply, moved>>
  <2>1. \/ UNCHANGED <<version, seen>>
        \/ /\ seen' = [seen EXCEPT ![r] = version[input[r].asset]]
           /\ UNCHANGED version
        \/ /\ version' = [version EXCEPT ![input[r].asset] = @ + 1]
           /\ UNCHANGED seen
    BY DEF ActionStep
  <2>2. version[input[r].asset] \in Nat /\ version[input[r].asset] + 1 \in Nat
    BY <1>1
  <2>3. version' \in [Asset -> Nat] /\ seen' \in [Request -> Nat]
    BY <1>1, <2>1, <2>2
  <2> QED
    BY <2>3 DEF ActionStep
<1>3. \A status \in Status, n \in Nat : Answer(r, status, n) =>
         pc' \in [Request -> Stage] /\ answer' \in [Request -> Answers]
  BY AnswerType
<1>4. /\ {"Ok", "IdempotencyConflict", "InvalidInput", "Database"} \subseteq Status
      /\ {"load", "fetch", "persist"} \subseteq Stage /\ 0 \in Nat
  BY DEF Status, Stage
<1>5. ASSUME UNCHANGED storeVars,
             pc' \in [Request -> Stage] /\ answer' \in [Request -> Answers],
             input' \in [Request -> AllInputs], read' \in [Request -> Reads],
             fresh' \in [Request -> BOOLEAN]
      PROVE  TypeOK'
  BY <1>5 DEF TypeOK, StoreTypeOK, storeVars
<1>6. CASE \E i \in Inputs : Receive(r, i)
  <2>1. PICK i \in Inputs : Receive(r, i)
    BY <1>6
  <2>2. i \in AllInputs
    BY InputsAssumption
  <2>3. pc' \in [Request -> Stage] /\ answer' \in [Request -> Answers]
    BY <1>3, <1>4, <2>1 DEF Receive, TypeOK
  <2>4. input' \in [Request -> AllInputs] /\ fresh' \in [Request -> BOOLEAN]
    BY <2>1, <2>2 DEF Receive, TypeOK
  <2> QED
    BY <1>2, <1>5, <2>1, <2>3, <2>4 DEF Receive, TypeOK
<1>7. CASE LoadMiss(r)
  <2>1. pc' \in [Request -> Stage]
    BY <1>4, <1>7 DEF LoadMiss, TypeOK
  <2> QED
    BY <1>2, <1>5, <1>7, <2>1 DEF LoadMiss, TypeOK
<1>8. CASE LoadHit(r)
  <2>1. PICK rec \in RecordsOf(input[r].key) :
           IF rec.hash = RequestHash(input[r])
           THEN Answer(r, "Ok", rec.event) ELSE Answer(r, "IdempotencyConflict", 0)
    BY <1>8 DEF LoadHit
  <2>2. rec.event \in Nat
    BY DEF RecordsOf, TypeOK, StoreTypeOK, IdempotencyRecords
  <2>3. pc' \in [Request -> Stage] /\ answer' \in [Request -> Answers]
    BY <1>3, <1>4, <2>1, <2>2
  <2> QED
    BY <1>2, <1>5, <1>8, <2>3 DEF LoadHit, TypeOK
<1>9. CASE Fail(r)
  <2>1. pc' \in [Request -> Stage] /\ answer' \in [Request -> Answers]
    BY <1>3, <1>4, <1>9 DEF Fail
  <2> QED
    BY <1>2, <1>5, <1>9, <2>1 DEF Fail, TypeOK
<1>10. CASE Fetch(r)
  <2> DEFINE rec == FetchAsset(input[r].asset, input[r].previous)
             status == ApplyStatus(rec, input[r].action, input[r])
  <2>1. rec \in Reads
    BY <1>1 DEF FetchAsset, Reads, Rows, AllInputs
  <2>2. status \in Status
    BY DEF ApplyStatus, Status
  <2>3. pc' \in [Request -> Stage] /\ answer' \in [Request -> Answers]
    <3>1. (pc' = [pc EXCEPT ![r] = "persist"] /\ UNCHANGED answer) \/ Answer(r, status, 0)
      BY <1>10 DEF Fetch
    <3> HIDE DEF status
    <3> QED
      BY <1>3, <1>4, <2>2, <3>1 DEF TypeOK
  <2>4. read' \in [Request -> Reads]
    <3>1. read' = [read EXCEPT ![r] = rec]
      BY <1>10 DEF Fetch
    <3> HIDE DEF rec
    <3> QED
      BY <2>1, <3>1 DEF TypeOK
  <2> QED
    BY <1>2, <1>5, <1>10, <2>3, <2>4 DEF Fetch, TypeOK
<1>11. CASE Persist(r)
  <2> DEFINE a == input[r].asset
  <2>1. PICK target \in AssetState :
           PersistAction(a, EventOf(r, target), RequestHash(input[r]), input[r].buyer,
                         input[r].actor)
    BY <1>11 DEF Persist
  <2> DEFINE e == EventOf(r, target)
  <2>2. e \in Events
    BY <1>1 DEF EventOf, Events, Reads, AllInputs, HandledActions
  <2>3. events' \in [Asset -> Seq(Events)] /\ Len(events'[a]) \in Nat
    <3>1. events' = [events EXCEPT ![a] = Append(@, e)] /\ origin' = origin
      BY <2>1 DEF PersistAction
    <3> HIDE DEF e, a
    <3>2. a \in Asset
      BY <1>1 DEF a
    <3>3. events' \in [Asset -> Seq(Events)]
      BY <2>2, <3>1, <3>2, LogGrows
    <3> QED
      BY <3>2, <3>3
  <2>4. assets' \in [Asset -> Rows]
    <3> DEFINE row == [current |-> target, previous |-> PreviousAfter(read[r].current, target),
                       owner |-> OwnerAfter(input[r].action, assets[a].owner, input[r].buyer,
                                            input[r].actor)]
    <3>1. row \in Rows
      BY <1>1 DEF Rows, PreviousAfter, OptState, Reads, OwnerAfter, AllInputs
    <3>2. assets' = [assets EXCEPT ![a] = row]
      BY <1>1, <2>1 DEF PersistAction, UpdateAsset, EventOf, TypeOK, StoreTypeOK
    <3> HIDE DEF row
    <3> QED
      BY <3>1, <3>2 DEF TypeOK, StoreTypeOK
  <2>5. idempotency' \subseteq IdempotencyRecords
    <3>1. RequestHash(input[r]) \in Hashes
      BY <1>1 DEF RequestHash, Hashes, AllInputs, HandledActions
    <3>2. Len(events[a]) + 1 \in Nat /\ e.key \in Key
      BY <1>1, <2>2 DEF Events
    <3>3. InsertIdempotency(e.key, RequestHash(input[r]), Len(events[a]) + 1)
      BY <2>1 DEF PersistAction
    <3> HIDE DEF e
    <3> QED
      BY <3>1, <3>2, <3>3 DEF InsertIdempotency, IdempotencyRecords, TypeOK, StoreTypeOK
  <2>6. pc' \in [Request -> Stage] /\ answer' \in [Request -> Answers]
    BY <1>3, <1>4, <1>11, <2>3 DEF Persist
  <2>7. origin' = origin /\ UNCHANGED <<input, read, fresh>>
    BY <1>11, <2>1 DEF Persist, PersistAction
  <2> QED
    BY <1>2, <2>3, <2>4, <2>5, <2>6, <2>7 DEF TypeOK, StoreTypeOK
<1> QED
  BY <1>6, <1>7, <1>8, <1>9, <1>10, <1>11 DEF ActionStep

(***************************************************************************)
(* An asset action touches no local of a transfer, and of the actions only *)
(* its own.                                                                *)
(***************************************************************************)
LEMMA ActionFrame ==
    ASSUME TransferTypeOK, NEW r \in Request, ActionStep(r)
    PROVE  /\ UNCHANGED <<devices, transfers, stage, move, local, verdict, reply, moved>>
           /\ pc[r] = "idle" => stage[r] = "idle"
           /\ \A q \in Request \ {r} : /\ pc'[q] = pc[q] /\ input'[q] = input[q]
                                       /\ read'[q] = read[q] /\ seen'[q] = seen[q]
<1> USE DEF TransferTypeOK, TypeOK, Answer
<1>1. UNCHANGED <<devices, transfers, stage, move, local, verdict, reply, moved>>
  BY DEF ActionStep
<1>2. CASE stage[r] = "idle" /\ \E i \in Inputs : Receive(r, i) /\ UNCHANGED <<version, seen>>
  BY <1>1, <1>2 DEF Receive
<1>3. CASE (LoadMiss(r) \/ LoadHit(r) \/ Fail(r)) /\ UNCHANGED <<version, seen>>
  BY <1>1, <1>3 DEF LoadMiss, LoadHit, Fail, InFlight
<1>4. CASE Fetch(r) /\ seen' = [seen EXCEPT ![r] = version[input[r].asset]]
  BY <1>1, <1>4 DEF Fetch
<1>5. CASE Persist(r) /\ UNCHANGED seen
  BY <1>1, <1>5 DEF Persist
<1> QED
  BY <1>2, <1>3, <1>4, <1>5 DEF ActionStep

LEMMA OneRoleKept ==
    ASSUME TransferTypeOK, OneRole, NEW r \in Request, TransferStep(r) \/ ActionStep(r)
    PROVE  OneRole'
<1>1. CASE ActionStep(r)
  BY <1>1, ActionFrame DEF OneRole
<1>2. CASE TransferStep(r)
  <2>1. pc' = pc /\ \A q \in Request \ {r} : stage'[q] = stage[q]
    BY <1>2, OthersKept DEF reqVars
  <2>2. pc[r] = "idle" \/ stage[r] # "idle"
    BY <1>2 DEF TransferStep, StartTransfer, ReadAsset, ReadOwner, ReadDevice, Tap, GiveAway,
                InsertTransfer, LogTransfer, StartSettlement, FindTransfer, Settle, Abandon,
                MoveStages
  <2>3. pc[r] = "idle"
    <3>1. CASE stage[r] # "idle"
      BY <3>1 DEF OneRole
    <3>2. CASE stage[r] = "idle"
      BY <2>2, <3>2
    <3> QED
      BY <3>1, <3>2
  <2> QED
    BY <2>1, <2>3 DEF OneRole
<1> QED
  BY <1>1, <1>2

LEMMA StageTellsKept ==
    ASSUME TransferTypeOK, StageTells, NEW r \in Request, TransferStep(r) \/ ActionStep(r)
    PROVE  StageTells'
<1> DEFINE Tells(q) ==
              /\ stage[q] \in {"insert", "log"} => q \in moved
              /\ q \in moved => stage[q] \in {"insert", "log", "done"}
              /\ reply[q].status = "Ok" => stage[q] = "done"
              /\ stage[q] \in {"owner", "device", "tap", "give"} =>
                    local[q].current \in SoldStates
              /\ stage[q] \in {"device", "tap", "give", "insert"} =>
                    local[q].owner = move[q].actor
<1>1. CASE ActionStep(r)
  BY <1>1, ActionFrame DEF StageTells
<1>2. CASE TransferStep(r)
  <2>1. /\ \A q \in Request \ {r} :
              /\ stage'[q] = stage[q] /\ move'[q] = move[q] /\ local'[q] = local[q]
              /\ reply'[q] = reply[q]
    BY <1>2, OthersKept
  <2>2. moved' \subseteq moved \cup {r} /\ moved \subseteq moved'
    BY <1>2 DEF TransferStep, StartTransfer, ReadAsset, ReadOwner, ReadDevice, Tap, GiveAway,
                InsertTransfer, LogTransfer, StartSettlement, FindTransfer, Settle, Abandon
  <2>3. \A q \in Request \ {r} : Tells(q)'
    BY <2>1, <2>2 DEF StageTells
  <2>4. Tells(r)
    BY DEF StageTells
  <2>5. Tells(r)'
    <3> USE DEF TransferTypeOK, Goto, Reply
    <3>1. CASE \E m \in Moves : StartTransfer(r, m)
      BY <2>4, <3>1 DEF StartTransfer
    <3>2. CASE ReadAsset(r)
      BY <2>4, <3>2 DEF ReadAsset, Locals
    <3>3. CASE ReadOwner(r)
      BY <2>4, <3>3 DEF ReadOwner, Locals
    <3>4. CASE ReadDevice(r)
      BY <2>4, <3>4 DEF ReadDevice
    <3>5. CASE Tap(r)
      BY <2>4, <3>5 DEF Tap
    <3>6. CASE GiveAway(r)
      BY <2>4, <3>6 DEF GiveAway
    <3>7. CASE InsertTransfer(r)
      BY <2>4, <3>7 DEF InsertTransfer
    <3>8. CASE LogTransfer(r)
      BY <2>4, <3>8 DEF LogTransfer
    <3>9. CASE \E v \in [record : DOMAIN transfers, outcome : Outcomes, actor : User] :
                  StartSettlement(r, v)
      BY <2>4, <3>9 DEF StartSettlement
    <3>10. CASE FindTransfer(r)
      BY <2>4, <3>10 DEF FindTransfer
    <3>11. CASE Settle(r)
      BY <2>4, <3>11 DEF Settle
    <3>12. CASE Abandon(r)
      BY <2>4, <3>12 DEF Abandon
    <3> QED
      BY <1>2, <3>1, <3>2, <3>3, <3>4, <3>5, <3>6, <3>7, <3>8, <3>9, <3>10, <3>11, <3>12
         DEF TransferStep
  <2> QED
    BY <2>3, <2>5 DEF StageTells
<1> QED
  BY <1>1, <1>2

(***************************************************************************)
(* The tap: authorised counters stay below the card's and apart.           *)
(***************************************************************************)
LEMMA TapsAreSpentKept ==
    ASSUME TransferTypeOK, StageTells, TapsAreSpent, NEW r \in Request,
           TransferStep(r) \/ ActionStep(r)
    PROVE  TapsAreSpent'
<1>1. CASE ActionStep(r)
  BY <1>1, ActionFrame DEF TapsAreSpent, Authorised
<1>2. CASE TransferStep(r)
  <2>1. /\ \A q \in Request \ {r} : stage'[q] = stage[q] /\ move'[q] = move[q]
        /\ \A q \in Request : move[q] \in AllMoves /\ move[q].asset \in Asset
                            /\ move[q].ctr \in Int
    BY <1>2, OthersKept DEF TransferTypeOK, AllMoves, Ctr
  <2>2. CASE ~Tap(r)
    <3>1. /\ devices' = devices
          /\ \A q \in Request \ {r} : q \in moved' => q \in moved
      BY <1>2, <2>2 DEF TransferStep, StartTransfer, ReadAsset, ReadOwner, ReadDevice, GiveAway,
                InsertTransfer, LogTransfer, StartSettlement, FindTransfer, Settle, Abandon
    <3>2. ~Authorised(r)' \/ (Authorised(r) /\ move'[r] = move[r])
              \/ devices[move'[r].asset].type # "PHYSICAL_NFC"
      <4> USE DEF TransferTypeOK, Goto, Reply, Authorised
      <4>1. CASE \E m \in Moves : StartTransfer(r, m)
        BY <4>1 DEF StartTransfer, StageTells
      <4>2. CASE ReadAsset(r) \/ ReadOwner(r)
        BY <4>2 DEF ReadAsset, ReadOwner, StageTells
      <4>3. CASE ReadDevice(r)
        BY <4>3 DEF ReadDevice, StageTells
      <4>4. CASE GiveAway(r)
        BY <4>4 DEF GiveAway
      <4>5. CASE InsertTransfer(r) \/ LogTransfer(r)
        BY <4>5 DEF InsertTransfer, LogTransfer, StageTells
      <4>6. CASE \/ FindTransfer(r) \/ Settle(r) \/ Abandon(r)
                 \/ \E v \in [record : DOMAIN transfers, outcome : Outcomes, actor : User] :
                       StartSettlement(r, v)
        BY <4>6 DEF StartSettlement, FindTransfer, Settle, Abandon, StageTells
      <4> QED
        BY <1>2, <2>2, <4>1, <4>2, <4>3, <4>4, <4>5, <4>6 DEF TransferStep
    <3> QED
      BY <2>1, <3>1, <3>2 DEF TapsAreSpent, Authorised
  <2>3. CASE Tap(r)
    <3> DEFINE a == move[r].asset
               c == move[r].ctr
    <3>1. /\ stage[r] = "tap" /\ r \notin moved
          /\ move' = move /\ moved' = moved
          /\ a \in Asset
      BY <2>1, <2>3 DEF Tap, StageTells
    <3>2. CASE stage'[r] # "give"
      <4>1. \A q \in Request : Authorised(q)' => Authorised(q)
        BY <2>1, <3>1, <3>2 DEF Authorised
      <4>3. \A b \in Asset : devices[b].ctr \in Int /\ devices[b] \in Devices
        BY DEF TransferTypeOK, Devices, Ctr, NoCtr
      <4>4. c \in Int
        BY <2>1
      <4>5. \/ devices' = devices
            \/ c > devices[a].ctr /\ devices' = [devices EXCEPT ![a].ctr = c]
        BY <2>3 DEF Tap
      <4>2. \A b \in Asset : /\ devices'[b].type = devices[b].type
                             /\ devices'[b].ctr \in Int
                             /\ devices'[b].ctr >= devices[b].ctr
        <5> HIDE DEF a, c
        <5>1. CASE devices' = devices
          BY <4>3, <5>1
        <5>2. CASE c > devices[a].ctr /\ devices' = [devices EXCEPT ![a].ctr = c]
          <6>1. devices'[a].type = devices[a].type /\ devices'[a].ctr = c
            BY <3>1, <4>3, <5>2 DEF TransferTypeOK, Devices
          <6>2. \A b \in Asset \ {a} : devices'[b] = devices[b]
            BY <5>2 DEF TransferTypeOK
          <6>3. c >= devices[a].ctr
            BY <3>1, <4>3, <4>4, <5>2
          <6>4. \A b \in Asset \ {a} : devices[b].ctr >= devices[b].ctr
            BY <4>3
          <6> QED
            BY <3>1, <4>3, <4>4, <6>1, <6>2, <6>3, <6>4
        <5> QED
          BY <4>5, <5>1, <5>2
      <4> QED
        BY <2>1, <3>1, <4>1, <4>2, <4>3 DEF TapsAreSpent
    <3>3. CASE stage'[r] = "give"
      <4>1. c > devices[a].ctr /\ devices' = [devices EXCEPT ![a].ctr = c]
        BY <2>3, <3>3 DEF Tap, Reply, TransferTypeOK
      <4>2. /\ \A b \in Asset : devices'[b].type = devices[b].type
            /\ devices'[a].ctr = c
            /\ \A b \in Asset \ {a} : devices'[b] = devices[b]
            /\ \A b \in Asset : devices[b].ctr \in Int
        BY <3>1, <4>1 DEF TransferTypeOK, Devices, Ctr, NoCtr
      <4>3. \A q \in Request \ {r} : Authorised(q)' => Authorised(q)
        BY <2>1, <3>1 DEF Authorised
      <4>4. \A q \in Request \ {r} :
               Authorised(q) /\ move[q].asset = a /\ devices[a].type = "PHYSICAL_NFC"
               => move[q].ctr <= devices[a].ctr
        BY <3>1 DEF TapsAreSpent
      <4>5. c \in Int
        BY <2>1
      <4> HIDE DEF a, c
      <4>6. \A q \in Request \ {r} :
               Authorised(q) /\ move[q].asset = a /\ devices[a].type = "PHYSICAL_NFC"
               => move[q].ctr < c
        BY <2>1, <3>1, <4>1, <4>2, <4>4, <4>5
      <4>7. \A p, q \in Request \ {r} :
               /\ Authorised(p) /\ Authorised(q) /\ move[p].asset = move[q].asset
               /\ devices[move[p].asset].type = "PHYSICAL_NFC"
               => /\ move[p].ctr <= devices'[move[p].asset].ctr
                  /\ move[p].ctr = move[q].ctr => p = q
        <5> TAKE p, q \in Request \ {r}
        <5> HAVE /\ Authorised(p) /\ Authorised(q) /\ move[p].asset = move[q].asset
                 /\ devices[move[p].asset].type = "PHYSICAL_NFC"
        <5>1. /\ move[p].ctr <= devices[move[p].asset].ctr
              /\ move[p].ctr = move[q].ctr => p = q
          BY DEF TapsAreSpent
        <5>2. move[p].asset = a => move[p].ctr <= devices'[a].ctr
          BY <2>1, <4>2, <4>5, <4>6
        <5>3. move[p].asset # a => devices'[move[p].asset] = devices[move[p].asset]
          BY <2>1, <4>2
        <5> QED
          BY <5>1, <5>2, <5>3
      <4>8. move[r].asset = a /\ move[r].ctr = c /\ c <= c
        BY <4>5 DEF a, c
      <4> QED
        BY <2>1, <3>1, <4>2, <4>3, <4>5, <4>6, <4>7, <4>8 DEF TapsAreSpent
    <3> QED
      BY <3>2, <3>3
  <2> QED
    BY <2>2, <2>3
<1> QED
  BY <1>1, <1>2

(***************************************************************************)
(* The records: they only grow in number, and change only in status, from  *)
(* pending, by a settlement.                                               *)
(***************************************************************************)
LEMMA TransfersGrow ==
    ASSUME TransferTypeOK, SettlementsKnow, NEW r \in Request, TransferStep(r)
    PROVE  /\ \A n \in DOMAIN transfers :
                 /\ n \in DOMAIN transfers'
                 /\ transfers'[n].asset = transfers[n].asset
                 /\ transfers'[n].from = transfers[n].from
                 /\ transfers'[n].to = transfers[n].to
                 /\ transfers'[n].by = transfers[n].by
                 /\ \/ transfers'[n].status = transfers[n].status
                    \/ /\ Settle(r) /\ transfers[n].status = "pending"
                       /\ n = verdict[r].record
                       /\ transfers'[n].status = verdict[r].outcome
           /\ \A n \in DOMAIN transfers' \ DOMAIN transfers :
                 /\ InsertTransfer(r) /\ n = Len(transfers) + 1
                 /\ transfers'[n] = [asset |-> move[r].asset, from |-> local[r].owner,
                                     to |-> move[r].to, status |-> "pending", by |-> r]
<1>1. transfers \in Seq(TransferRecords)
  BY DEF TransferTypeOK
<1>2. CASE transfers' = transfers
  BY <1>2
<1>3. CASE InsertTransfer(r)
  <2> DEFINE rec == [asset |-> move[r].asset, from |-> local[r].owner, to |-> move[r].to,
                     status |-> "pending", by |-> r]
  <2>1. transfers' = Append(transfers, rec)
    BY <1>3 DEF InsertTransfer
  <2> HIDE DEF rec
  <2>2. /\ DOMAIN transfers' = 1..(Len(transfers) + 1)
        /\ \A n \in DOMAIN transfers : transfers'[n] = transfers[n]
        /\ transfers'[Len(transfers) + 1] = rec
    BY <1>1, <2>1
  <2>3. /\ DOMAIN transfers = 1..Len(transfers) /\ Len(transfers) \in Nat
        /\ \A n \in 1..(Len(transfers) + 1) :
              n \in 1..Len(transfers) \/ n = Len(transfers) + 1
        /\ 1..Len(transfers) \subseteq 1..(Len(transfers) + 1)
    BY <1>1
  <2> QED
    BY <1>3, <2>2, <2>3 DEF rec
<1>4. CASE Settle(r) /\ transfers' # transfers
  <2> DEFINE k == verdict[r].record
  <2>1. /\ k \in DOMAIN transfers /\ transfers[k].status = "pending"
        /\ transfers' = [transfers EXCEPT ![k].status = verdict[r].outcome]
    BY <1>4 DEF Settle, SettlementsKnow
  <2>2. /\ DOMAIN transfers' = DOMAIN transfers
        /\ transfers[k] \in TransferRecords
        /\ \A n \in DOMAIN transfers \ {k} : transfers'[n] = transfers[n]
        /\ transfers'[k] = [transfers[k] EXCEPT !.status = verdict[r].outcome]
    BY <1>1, <2>1
  <2>3. /\ transfers'[k].asset = transfers[k].asset /\ transfers'[k].from = transfers[k].from
        /\ transfers'[k].to = transfers[k].to /\ transfers'[k].by = transfers[k].by
        /\ transfers'[k].status = verdict[r].outcome
    BY <2>2 DEF TransferRecords
  <2> QED
    BY <1>4, <2>1, <2>2, <2>3
<1> QED
  BY <1>2, <1>3, <1>4 DEF TransferStep, StartTransfer, ReadAsset, ReadOwner, ReadDevice, Tap,
        GiveAway, LogTransfer, StartSettlement, FindTransfer, Abandon, tableVars

LEMMA RecordsKept ==
    ASSUME TransferTypeOK, StageTells, SettlementsKnow, RecordsAreBacked, WritersAreDone,
           NEW r \in Request, TransferStep(r) \/ ActionStep(r)
    PROVE  RecordsAreBacked' /\ WritersAreDone'
<1>1. CASE ActionStep(r)
  BY <1>1, ActionFrame DEF RecordsAreBacked, WritersAreDone
<1>2. CASE TransferStep(r)
  <2>1. /\ \A q \in Request \ {r} : stage'[q] = stage[q] /\ move'[q] = move[q]
                                   /\ reply'[q] = reply[q]
        /\ \A n \in DOMAIN transfers : transfers[n].by \in Request
    <3>1. \A n \in DOMAIN transfers : transfers[n].by \in Request
      <4>1. \A n \in DOMAIN transfers : transfers[n] \in TransferRecords
        BY DEF TransferTypeOK
      <4> QED
        BY <4>1 DEF TransferRecords
    <3> QED
      BY <1>2, <3>1, OthersKept
  <2>2. moved \subseteq moved' /\ moved' \subseteq moved \cup {r}
    BY <1>2 DEF TransferStep, StartTransfer, ReadAsset, ReadOwner, ReadDevice, Tap, GiveAway,
                InsertTransfer, LogTransfer, StartSettlement, FindTransfer, Settle, Abandon
  <2>3. \/ stage'[r] \in {"log", "done"} /\ move' = move
        \/ r \notin moved
    <3> USE DEF TransferTypeOK, Goto, Reply
    <3>1. CASE stage[r] \notin {"insert", "log", "done"}
      BY <3>1 DEF StageTells
    <3>2. CASE stage[r] \in {"insert", "log", "done"}
      <4>1. InsertTransfer(r) \/ LogTransfer(r) \/ Abandon(r)
        BY <1>2, <3>2 DEF TransferStep, StartTransfer, ReadAsset, ReadOwner, ReadDevice, Tap,
              GiveAway, StartSettlement, FindTransfer, Settle
      <4> QED
        BY <4>1 DEF InsertTransfer, LogTransfer, Abandon
    <3> QED
      BY <3>1, <3>2
  <2>4. InsertTransfer(r) =>
           /\ r \in moved /\ local[r].owner = move[r].actor /\ stage'[r] \in {"log", "done"}
           /\ move' = move
           /\ \A n \in DOMAIN transfers : transfers[n].by # r
    BY DEF InsertTransfer, StageTells, WritersAreDone, Goto, Reply, TransferTypeOK
  <2>5. WritersAreDone'
    <3> SUFFICES ASSUME NEW n \in DOMAIN transfers'
                 PROVE  stage'[transfers'[n].by] \in {"log", "done"}
      BY DEF WritersAreDone
    <3>1. CASE n \in DOMAIN transfers
      <4>1. transfers'[n].by = transfers[n].by /\ transfers[n].by \in moved
        BY <1>2, <3>1, TransfersGrow DEF RecordsAreBacked
      <4>2. stage[transfers[n].by] \in {"log", "done"}
        BY <3>1 DEF WritersAreDone
      <4> QED
        BY <2>1, <2>3, <3>1, <4>1, <4>2
    <3>2. CASE n \notin DOMAIN transfers
      BY <1>2, <2>4, <3>2, TransfersGrow
    <3> QED
      BY <3>1, <3>2
  <2>6. ASSUME NEW n \in DOMAIN transfers'
        PROVE  /\ transfers'[n].by \in moved'
               /\ transfers'[n].asset = move'[transfers'[n].by].asset
               /\ transfers'[n].from = move'[transfers'[n].by].actor
               /\ transfers'[n].to = move'[transfers'[n].by].to
               /\ \A k \in DOMAIN transfers' : transfers'[k].by = transfers'[n].by => k = n
    <3>1. CASE n \in DOMAIN transfers
      <4>1. /\ transfers'[n].asset = transfers[n].asset /\ transfers'[n].from = transfers[n].from
            /\ transfers'[n].to = transfers[n].to /\ transfers'[n].by = transfers[n].by
        BY <1>2, <3>1, TransfersGrow
      <4>2. /\ transfers[n].by \in moved
            /\ transfers[n].asset = move[transfers[n].by].asset
            /\ transfers[n].from = move[transfers[n].by].actor
            /\ transfers[n].to = move[transfers[n].by].to
            /\ \A k \in DOMAIN transfers : transfers[k].by = transfers[n].by => k = n
        BY <3>1 DEF RecordsAreBacked
      <4>3. move'[transfers[n].by] = move[transfers[n].by]
        BY <2>1, <2>3, <3>1, <4>2
      <4>4. \A k \in DOMAIN transfers' : transfers'[k].by = transfers[n].by => k = n
        <5> TAKE k \in DOMAIN transfers'
        <5>1. CASE k \in DOMAIN transfers
          BY <1>2, <4>2, <5>1, TransfersGrow
        <5>2. CASE k \notin DOMAIN transfers
          BY <1>2, <2>4, <3>1, <5>2, TransfersGrow
        <5> QED
          BY <5>1, <5>2
      <4> QED
        BY <2>2, <4>1, <4>2, <4>3, <4>4
    <3>2. CASE n \notin DOMAIN transfers
      <4>1. /\ InsertTransfer(r) /\ n = Len(transfers) + 1
            /\ transfers'[n] = [asset |-> move[r].asset, from |-> local[r].owner,
                                to |-> move[r].to, status |-> "pending", by |-> r]
        BY <1>2, <3>2, TransfersGrow
      <4>2. \A k \in DOMAIN transfers' : transfers'[k].by = r => k = n
        <5> TAKE k \in DOMAIN transfers'
        <5>1. CASE k \in DOMAIN transfers
          BY <1>2, <2>4, <4>1, <5>1, TransfersGrow
        <5>2. CASE k \notin DOMAIN transfers
          BY <1>2, <4>1, <5>2, TransfersGrow
        <5> QED
          BY <5>1, <5>2
      <4> QED
        BY <2>2, <2>4, <4>1, <4>2
    <3> QED
      BY <3>1, <3>2
  <2>7. \A q \in moved' : reply'[q].status = "Ok" =>
           reply'[q].record \in DOMAIN transfers' /\ transfers'[reply'[q].record].by = q
    <3> SUFFICES ASSUME NEW q \in moved', reply'[q].status = "Ok"
                 PROVE  /\ reply'[q].record \in DOMAIN transfers'
                        /\ transfers'[reply'[q].record].by = q
      OBVIOUS
    <3>1. q \in Request
      BY <2>2 DEF TransferTypeOK
    <3>2. CASE reply'[q] = reply[q]
      <4>1. q \in moved
        <5>1. CASE q # r
          BY <2>2, <5>1
        <5>2. CASE q = r
          <6>1. stage[r] = "done"
            BY <3>2, <5>2 DEF StageTells
          <6> QED
            BY <1>2, <6>1 DEF TransferStep, StartTransfer, ReadAsset, ReadOwner, ReadDevice, Tap,
                  GiveAway, InsertTransfer, LogTransfer, StartSettlement, FindTransfer, Settle,
                  Abandon, MoveStages
        <5> QED
          BY <5>1, <5>2
      <4>2. reply[q].record \in DOMAIN transfers /\ transfers[reply[q].record].by = q
        BY <3>2, <4>1 DEF RecordsAreBacked
      <4> QED
        BY <1>2, <3>2, <4>2, TransfersGrow
    <3>3. CASE reply'[q] # reply[q]
      <4>1. q = r
        BY <2>1, <3>1, <3>3
      <4>2. LogTransfer(r)
        <5> USE DEF TransferTypeOK, Goto, Reply, Replies
        <5>1. CASE Settle(r)
          BY <2>2, <4>1, <5>1 DEF Settle, StageTells
        <5>2. ASSUME NEW m \in Moves, StartTransfer(r, m) PROVE LogTransfer(r)
          BY <3>3, <4>1, <5>2 DEF StartTransfer
        <5>3. CASE ReadAsset(r) \/ ReadOwner(r) \/ ReadDevice(r) \/ Tap(r)
          BY <3>3, <4>1, <5>3 DEF ReadAsset, ReadOwner, ReadDevice, Tap
        <5>4. CASE GiveAway(r) \/ InsertTransfer(r) \/ FindTransfer(r) \/ Abandon(r)
          BY <3>3, <4>1, <5>4 DEF GiveAway, InsertTransfer, FindTransfer, Abandon
        <5>5. ASSUME NEW v, StartSettlement(r, v) PROVE LogTransfer(r)
          BY <3>3, <4>1, <5>5 DEF StartSettlement
        <5> QED
          BY <1>2, <5>1, <5>2, <5>3, <5>4, <5>5 DEF TransferStep
      <4>3. PICK n \in DOMAIN transfers : transfers[n].by = r /\ reply'[r].record = n
        BY <4>1, <4>2 DEF LogTransfer, Reply, TransferTypeOK
      <4> QED
        BY <1>2, <4>1, <4>3, TransfersGrow
    <3> QED
      BY <3>2, <3>3
  <2> QED
    BY <2>5, <2>6, <2>7 DEF RecordsAreBacked
<1> QED
  BY <1>1, <1>2

(***************************************************************************)
(* The settlements.                                                        *)
(***************************************************************************)
LEMMA SettlementsKept ==
    ASSUME TransferTypeOK, StageTells, SettlementsKnow, SettledAsAnswered,
           NEW r \in Request, TransferStep(r) \/ ActionStep(r)
    PROVE  SettlementsKnow' /\ SettledAsAnswered'
<1>1. CASE ActionStep(r)
  BY <1>1, ActionFrame DEF SettlementsKnow, SettledAsAnswered
<1>2. CASE TransferStep(r)
  <2>1. \A q \in Request \ {r} : stage'[q] = stage[q] /\ verdict'[q] = verdict[q]
                                /\ reply'[q] = reply[q] /\ (q \in moved' <=> q \in moved)
    <3>1. moved \subseteq moved' /\ moved' \subseteq moved \cup {r}
      BY <1>2 DEF TransferStep, StartTransfer, ReadAsset, ReadOwner, ReadDevice, Tap, GiveAway,
                  InsertTransfer, LogTransfer, StartSettlement, FindTransfer, Settle, Abandon
    <3> QED
      BY <1>2, <3>1, OthersKept
  <2>2. \A n \in DOMAIN transfers :
           n \in DOMAIN transfers' /\ transfers'[n].to = transfers[n].to
    BY <1>2, TransfersGrow
  <2>3. \A q \in Request \ {r} :
           /\ stage'[q] \in {"find", "settle"} => verdict'[q].record \in DOMAIN transfers'
           /\ stage'[q] = "settle" => verdict'[q].actor = transfers'[verdict'[q].record].to
           /\ reply'[q].status = "Ok" /\ q \notin moved' =>
                 reply'[q].record \in DOMAIN transfers'
    BY <2>1, <2>2 DEF SettlementsKnow
  <2>4. /\ stage'[r] = "find" => verdict'[r].record \in DOMAIN transfers'
        /\ stage'[r] = "settle" => /\ verdict'[r].record \in DOMAIN transfers'
                                  /\ verdict'[r].actor = transfers'[verdict'[r].record].to
    <3> USE DEF TransferTypeOK, Goto, Reply
    <3>1. CASE \E v \in [record : DOMAIN transfers, outcome : Outcomes, actor : User] :
                  StartSettlement(r, v)
      BY <3>1 DEF StartSettlement
    <3>2. CASE FindTransfer(r)
      BY <3>2 DEF FindTransfer, SettlementsKnow
    <3>3. CASE stage'[r] \notin {"find", "settle"}
      BY <3>3
    <3> QED
      BY <1>2, <3>1, <3>2, <3>3 DEF TransferStep, StartTransfer, ReadAsset, ReadOwner,
            ReadDevice, Tap, GiveAway, InsertTransfer, LogTransfer, Settle, Abandon
  <2>5. CASE Settle(r) /\ reply'[r].status = "Ok"
    <3> DEFINE n == verdict[r].record
    <3>1. /\ n \in DOMAIN transfers /\ transfers[n].status = "pending"
          /\ verdict' = verdict /\ moved' = moved /\ r \notin moved
          /\ reply'[r].record = n /\ stage'[r] = "done"
          /\ verdict[r].actor = transfers[n].to
      BY <2>5 DEF Settle, SettlementsKnow, StageTells, Reply, TransferTypeOK
    <3>2. transfers'[n].status = verdict[r].outcome
      <4>1. transfers' = [transfers EXCEPT ![n].status = verdict[r].outcome]
        BY <2>5, <3>1 DEF Settle
      <4>2. transfers[n] \in TransferRecords
        BY <3>1 DEF TransferTypeOK
      <4> QED
        BY <3>1, <4>1, <4>2 DEF TransferRecords
    <3>3. \A q \in Request \ {r} : reply[q].status = "Ok" /\ q \notin moved =>
             /\ reply[q].record # n
             /\ transfers'[reply[q].record].status = transfers[reply[q].record].status
      <4> TAKE q \in Request \ {r}
      <4> HAVE reply[q].status = "Ok" /\ q \notin moved
      <4>1. transfers[reply[q].record].status = verdict[q].outcome
        BY DEF SettledAsAnswered
      <4>2. verdict[q].outcome # "pending"
        BY DEF TransferTypeOK, Settlements, Outcomes
      <4>3. reply[q].record \in DOMAIN transfers /\ reply[q].record # n
        BY <3>1, <4>1, <4>2 DEF SettlementsKnow
      <4> QED
        BY <1>2, <4>3, TransfersGrow
    <3>4. \A q \in Request \ {r} : reply'[q].status = "Ok" /\ q \notin moved' =>
             /\ reply'[q].record = verdict'[q].record
             /\ transfers'[reply'[q].record].status = verdict'[q].outcome
             /\ transfers'[reply'[q].record].to = verdict'[q].actor
      BY <2>1, <2>2, <3>3 DEF SettledAsAnswered, SettlementsKnow
    <3>5. SettledAsAnswered'
      BY <2>2, <3>1, <3>2, <3>4 DEF SettledAsAnswered
    <3>6. SettlementsKnow'
      BY <2>2, <2>3, <3>1 DEF SettlementsKnow
    <3> QED
      BY <3>5, <3>6
  <2>6. CASE ~(Settle(r) /\ reply'[r].status = "Ok")
    <3>1. ~(reply'[r].status = "Ok" /\ r \notin moved')
      <4> USE DEF TransferTypeOK, Goto, Reply
      <4>1. CASE LogTransfer(r)
        BY <4>1 DEF LogTransfer, StageTells
      <4>2. CASE reply'[r].status # "Ok"
        BY <4>2
      <4>3. CASE reply' = reply
        BY <1>2, <4>3 DEF StageTells, TransferStep, StartTransfer, ReadAsset, ReadOwner,
              ReadDevice, Tap, GiveAway, InsertTransfer, LogTransfer, StartSettlement,
              FindTransfer, Settle, Abandon, MoveStages
      <4>4. ASSUME NEW m \in Moves, StartTransfer(r, m)
            PROVE  reply'[r].status # "Ok" \/ reply' = reply
        BY <4>4 DEF StartTransfer
      <4>5. CASE ReadAsset(r) \/ ReadOwner(r) \/ ReadDevice(r) \/ Tap(r)
        BY <4>2, <4>3, <4>5 DEF ReadAsset, ReadOwner, ReadDevice, Tap
      <4>6. CASE GiveAway(r) \/ InsertTransfer(r) \/ FindTransfer(r) \/ Abandon(r)
        BY <4>2, <4>3, <4>6 DEF GiveAway, InsertTransfer, FindTransfer, Abandon
      <4>7. ASSUME NEW v, StartSettlement(r, v)
            PROVE  reply'[r].status # "Ok" \/ reply' = reply
        BY <4>7 DEF StartSettlement
      <4> QED
        BY <1>2, <2>6, <4>1, <4>2, <4>3, <4>4, <4>5, <4>6, <4>7 DEF TransferStep
    <3>2. \A q \in Request \ {r} : reply[q].status = "Ok" /\ q \notin moved =>
             transfers'[reply[q].record].status = transfers[reply[q].record].status
      <4> TAKE q \in Request \ {r}
      <4> HAVE reply[q].status = "Ok" /\ q \notin moved
      <4>1. transfers[reply[q].record].status = verdict[q].outcome
        BY DEF SettledAsAnswered
      <4>2. verdict[q].outcome # "pending"
        BY DEF TransferTypeOK, Settlements, Outcomes
      <4>3. reply[q].record \in DOMAIN transfers
        BY DEF SettlementsKnow
      <4> QED
        BY <1>2, <4>1, <4>2, <4>3, TransfersGrow
    <3>3. SettledAsAnswered'
      BY <2>1, <2>2, <3>1, <3>2 DEF SettledAsAnswered, SettlementsKnow
    <3>4. SettlementsKnow'
      BY <2>3, <2>4, <3>1 DEF SettlementsKnow
    <3> QED
      BY <3>3, <3>4
  <2> QED
    BY <2>5, <2>6
<1> QED
  BY <1>1, <1>2

(***************************************************************************)
(* What was read: a row changes only together with its version.            *)
(***************************************************************************)
LEMMA VersionCounts ==
    ASSUME TransferTypeOK, NEW r \in Request, TransferStep(r) \/ ActionStep(r),
           NEW b \in Asset
    PROVE  /\ version[b] \in Nat /\ version'[b] \in Nat
           /\ version[b] <= version'[b]
           /\ version'[b] = version[b] => assets'[b] = assets[b]
<1>1. version \in [Asset -> Nat] /\ assets \in [Asset -> Rows] /\ version[b] \in Nat
  BY DEF TransferTypeOK, TypeOK, StoreTypeOK
<1>2. ASSUME NEW a \in Asset, version' = [version EXCEPT ![a] = @ + 1],
             \A c \in Asset \ {a} : assets'[c] = assets[c]
      PROVE  /\ version'[b] \in Nat /\ version[b] <= version'[b]
             /\ version'[b] = version[b] => assets'[b] = assets[b]
  <2>1. CASE b = a
    <3>1. version'[b] = version[b] + 1
      BY <1>1, <1>2, <2>1
    <3> QED
      BY <1>1, <3>1
  <2>2. CASE b # a
    BY <1>1, <1>2, <2>2
  <2> QED
    BY <2>1, <2>2
<1>3. CASE UNCHANGED <<version, assets>>
  BY <1>1, <1>3
<1>4. CASE GiveAway(r)
  <2>1. move[r].asset \in Asset
    BY DEF TransferTypeOK, AllMoves
  <2>2. /\ version' = [version EXCEPT ![move[r].asset] = @ + 1]
        /\ \A c \in Asset \ {move[r].asset} : assets'[c] = assets[c]
    BY <1>1, <1>4 DEF GiveAway
  <2> QED
    BY <1>1, <1>2, <2>1, <2>2
<1>5. CASE Persist(r) /\ version' = [version EXCEPT ![input[r].asset] = @ + 1]
  <2>1. input[r].asset \in Asset
    BY DEF TransferTypeOK, TypeOK, AllInputs
  <2>2. \A c \in Asset \ {input[r].asset} : assets'[c] = assets[c]
    BY <1>1, <1>5 DEF Persist, PersistAction, UpdateAsset
  <2> QED
    BY <1>1, <1>2, <1>5, <2>1, <2>2
<1>6. CASE ActionStep(r)
  BY <1>3, <1>5, <1>6 DEF ActionStep, Receive, LoadMiss, LoadHit, Fetch, Fail, storeVars
<1>7. CASE TransferStep(r)
  BY <1>3, <1>4, <1>7 DEF TransferStep, StartTransfer, ReadAsset, ReadOwner, ReadDevice, Tap,
        InsertTransfer, LogTransfer, StartSettlement, FindTransfer, Settle, Abandon, vars,
        storeVars
<1> QED
  BY <1>6, <1>7

LEMMA TransferReadsKept ==
    ASSUME TransferTypeOK, OneRole, TransferReads, NEW r \in Request,
           TransferStep(r) \/ ActionStep(r)
    PROVE  TransferReads'
<1> DEFINE Knows(q) ==
       stage[q] \in {"owner", "device", "tap", "give"} =>
           /\ seen[q] <= version[move[q].asset]
           /\ seen[q] = version[move[q].asset] =>
                 /\ local[q].current = assets[move[q].asset].current
                 /\ stage[q] # "owner" => local[q].owner = assets[move[q].asset].owner
<1>1. \A q \in Request : Knows(q) /\ move[q].asset \in Asset /\ seen[q] \in Nat
  BY DEF TransferReads, TransferTypeOK, AllMoves
<1>2. ASSUME NEW q \in Request, stage'[q] = stage[q], move'[q] = move[q], local'[q] = local[q],
             seen'[q] = seen[q]
      PROVE  Knows(q)'
  BY <1>1, <1>2, VersionCounts
<1>3. CASE ActionStep(r)
  <2>1. \A q \in Request : stage'[q] = stage[q] /\ move'[q] = move[q] /\ local'[q] = local[q]
    BY <1>3, ActionFrame
  <2>2. \A q \in Request \ {r} : seen'[q] = seen[q]
    BY <1>3, ActionFrame
  <2>3. stage[r] = "idle"
    BY <1>3, ActionFrame DEF OneRole
  <2>4. Knows(r)'
    BY <2>1, <2>3
  <2> QED
    BY <1>2, <2>1, <2>2, <2>4 DEF TransferReads
<1>4. CASE TransferStep(r)
  <2>1. \A q \in Request \ {r} : Knows(q)'
    BY <1>2, <1>4, OthersKept
  <2>2. Knows(r)'
    <3> USE DEF TransferTypeOK, Goto, Reply, vars, storeVars
    <3>1. CASE stage'[r] \notin {"owner", "device", "tap", "give"}
      BY <3>1
    <3>2. CASE ReadAsset(r)
      <4>1. /\ seen'[r] = version'[move'[r].asset] /\ version'[move'[r].asset] \in Nat
            /\ local'[r].current = assets'[move'[r].asset].current
            /\ stage'[r] \in {"owner", "done"}
        BY <1>1, <3>2 DEF ReadAsset, Locals
      <4> QED
        BY <4>1
    <3>3. CASE ReadOwner(r)
      <4>1. /\ seen' = seen /\ version' = version /\ move' = move /\ assets' = assets
            /\ local'[r].current = local[r].current
            /\ local'[r].owner = assets[move[r].asset].owner
            /\ stage[r] = "owner"
        BY <3>3 DEF ReadOwner, Locals
      <4> QED
        BY <1>1, <4>1
    <3>4. CASE ReadDevice(r) \/ Tap(r)
      <4>1. /\ seen' = seen /\ version' = version /\ move' = move /\ assets' = assets
            /\ local' = local /\ stage[r] \in {"device", "tap"}
        BY <3>4 DEF ReadDevice, Tap
      <4> QED
        BY <1>1, <4>1
    <3> QED
      BY <1>4, <3>1, <3>2, <3>3, <3>4 DEF TransferStep, StartTransfer, GiveAway,
            InsertTransfer, LogTransfer, StartSettlement, FindTransfer, Settle, Abandon
  <2> QED
    BY <2>1, <2>2 DEF TransferReads
<1> QED
  BY <1>3, <1>4

LEMMA ActionReadsKept ==
    ASSUME TransferTypeOK, OneRole, ActionReads, NEW r \in Request,
           TransferStep(r) \/ ActionStep(r)
    PROVE  ActionReads'
<1> DEFINE Knows(q) ==
       pc[q] = "persist" =>
           /\ ApplyStatus(read[q], input[q].action, input[q]) = "Ok"
           /\ seen[q] <= version[input[q].asset]
           /\ seen[q] = version[input[q].asset] /\ input[q].previous = None =>
                 /\ read[q].current = assets[input[q].asset].current
                 /\ read[q].previous = assets[input[q].asset].previous
<1>1. \A q \in Request : Knows(q) /\ input[q].asset \in Asset /\ seen[q] \in Nat
  BY DEF ActionReads, TransferTypeOK, TypeOK, AllInputs
<1>2. ASSUME NEW q \in Request, pc'[q] = pc[q], input'[q] = input[q], read'[q] = read[q],
             seen'[q] = seen[q]
      PROVE  Knows(q)'
  <2> SUFFICES ASSUME pc[q] = "persist"
               PROVE  /\ ApplyStatus(read'[q], input'[q].action, input'[q]) = "Ok"
                      /\ seen[q] <= version'[input[q].asset]
                      /\ seen[q] = version'[input[q].asset] /\ input[q].previous = None =>
                            /\ read[q].current = assets'[input[q].asset].current
                            /\ read[q].previous = assets'[input[q].asset].previous
    BY <1>2
  <2> DEFINE b == input[q].asset
  <2>1. ApplyStatus(read'[q], input'[q].action, input'[q]) = "Ok"
    BY <1>1, <1>2
  <2>2. /\ version[b] \in Nat /\ version'[b] \in Nat /\ version[b] <= version'[b]
        /\ version'[b] = version[b] => assets'[b] = assets[b]
    BY <1>1, VersionCounts
  <2> QED
    BY <1>1, <2>1, <2>2
<1>3. CASE TransferStep(r)
  <2>1. UNCHANGED <<pc, input, read>> /\ \A q \in Request \ {r} : seen'[q] = seen[q]
    BY <1>3, OthersKept DEF reqVars
  <2>2. pc[r] # "persist"
    BY <1>3, ZenonT(60) DEF OneRole, TransferStep, StartTransfer, ReadAsset, ReadOwner, ReadDevice, Tap,
          GiveAway, InsertTransfer, LogTransfer, StartSettlement, FindTransfer, Settle, Abandon,
          MoveStages
  <2>3. Knows(r)'
    BY <2>1, <2>2
  <2> QED
    BY <1>2, <2>1, <2>3 DEF ActionReads
<1>4. CASE ActionStep(r)
  <2>1. \A q \in Request \ {r} : Knows(q)'
    BY <1>2, <1>4, ActionFrame
  <2>2. CASE pc'[r] # "persist"
    BY <2>1, <2>2 DEF ActionReads
  <2>3. CASE pc'[r] = "persist"
    <3>1. Fetch(r) /\ seen' = [seen EXCEPT ![r] = version[input[r].asset]] /\ version' = version
      <4> USE DEF TransferTypeOK, TypeOK, Answer
      <4>1. ~\E i \in Inputs : Receive(r, i)
        BY <2>3 DEF Receive
      <4>2. ~(LoadMiss(r) \/ LoadHit(r) \/ Fail(r) \/ Persist(r))
        BY <2>3 DEF LoadMiss, LoadHit, Fail, Persist
      <4> QED
        BY <1>4, <4>1, <4>2 DEF ActionStep
    <3> DEFINE rec == FetchAsset(input[r].asset, input[r].previous)
    <3>2. /\ read'[r] = rec /\ input' = input /\ assets' = assets
          /\ ApplyStatus(rec, input[r].action, input[r]) = "Ok"
      BY <2>3, <3>1 DEF Fetch, Answer, TransferTypeOK, TypeOK, storeVars
    <3>3. seen'[r] = version'[input'[r].asset] /\ version'[input'[r].asset] \in Nat
      BY <1>1, <3>1, <3>2 DEF TransferTypeOK
    <3>4. input[r].previous = None =>
             /\ rec.current = assets[input[r].asset].current
             /\ rec.previous = assets[input[r].asset].previous
      BY DEF FetchAsset
    <3> HIDE DEF rec
    <3>5. Knows(r)'
      BY <3>2, <3>3, <3>4
    <3> QED
      BY <2>1, <3>5 DEF ActionReads
  <2> QED
    BY <2>2, <2>3
<1> QED
  BY <1>3, <1>4

-----------------------------------------------------------------------------
(***************************************************************************)
(* The invariant of transfers, settlements and asset actions together, for *)
(* any number of requests, assets, users and counters.                     *)
(***************************************************************************)
THEOREM TransferInvariance == TransferSpec => []TInv
<1>1. TInv /\ [TransferNext]_tvars => TInv'
  <2> SUFFICES ASSUME TInv, [TransferNext]_tvars PROVE TInv'
    OBVIOUS
  <2>1. CASE UNCHANGED tvars
    <3>1. UNCHANGED <<assets, origin, events, idempotency, pc, input, read, fresh, answer,
                      devices, transfers, stage, move, local, verdict, reply, version, seen,
                      moved>>
      BY <2>1 DEF tvars, vars, storeVars, reqVars
    <3>2. TransferTypeOK'
      BY <3>1 DEF TInv, TransferTypeOK, TypeOK, StoreTypeOK
    <3> QED
      BY <3>1, <3>2 DEF TInv, OneRole, StageTells, TapsAreSpent, Authorised, RecordsAreBacked,
            WritersAreDone, SettlementsKnow, SettledAsAnswered, TransferReads, ActionReads
  <2>2. ASSUME NEW r \in Request, TransferStep(r) \/ ActionStep(r) PROVE TInv'
    <3> USE DEF TInv
    <3>1. TransferTypeOK'
      BY <2>2, TransferStepType, ActionStepType
    <3>2. OneRole' /\ StageTells' /\ TapsAreSpent'
      BY <2>2, OneRoleKept, StageTellsKept, TapsAreSpentKept
    <3>3. RecordsAreBacked' /\ WritersAreDone'
      BY <2>2, RecordsKept
    <3>4. SettlementsKnow' /\ SettledAsAnswered'
      BY <2>2, SettlementsKept
    <3>5. TransferReads' /\ ActionReads'
      BY <2>2, TransferReadsKept, ActionReadsKept
    <3> QED
      BY <3>1, <3>2, <3>3, <3>4, <3>5
  <2> QED
    BY <2>1, <2>2 DEF TransferNext
<1> QED
  BY InitTInv, <1>1, PTL DEF TransferSpec

(***************************************************************************)
(* Every variable keeps its type.                                          *)
(***************************************************************************)
THEOREM TransferTypes == TransferSpec => []TransferTypeOK
<1>1. TInv => TransferTypeOK
  BY DEF TInv
<1> QED
  BY <1>1, TransferInvariance, PTL

(***************************************************************************)
(* One tap of a mother card moves its asset at most once.                  *)
(***************************************************************************)
THEOREM TapsMoveOnce == TransferSpec => []TapMovesOnce
<1>1. TInv => TapMovesOnce
  BY DEF TInv, TapsAreSpent, Authorised, TapMovesOnce, TransferTypeOK
<1> QED
  BY <1>1, TransferInvariance, PTL

(***************************************************************************)
(* Every transfer record stands for one transfer that took place, and      *)
(* every transfer answered with success has its record.                    *)
(***************************************************************************)
THEOREM RecordsHaveMoves == TransferSpec => []RecordsAreBacked
<1>1. TInv => RecordsAreBacked
  BY DEF TInv
<1> QED
  BY <1>1, TransferInvariance, PTL

(***************************************************************************)
(* A confirmation or rejection that was acknowledged stands for good.      *)
(***************************************************************************)
THEOREM SettlementsStand == TransferSpec => []SettledAsAnswered
<1>1. TInv => SettledAsAnswered
  BY DEF TInv
<1> QED
  BY <1>1, TransferInvariance, PTL

-----------------------------------------------------------------------------
(***************************************************************************)
(* The rows as the lifecycle sees them follow the UPDATEs.                 *)
(***************************************************************************)
LEMMA AsRecordedRow ==
    ASSUME NEW row \in Rows
    PROVE  /\ AsRecorded(row) \in Rows
           /\ AsRecorded(row) = [current |-> row.current,
                 previous |-> IF row.current = Frozen THEN row.previous ELSE None,
                 owner |-> row.owner]
           /\ AsRecorded(row).current = row.current
           /\ AsRecorded(row).owner = row.owner
           /\ row.current = Frozen => AsRecorded(row).previous = row.previous
BY DEF AsRecorded, Rows, OptState

LEMMA RecordedFollows ==
    ASSUME TransferTypeOK, NEW a \in Asset, NEW row \in Rows,
           assets' = [assets EXCEPT ![a] = row]
    PROVE  /\ Recorded[a] = AsRecorded(assets[a])
           /\ assets[a] \in Rows
           /\ Recorded' = [Recorded EXCEPT ![a] = AsRecorded(row)]
BY DEF TransferTypeOK, TypeOK, StoreTypeOK, Recorded

(***************************************************************************)
(* A transfer that finds the row as it read it is a lifecycle step.        *)
(***************************************************************************)
LEMMA FreshGiveAway ==
    ASSUME TInv, NEW r \in Request, GiveAway(r), seen[r] = version[move[r].asset]
    PROVE  Life!Next /\ assets[move[r].asset].owner = move[r].actor
<1> DEFINE a == move[r].asset
           receiver == move[r].to
<1>1. /\ stage[r] = "give" /\ a \in Asset /\ receiver \in User /\ TransferTypeOK
      /\ local[r].current \in AssetState
  BY DEF TInv, TransferTypeOK, GiveAway, AllMoves, Locals
<1>2. /\ local[r].current = assets[a].current /\ local[r].owner = assets[a].owner
      /\ local[r].current \in SoldStates /\ local[r].owner = move[r].actor
  BY <1>1 DEF TInv, TransferReads, StageTells
<1>3. assets' = [assets EXCEPT ![a] =
         [current |-> "Transferred", previous |-> local[r].current, owner |-> receiver]]
  BY DEF GiveAway
<1>4. "Transferred" \in AssetState /\ local[r].current \in OptState /\ "Transferred" # Frozen
  BY <1>1 DEF OptState, AssetState, LiveStates, SoldStates, Frozen
<1> HIDE DEF a, receiver
<1>5. /\ Recorded[a].current = assets[a].current
      /\ Recorded' = [Recorded EXCEPT ![a] =
            [current |-> "Transferred", previous |-> None, owner |-> receiver]]
  <2>1. PICK row \in Rows :
           row = [current |-> "Transferred", previous |-> local[r].current, owner |-> receiver]
    BY <1>1, <1>4 DEF Rows
  <2>2. PICK b \in Asset : b = a
    BY <1>1
  <2>3. assets' = [assets EXCEPT ![b] = row]
    BY <1>3, <2>1, <2>2
  <2>4. /\ Recorded[b] = AsRecorded(assets[b]) /\ assets[b] \in Rows
        /\ Recorded' = [Recorded EXCEPT ![b] = AsRecorded(row)]
    BY <1>1, <2>3, RecordedFollows
  <2>5. AsRecorded(row) = [current |-> "Transferred", previous |-> None, owner |-> receiver]
    BY <1>4, <2>1, AsRecordedRow
  <2> QED
    BY <2>2, <2>4, <2>5, AsRecordedRow
<1> DEFINE step == <<assets[a].current, "Transfer", "Transferred">>
<1>6. step \in Life!BusinessTransitions
  BY <1>2 DEF Life!BusinessTransitions, SoldStates
<1>7. Life!OwnerAfter("Transfer", Recorded[a].owner, receiver) = receiver
  BY DEF Life!OwnerAfter
<1>8. Recorded' = [Recorded EXCEPT ![a] =
         [current |-> step[3], previous |-> Life!None,
          owner |-> Life!OwnerAfter(step[2], @.owner, receiver)]]
  BY <1>5, <1>7 DEF Life!None, None
<1>9. Life!Advance(a)
  BY <1>1, <1>5, <1>6, <1>8 DEF Life!Advance
<1> QED
  BY <1>1, <1>2, <1>9 DEF Life!Next, a

(***************************************************************************)
(* So is an asset action that finds the row as it read it.                 *)
(***************************************************************************)
LEMMA FreshPersist ==
    ASSUME TInv, NEW r \in Request, Persist(r), seen[r] = version[input[r].asset],
           input[r].previous = None
    PROVE  Life!Next
<1> DEFINE i == input[r]
           a == i.asset
<1>1. PICK target \in AssetState :
         /\ NextState(read[r].current, i.action, read[r].previous, target)
         /\ PersistAction(a, EventOf(r, target), RequestHash(i), i.buyer, i.actor)
  BY DEF Persist
<1>2. /\ pc[r] = "persist" /\ a \in Asset /\ i.action \in HandledActions
      /\ i.buyer \in User \cup {None} /\ i.actor \in User /\ assets[a] \in Rows
      /\ assets \in [Asset -> Rows] /\ TransferTypeOK
  BY DEF Persist, TInv, TransferTypeOK, TypeOK, AllInputs, StoreTypeOK
<1>3. /\ read[r].current = assets[a].current /\ read[r].previous = assets[a].previous
      /\ ApplyStatus(read[r], i.action, i) = "Ok"
  BY <1>2 DEF TInv, ActionReads
<1>4. /\ assets[a].current \notin TerminalStates
      /\ i.action = "LegalSell" => i.buyer \in User
  BY <1>2, <1>3, ApplyOk
<1>5. NextState(assets[a].current, i.action, assets[a].previous, target)
  BY <1>1, <1>3
<1> DEFINE owner == OwnerAfter(i.action, assets[a].owner, i.buyer, i.actor)
           previous == PreviousAfter(assets[a].current, target)
<1>6. assets' = [assets EXCEPT ![a] =
         [current |-> target, previous |-> previous, owner |-> owner]]
  BY <1>1, <1>2, <1>3 DEF PersistAction, UpdateAsset, EventOf
<1>7. owner \in User \cup {None} /\ previous \in OptState
  BY <1>2 DEF OwnerAfter, PreviousAfter, OptState, Rows
<1>8. (IF target = Frozen THEN previous ELSE None) = previous
  BY DEF PreviousAfter
<1> HIDE DEF i, a, owner, previous
<1>9. /\ Recorded[a].current = assets[a].current
      /\ Recorded[a].owner = assets[a].owner
      /\ assets[a].current = Frozen => Recorded[a].previous = assets[a].previous
      /\ Recorded[a] \in Rows
      /\ Recorded' = [Recorded EXCEPT ![a] =
            [current |-> target, previous |-> IF target = Frozen THEN previous ELSE None,
             owner |-> owner]]
  <2>1. PICK row \in Rows : row = [current |-> target, previous |-> previous, owner |-> owner]
    BY <1>1, <1>7 DEF Rows
  <2>2. PICK b \in Asset : b = a
    BY <1>2
  <2>3. assets' = [assets EXCEPT ![b] = row]
    BY <1>6, <2>1, <2>2
  <2>4. /\ Recorded[b] = AsRecorded(assets[b]) /\ assets[b] \in Rows
        /\ Recorded' = [Recorded EXCEPT ![b] = AsRecorded(row)]
    BY <1>2, <2>3, RecordedFollows
  <2>5. AsRecorded(row) = [current |-> target,
           previous |-> IF target = Frozen THEN previous ELSE None, owner |-> owner]
    BY <2>1, AsRecordedRow
  <2> QED
    BY <2>2, <2>4, <2>5, AsRecordedRow
<1>10. Recorded' = [Recorded EXCEPT ![a] =
          [current |-> target, previous |-> previous, owner |-> owner]]
  BY <1>8, <1>9
<1>11. Recorded[a] = [current |-> Recorded[a].current, previous |-> Recorded[a].previous,
                      owner |-> Recorded[a].owner]
  BY <1>9 DEF Rows
<1> USE DEF AssetState, LiveStates, PreSaleStates, SoldStates, TerminalStates, Frozen, None,
            Life!LiveStates, Life!PreSaleStates, Life!SoldStates,
            Life!TerminalStates, Life!Frozen, Life!None
<1>12. CASE <<assets[a].current, i.action, target>> \in BusinessTransitions
  <2> DEFINE step == <<assets[a].current, i.action, target>>
             receiver == IF i.action = "LegalSell" THEN i.buyer ELSE i.actor
  <2>1. receiver \in User /\ step \in Life!BusinessTransitions
    BY <1>2, <1>4, <1>12 DEF BusinessTransitions, Life!BusinessTransitions
  <2>2. owner = Life!OwnerAfter(step[2], Recorded[a].owner, receiver)
    <3>1. step[2] = i.action /\ i.action # "Transfer"
      BY <1>2 DEF HandledActions
    <3> QED
      BY <1>9, <3>1 DEF OwnerAfter, Life!OwnerAfter, owner
  <2>3. previous = None
    BY <1>12 DEF PreviousAfter, BusinessTransitions, previous
  <2>4. Recorded' = [Recorded EXCEPT ![a] =
           [current |-> step[3], previous |-> None,
            owner |-> Life!OwnerAfter(step[2], @.owner, receiver)]]
    BY <1>10, <2>2, <2>3
  <2>5. Life!Advance(a)
    BY <1>9, <2>1, <2>4 DEF Life!Advance
  <2> QED
    BY <1>2, <2>5 DEF Life!Next
<1>13. CASE i.action \in GovernanceActions
  <2>1. owner = Recorded[a].owner
    BY <1>9, <1>13 DEF OwnerAfter, GovernanceActions, owner
  <2>2. <<assets[a].current, i.action, target>> \notin BusinessTransitions
    BY <1>13 DEF BusinessTransitions, GovernanceActions
  <2>3. CASE i.action = "Freeze"
    <3>1. assets[a].current \in LiveStates /\ target = Frozen
      BY <1>2, <1>5, <2>2, <2>3 DEF NextState, Verdicts, Rows
    <3>2. previous = Recorded[a].current
      BY <1>9, <3>1 DEF previous, PreviousAfter
    <3>3. Recorded' = [Recorded EXCEPT ![a].current = Frozen, ![a].previous = Recorded[a].current]
      BY <1>9, <1>10, <1>11, <2>1, <3>1, <3>2, ZenonT(60) DEF Rows
    <3>4. Life!Freeze(a)
      BY <1>9, <3>1, <3>3 DEF Life!Freeze
    <3> QED
      BY <1>2, <3>4 DEF Life!Next
  <2>4. CASE i.action = "Recover"
    <3>1. assets[a].current = Frozen /\ target = assets[a].previous /\ target # Frozen
      BY <1>2, <1>5, <2>2, <2>4 DEF NextState, Verdicts
    <3>2. previous = None /\ target = Recorded[a].previous
      BY <1>9, <3>1 DEF previous, PreviousAfter
    <3>3. Recorded' = [Recorded EXCEPT ![a].current = Recorded[a].previous, ![a].previous = None]
      BY <1>9, <1>10, <1>11, <2>1, <3>1, <3>2 DEF Rows
    <3>4. Life!Recover(a)
      BY <1>9, <3>1, <3>3 DEF Life!Recover
    <3> QED
      BY <1>2, <3>4 DEF Life!Next
  <2>5. CASE i.action \notin {"Freeze", "Recover"}
    <3>1. <<i.action, target>> \in Verdicts
      BY <1>5, <2>2, <2>5 DEF NextState
    <3>2. previous = None
      BY <3>1 DEF Verdicts, previous, PreviousAfter
    <3>3. Recorded' = [Recorded EXCEPT ![a].current = <<i.action, target>>[2],
                                       ![a].previous = None]
      BY <1>9, <1>10, <1>11, <2>1, <3>2, ZenonT(60) DEF Rows
    <3>4. Life!Condemn(a)
      BY <1>4, <1>9, <3>1, <3>3 DEF Life!Condemn, Verdicts, Life!Verdicts
    <3> QED
      BY <1>2, <3>4 DEF Life!Next
  <2> QED
    BY <2>3, <2>4, <2>5
<1> QED
  BY <1>5, <1>12, <1>13 DEF NextState, GovernanceActions, Verdicts

(***************************************************************************)
(* Under any interleaving, an UPDATE that overwrites nothing its request   *)
(* has not read is a step of the atomic lifecycle, and a transfer that     *)
(* overwrites nothing gives away what its actor owns.                      *)
(***************************************************************************)
THEOREM FreshWritesAreLegal == TransferSpec => FreshStepsAreLegal
<1> DEFINE Legal ==
       \A r \in Request, a \in Asset :
          /\ Writes(r, a) /\ seen[r] = version[a]
          /\ pc[r] = "persist" => input[r].previous = None
          => /\ Life!Next
             /\ stage[r] = "give" => assets[a].owner = move[r].actor
<1>1. TInv /\ [TransferNext]_tvars => [Legal]_tvars
  <2> SUFFICES ASSUME TInv, TransferNext, NEW r \in Request, NEW a \in Asset,
                      Writes(r, a), seen[r] = version[a],
                      pc[r] = "persist" => input[r].previous = None
               PROVE  /\ Life!Next
                      /\ stage[r] = "give" => assets[a].owner = move[r].actor
    OBVIOUS
  <2>1. PICK q \in Request : TransferStep(q) \/ ActionStep(q)
    BY DEF TransferNext
  <2>2. TransferTypeOK /\ OneRole
    BY DEF TInv
  <2>3. CASE stage[r] = "give" /\ move[r].asset = a /\ version'[a] # version[a]
               /\ stage'[r] # stage[r]
    <3>1. TransferStep(q) /\ q = r
      BY <2>1, <2>2, <2>3, ActionFrame, OthersKept
    <3>2. GiveAway(r)
      BY <2>3, <3>1 DEF TransferStep, StartTransfer, ReadAsset, ReadOwner, ReadDevice, Tap,
            InsertTransfer, LogTransfer, StartSettlement, FindTransfer, Settle, Abandon
    <3> QED
      BY <2>3, <3>2, FreshGiveAway
  <2>4. CASE pc[r] = "persist" /\ input[r].asset = a /\ version'[a] # version[a]
               /\ pc'[r] # pc[r]
    <3>1. ActionStep(q) /\ q = r
      BY <2>1, <2>2, <2>4, ActionFrame, OthersKept DEF reqVars
    <3>2. Persist(r)
      BY <2>4, <3>1 DEF ActionStep
    <3>3. stage[r] = "idle"
      BY <2>2, <2>4 DEF OneRole
    <3> QED
      BY <2>4, <3>2, <3>3, FreshPersist
  <2> QED
    BY <2>3, <2>4 DEF Writes
<1> QED
  BY <1>1, TransferInvariance, PTL DEF TransferSpec, FreshStepsAreLegal
=============================================================================
