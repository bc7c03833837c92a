-------------------------- MODULE SequentialProofs --------------------------
(***************************************************************************)
(* What the handlers guarantee to clients that send one request at a time  *)
(* and leave previous_state to the server: terminal states are final, a    *)
(* freeze blocks business, a key executes once, ownership fits the state,  *)
(* and the whole handler, with its retries and failures, implements        *)
(* AssetLifecycle.  The runs ActionTerminal, ActionKeyTwice and            *)
(* ActionRecover show that both assumptions are needed.                    *)
(***************************************************************************)
EXTENDS ActionHandlerProofs

\* Requests do not overlap and none carries a previous_state.
SequentialClients == Serial /\ \A i \in Inputs : i.previous = None

-----------------------------------------------------------------------------
\* At most one request is open.
OneOpen == \A q, r \in InFlight : q = r

\* What was asked is one of the inputs.
AskedIsInput == \A r \in Request : input[r] \in Inputs

\* A request about to persist works on the row as it is.
ReadIsCurrent ==
    \A r \in Request : pc[r] = "persist" =>
        /\ read[r].current = assets[input[r].asset].current
        /\ read[r].previous = assets[input[r].asset].previous

\* Past the lookup, the key of the open request is still unrecorded.
KeyIsNew ==
    \A r \in Request : pc[r] \in {"fetch", "persist"} => RecordsOf(input[r].key) = {}

SInv ==
    /\ OneOpen /\ AskedIsInput /\ ReadIsCurrent /\ KeyIsNew
    /\ TerminalIsFinal /\ FreezeBlocksBusiness /\ OneExecutionPerKey /\ OwnershipCoherent

-----------------------------------------------------------------------------
LEMMA InitSInv == Init => SInv
<1> SUFFICES ASSUME Init PROVE SInv
  OBVIOUS
<1>1. NoInput \in Inputs
  BY InputsAssumption DEF NoInput
<1>2. OneOpen /\ AskedIsInput /\ ReadIsCurrent /\ KeyIsNew
  BY <1>1 DEF Init, OneOpen, InFlight, AskedIsInput, ReadIsCurrent, KeyIsNew
<1>3. \A a \in Asset : events[a] = << >> /\ DOMAIN events[a] = {}
  BY DEF Init, StoreInit
<1>4. TerminalIsFinal /\ FreezeBlocksBusiness /\ OneExecutionPerKey
  BY <1>3 DEF TerminalIsFinal, FreezeBlocksBusiness, OneExecutionPerKey
<1>5. OwnershipCoherent
  BY DEF Init, StoreInit, OwnershipCoherent
<1> QED
  BY <1>2, <1>4, <1>5 DEF SInv

(***************************************************************************)
(* Steps that do not write to the database keep what is said of the        *)
(* tables, and open no second request.                                     *)
(***************************************************************************)
LEMMA QuietSInv ==
    ASSUME SequentialClients, IInv, SInv, NEW r \in Request,
           \/ \E i \in Inputs : Receive(r, i)
           \/ LoadMiss(r) \/ LoadHit(r) \/ Fetch(r) \/ Fail(r)
    PROVE  SInv'
<1> USE DEF SInv
<1> USE DEF IInv
<1>1. UNCHANGED storeVars
  BY DEF Receive, LoadMiss, LoadHit, Fetch, Fail
<1>2. TerminalIsFinal' /\ FreezeBlocksBusiness' /\ OneExecutionPerKey' /\ OwnershipCoherent'
  BY <1>1 DEF storeVars, StateAt, TerminalIsFinal, FreezeBlocksBusiness,
              OneExecutionPerKey, OwnershipCoherent
<1>3. /\ \A q \in Request \ {r} : pc'[q] = pc[q] /\ input'[q] = input[q] /\ read'[q] = read[q]
      /\ pc' \in [Request -> Stage] /\ input'[r] \in Inputs
      /\ pc'[r] # "idle"
      /\ pc[r] = "idle" => InFlight = {} /\ pc'[r] \notin {"fetch", "persist"}
      /\ pc[r] # "idle" => r \in InFlight /\ input'[r] = input[r]
      /\ pc'[r] \in {"fetch", "persist"} => pc[r] = "fetch" \/ RecordsOf(input[r].key) = {}
      /\ pc'[r] = "persist" =>
            read'[r] = FetchAsset(input[r].asset, input[r].previous)
  <2>1. CASE \E i \in Inputs : Receive(r, i)
    BY <2>1 DEF Receive, Answer, SequentialClients, TypeOK, Stage
  <2>2. CASE LoadMiss(r)
    BY <2>2 DEF LoadMiss, TypeOK, Stage, AskedIsInput, InFlight
  <2>3. CASE LoadHit(r) \/ Fail(r)
    BY <2>3 DEF LoadHit, Fail, Answer, TypeOK, Stage, AskedIsInput, InFlight
  <2>4. CASE Fetch(r)
    BY <2>4 DEF Fetch, Answer, TypeOK, Stage, AskedIsInput, InFlight
  <2> QED
    BY <2>1, <2>2, <2>3, <2>4
<1>4. OneOpen'
  BY <1>3 DEF OneOpen, InFlight, TypeOK
<1>5. AskedIsInput'
  BY <1>3 DEF AskedIsInput
<1>6. ReadIsCurrent'
  <2> SUFFICES ASSUME NEW q \in Request, pc'[q] = "persist"
               PROVE  /\ read'[q].current = assets[input'[q].asset].current
                      /\ read'[q].previous = assets[input'[q].asset].previous
    BY <1>1 DEF ReadIsCurrent, storeVars
  <2>1. CASE q = r
    <3>1. input'[r] = input[r] /\ input[r].previous = None
      BY <1>3, <2>1 DEF SequentialClients, AskedIsInput
    <3> QED
      BY <1>3, <2>1, <3>1 DEF FetchAsset
  <2>2. CASE q # r
    BY <1>3, <2>2 DEF ReadIsCurrent
  <2> QED
    BY <2>1, <2>2
<1>7. KeyIsNew'
  BY <1>1, <1>3 DEF KeyIsNew, storeVars, RecordsOf
<1> QED
  BY <1>2, <1>4, <1>5, <1>6, <1>7

(***************************************************************************)
(* A step of the state table, made on a sound row for a buyer where it is  *)
(* a sale, leaves a sound row.                                             *)
(***************************************************************************)
LEMMA SoundStep ==
    ASSUME NEW row \in Rows, SoundRow(row), NEW action \in HandledActions,
           NEW target \in AssetState, NEW buyer \in User \cup {None}, NEW actor \in User,
           NextState(row.current, action, row.previous, target),
           action = "LegalSell" => buyer # None
    PROVE  SoundRow([current |-> target, previous |-> PreviousAfter(row.current, target),
                     owner |-> OwnerAfter(action, row.owner, buyer, actor)])
<1> USE NoneAssumption
    DEF AssetState, LiveStates, PreSaleStates, SoldStates, TerminalStates, Frozen, None
<1> SUFFICES ASSUME NEW new, new.current = target,
                    new.previous = PreviousAfter(row.current, target),
                    new.owner = OwnerAfter(action, row.owner, buyer, actor)
             PROVE  SoundRow(new)
  OBVIOUS
<1>1. CASE <<row.current, action, target>> \in BusinessTransitions
  <2>1. /\ action = "LegalSell" => new.owner = buyer
        /\ action \in {"Consume", "Legacy"} => new.owner = None
        /\ action \notin {"LegalSell", "Transfer", "Consume", "Legacy"} =>
              new.owner = row.owner
    BY DEF OwnerAfter
  <2>2. new.previous = None
    BY <1>1 DEF BusinessTransitions, PreviousAfter
  <2>3. action # "Transfer"
    BY DEF HandledActions
  <2> QED
    BY <1>1, <2>1, <2>2, <2>3 DEF SoundRow, BusinessTransitions
<1>2. CASE action \in GovernanceActions
  <2>1. new.owner = row.owner
    BY <1>2 DEF OwnerAfter, GovernanceActions
  <2>2. CASE action = "Freeze"
    <3>1. row.current \notin TerminalStates \cup {Frozen} /\ target = Frozen
      BY <2>2 DEF NextState, BusinessTransitions, Verdicts
    <3>2. row.current \in LiveStates
      BY <3>1 DEF Rows
    <3> QED
      BY <2>1, <3>1, <3>2 DEF SoundRow, PreviousAfter
  <2>3. CASE action = "Recover"
    BY <2>1, <2>3 DEF SoundRow, NextState, BusinessTransitions, Verdicts, PreviousAfter, OptState
  <2>4. CASE action \notin {"Freeze", "Recover"}
    <3>1. target \in {"Tampered", "Compromised", "Destructed"}
      BY <1>2, <2>4 DEF NextState, Verdicts, GovernanceActions, BusinessTransitions
    <3> QED
      BY <3>1 DEF SoundRow, PreviousAfter
  <2> QED
    BY <2>2, <2>3, <2>4
<1> QED
  BY <1>1, <1>2 DEF NextState, GovernanceActions, Verdicts

(***************************************************************************)
(* A commit, alone on the table, on the row it was computed from.          *)
(***************************************************************************)
LEMMA PersistSInv ==
    ASSUME SequentialClients, IInv, IInv', SInv, NEW r \in Request, Persist(r)
    PROVE  SInv'
<1> USE DEF IInv, SInv
<1> DEFINE a == input[r].asset
           n == Len(events[a]) + 1
           i == input[r]
<1>1. PICK target \in AssetState :
         /\ NextState(read[r].current, i.action, read[r].previous, target)
         /\ PersistAction(a, EventOf(r, target), RequestHash(i), i.buyer, i.actor)
  BY DEF Persist
<1> DEFINE e == EventOf(r, target)
<1>2. /\ pc[r] = "persist" /\ UNCHANGED <<input, read, fresh, origin>>
      /\ a \in Asset /\ i.action \in HandledActions /\ i.buyer \in User \cup {None}
      /\ i.actor \in User /\ assets[a] \in Rows /\ events[a] \in Seq(Events)
  BY <1>1 DEF Persist, PersistAction, TypeOK, AllInputs, StoreTypeOK
<1>3. /\ read[r].current = assets[a].current /\ read[r].previous = assets[a].previous
      /\ RecordsOf(i.key) = {}
  BY <1>2 DEF ReadIsCurrent, KeyIsNew
<1>4. ApplyStatus(read[r], i.action, i) = "Ok"
  BY <1>2 DEF PersistingKnows
<1>5. /\ read[r].current \notin TerminalStates
      /\ ~(read[r].current = Frozen /\ i.action \in BusinessActions)
      /\ i.action = "LegalSell" => i.buyer # None
  BY <1>4, ApplyOk
<1>6. /\ assets' = [assets EXCEPT ![a] =
            [current |-> target, previous |-> PreviousAfter(read[r].current, target),
             owner |-> OwnerAfter(i.action, @.owner, i.buyer, i.actor)]]
      /\ events' = [events EXCEPT ![a] = Append(@, e)]
      /\ e \in Events /\ e.key = i.key /\ e.action = i.action
  BY <1>1, <1>2 DEF PersistAction, UpdateAsset, EventOf, Events, TypeOK, Reads, AllInputs,
                    HandledActions
<1>7. pc'[r] = "done" /\ \A q \in Request \ {r} : pc'[q] = pc[q]
  BY DEF Persist, Answer, TypeOK
<1>8. /\ events'[a][n] = e /\ n \in DOMAIN events'[a]
      /\ \A b \in Asset : \A j \in DOMAIN events[b] :
            j \in DOMAIN events'[b] /\ events'[b][j] = events[b][j]
      /\ \A b \in Asset : \A j \in DOMAIN events'[b] :
            j \in DOMAIN events[b] \/ (b = a /\ j = n)
      /\ \A b \in Asset : \A m \in 0..Len(events[b]) : StateAt(b, m)' = StateAt(b, m)
  <2>1. /\ Len(events'[a]) = n /\ events'[a][n] = e
        /\ \A b \in Asset : \A j \in DOMAIN events[b] :
              j \in DOMAIN events'[b] /\ events'[b][j] = events[b][j]
        /\ \A b \in Asset : \A j \in DOMAIN events'[b] :
              j \in DOMAIN events[b] \/ (b = a /\ j = n)
        /\ \A b \in Asset : \A m \in 0..Len(events[b]) : StateAt(b, m)' = StateAt(b, m)
    <3>1. TypeOK /\ a \in Asset /\ e \in Events /\ origin' = origin
          /\ events' = [events EXCEPT ![a] = Append(@, e)]
      BY <1>2, <1>6
    <3> HIDE DEF a, e
    <3> QED
      BY <3>1, LogGrows
  <2>2. events'[a] \in Seq(Events)
    BY <1>2 DEF TypeOK, StoreTypeOK
  <2>3. n \in DOMAIN events'[a]
    BY <1>2, <2>1, <2>2
  <2> HIDE DEF a, e
  <2> QED
    BY <2>1, <2>3
<1>9. StateAt(a, n - 1) = assets[a].current /\ n - 1 \in 0..Len(events[a])
  BY <1>2 DEF RowMatchesAudit, StateAt
<1>10. OneOpen'
  BY <1>7 DEF OneOpen, InFlight
<1>11. AskedIsInput'
  BY <1>2 DEF AskedIsInput
<1>12. \A q \in Request : pc'[q] \notin {"fetch", "persist"}
  BY <1>2, <1>7 DEF OneOpen, InFlight
<1>13. ReadIsCurrent' /\ KeyIsNew'
  BY <1>12 DEF ReadIsCurrent, KeyIsNew
<1>14. \A b \in Asset : \A j \in DOMAIN events[b] :
          j - 1 \in 0..Len(events[b]) /\ StateAt(b, j - 1)' = StateAt(b, j - 1)
  BY <1>8, EventType
<1>15. TerminalIsFinal'
  <2> SUFFICES ASSUME NEW b \in Asset, NEW j \in DOMAIN events'[b]
               PROVE  StateAt(b, j - 1)' \notin TerminalStates
    BY DEF TerminalIsFinal
  <2>1. CASE j \in DOMAIN events[b]
    BY <1>14, <2>1 DEF TerminalIsFinal
  <2>2. CASE b = a /\ j = n
    BY <1>2, <1>3, <1>5, <1>8, <1>9, <2>2
  <2> QED
    BY <1>8, <2>1, <2>2
<1>16. FreezeBlocksBusiness'
  <2> SUFFICES ASSUME NEW b \in Asset, NEW j \in DOMAIN events'[b],
                      StateAt(b, j - 1)' = Frozen
               PROVE  events'[b][j].action \notin BusinessActions
    BY DEF FreezeBlocksBusiness
  <2>1. CASE j \in DOMAIN events[b]
    BY <1>8, <1>14, <2>1 DEF FreezeBlocksBusiness
  <2>2. CASE b = a /\ j = n
    BY <1>2, <1>3, <1>5, <1>6, <1>8, <1>9, <2>2
  <2> QED
    BY <1>8, <2>1, <2>2
<1>17. OneExecutionPerKey'
  <2>1. \A b \in Asset : \A j \in DOMAIN events[b] : events[b][j].key # i.key
    BY <1>3 DEF EventsSettled, RecordsOf
  <2> SUFFICES ASSUME NEW b \in Asset, NEW c \in Asset, NEW j \in DOMAIN events'[b],
                      NEW k \in DOMAIN events'[c], events'[b][j].key = events'[c][k].key
               PROVE  b = c /\ j = k
    BY DEF OneExecutionPerKey
  <2>2. CASE j \in DOMAIN events[b] /\ k \in DOMAIN events[c]
    BY <1>8, <2>2 DEF OneExecutionPerKey
  <2>3. CASE j \in DOMAIN events[b] /\ c = a /\ k = n
    <3>1. events'[b][j].key # i.key
      BY <1>8, <2>1, <2>3
    <3>2. events'[c][k].key = i.key
      BY <1>6, <1>8, <2>3
    <3> QED
      BY <3>1, <3>2
  <2>4. CASE b = a /\ j = n /\ k \in DOMAIN events[c]
    <3>1. events'[c][k].key # i.key
      BY <1>8, <2>1, <2>4
    <3>2. events'[b][j].key = i.key
      BY <1>6, <1>8, <2>4
    <3> QED
      BY <3>1, <3>2
  <2> QED
    BY <1>8, <2>2, <2>3, <2>4
<1>18. OwnershipCoherent'
  <2> DEFINE row == [current |-> target,
                     previous |-> PreviousAfter(assets[a].current, target),
                     owner |-> OwnerAfter(i.action, assets[a].owner, i.buyer, i.actor)]
  <2>1. NextState(assets[a].current, i.action, assets[a].previous, target)
    BY <1>1, <1>3
  <2>2. SoundRow(row)
    <3>1. assets[a] \in Rows /\ SoundRow(assets[a])
      BY <1>2 DEF OwnershipCoherent
    <3> HIDE DEF i, a
    <3> QED
      BY <1>2, <1>5, <2>1, <3>1, SoundStep
  <2>3. assets' = [assets EXCEPT ![a] = row]
    BY <1>3, <1>6 DEF TypeOK, StoreTypeOK
  <2> HIDE DEF row
  <2> QED
    BY <1>2, <2>2, <2>3 DEF OwnershipCoherent, TypeOK, StoreTypeOK
<1> HIDE DEF a, e, i, n
<1> QED
  BY <1>10, <1>11, <1>13, <1>15, <1>16, <1>17, <1>18

-----------------------------------------------------------------------------
(***************************************************************************)
(* The invariant of sequential clients.                                    *)
(***************************************************************************)
THEOREM SequentialInvariance == ASSUME SequentialClients PROVE Spec => [](IInv /\ SInv)
<1>1. IInv /\ IInv' /\ SInv /\ [Next]_vars => SInv'
  <2> SUFFICES ASSUME IInv, IInv', SInv, [Next]_vars PROVE SInv'
    OBVIOUS
  <2>1. CASE Next
    BY <2>1, QuietSInv, PersistSInv DEF Next
  <2>2. CASE UNCHANGED vars
    <3>1. UNCHANGED <<assets, origin, events, idempotency, pc, input, read>>
      BY <2>2 DEF vars, storeVars, reqVars
    <3> QED
      BY <3>1 DEF SInv, OneOpen, InFlight, AskedIsInput, ReadIsCurrent, KeyIsNew, RecordsOf,
                  TerminalIsFinal, FreezeBlocksBusiness, OneExecutionPerKey,
                  OwnershipCoherent, StateAt
  <2> QED
    BY <2>1, <2>2
<1> QED
  BY InitSInv, <1>1, Invariance, PTL DEF Spec

(***************************************************************************)
(* No event follows one that led to a terminal state.                      *)
(***************************************************************************)
THEOREM SequentialTerminal == ASSUME SequentialClients PROVE Spec => []TerminalIsFinal
<1>1. SInv => TerminalIsFinal
  BY DEF SInv
<1> QED
  BY <1>1, SequentialInvariance, PTL

(***************************************************************************)
(* No business action is committed while the asset is frozen.              *)
(***************************************************************************)
THEOREM SequentialFreeze == ASSUME SequentialClients PROVE Spec => []FreezeBlocksBusiness
<1>1. SInv => FreezeBlocksBusiness
  BY DEF SInv
<1> QED
  BY <1>1, SequentialInvariance, PTL

(***************************************************************************)
(* An idempotency key executes at most once, whatever fails in between.    *)
(***************************************************************************)
THEOREM SequentialKeyOnce == ASSUME SequentialClients PROVE Spec => []OneExecutionPerKey
<1>1. SInv => OneExecutionPerKey
  BY DEF SInv
<1> QED
  BY <1>1, SequentialInvariance, PTL

(***************************************************************************)
(* The owner column fits the state of the asset.                           *)
(***************************************************************************)
THEOREM SequentialOwnership == ASSUME SequentialClients PROVE Spec => []OwnershipCoherent
<1>1. SInv => OwnershipCoherent
  BY DEF SInv
<1> QED
  BY <1>1, SequentialInvariance, PTL

-----------------------------------------------------------------------------
(***************************************************************************)
(* A commit is a step of the atomic lifecycle.                             *)
(***************************************************************************)
LEMMA PersistIsLifecycleStep ==
    ASSUME SequentialClients, IInv, SInv, NEW r \in Request, Persist(r)
    PROVE  Lifecycle!Next
<1> USE DEF IInv, SInv
<1> DEFINE i == input[r]
           a == i.asset
<1>1. PICK target \in AssetState :
         /\ NextState(read[r].current, i.action, read[r].previous, target)
         /\ PersistAction(a, EventOf(r, target), RequestHash(i), i.buyer, i.actor)
  BY DEF Persist
<1>2. /\ pc[r] = "persist" /\ a \in Asset /\ i.action \in HandledActions
      /\ i.buyer \in User \cup {None} /\ i.actor \in User /\ assets[a] \in Rows
      /\ assets \in [Asset -> Rows]
  BY DEF Persist, TypeOK, AllInputs, StoreTypeOK
<1>3. read[r].current = assets[a].current /\ read[r].previous = assets[a].previous
  BY <1>2 DEF ReadIsCurrent
<1>4. /\ assets[a].current \notin TerminalStates
      /\ i.action = "LegalSell" => i.buyer \in User
  BY <1>2, <1>3, ApplyOk DEF PersistingKnows
<1>5. NextState(assets[a].current, i.action, assets[a].previous, target)
  BY <1>1, <1>3
<1>6. assets' = [assets EXCEPT ![a] =
         [current |-> target, previous |-> PreviousAfter(assets[a].current, target),
          owner |-> OwnerAfter(i.action, assets[a].owner, i.buyer, i.actor)]]
  BY <1>1, <1>2, <1>3 DEF PersistAction, UpdateAsset, EventOf
<1> HIDE DEF i, a
<1> USE DEF AssetState, LiveStates, PreSaleStates, SoldStates, TerminalStates, Frozen, None,
            Lifecycle!LiveStates, Lifecycle!PreSaleStates, Lifecycle!SoldStates,
            Lifecycle!TerminalStates, Lifecycle!Frozen, Lifecycle!None
<1>7. CASE <<assets[a].current, i.action, target>> \in BusinessTransitions
  <2> DEFINE move == <<assets[a].current, i.action, target>>
             receiver == IF i.action = "LegalSell" THEN i.buyer ELSE i.actor
  <2>1. receiver \in User /\ move \in BusinessTransitions
    BY <1>2, <1>4, <1>7
  <2>2. OwnerAfter(i.action, assets[a].owner, i.buyer, i.actor)
           = Lifecycle!OwnerAfter(move[2], assets[a].owner, receiver)
    <3>1. move[2] = i.action /\ i.action # "Transfer"
      BY <1>2 DEF HandledActions
    <3> QED
      BY <3>1 DEF OwnerAfter, Lifecycle!OwnerAfter
  <2>3. PreviousAfter(assets[a].current, target) = None
    BY <1>7 DEF PreviousAfter, BusinessTransitions
  <2>4. assets' = [assets EXCEPT ![a] =
           [current |-> move[3], previous |-> None,
            owner |-> Lifecycle!OwnerAfter(move[2], @.owner, receiver)]]
    BY <1>2, <1>6, <2>2, <2>3
  <2>5. Lifecycle!Advance(a)
    BY <2>1, <2>4 DEF Lifecycle!Advance, BusinessTransitions, Lifecycle!BusinessTransitions
  <2> QED
    BY <1>2, <2>5 DEF Lifecycle!Next
<1>8. CASE i.action \in GovernanceActions
  <2>1. OwnerAfter(i.action, assets[a].owner, i.buyer, i.actor) = assets[a].owner
    BY <1>8 DEF OwnerAfter, GovernanceActions
  <2>2. <<assets[a].current, i.action, target>> \notin BusinessTransitions
    BY <1>8 DEF BusinessTransitions, GovernanceActions
  <2>3. CASE i.action = "Freeze"
    <3>1. assets[a].current \in LiveStates /\ target = Frozen
      BY <1>2, <1>5, <2>2, <2>3 DEF NextState, Verdicts, Rows
    <3>2. assets' = [assets EXCEPT ![a].current = Frozen, ![a].previous = assets[a].current]
      BY <1>2, <1>6, <2>1, <3>1 DEF Rows, PreviousAfter
    <3>3. Lifecycle!Freeze(a)
      BY <3>1, <3>2 DEF Lifecycle!Freeze
    <3> QED
      BY <1>2, <3>3 DEF Lifecycle!Next
  <2>4. CASE i.action = "Recover"
    <3>1. assets[a].current = Frozen /\ target = assets[a].previous /\ target # Frozen
      BY <1>2, <1>5, <2>2, <2>4 DEF NextState, Verdicts
    <3>2. assets' = [assets EXCEPT ![a].current = assets[a].previous, ![a].previous = None]
      BY <1>2, <1>6, <2>1, <3>1 DEF Rows, PreviousAfter
    <3>3. Lifecycle!Recover(a)
      BY <3>1, <3>2 DEF Lifecycle!Recover
    <3> QED
      BY <1>2, <3>3 DEF Lifecycle!Next
  <2>5. CASE i.action \notin {"Freeze", "Recover"}
    <3>1. <<i.action, target>> \in Verdicts
      BY <1>5, <2>2, <2>5 DEF NextState
    <3>2. target # Frozen
      BY <3>1 DEF Verdicts
    <3>3. assets' = [assets EXCEPT ![a].current = <<i.action, target>>[2], ![a].previous = None]
      BY <1>2, <1>6, <2>1, <3>2 DEF Rows, PreviousAfter
    <3>4. Lifecycle!Condemn(a)
      BY <1>4, <3>1, <3>3 DEF Lifecycle!Condemn, Verdicts, Lifecycle!Verdicts
    <3> QED
      BY <1>2, <3>4 DEF Lifecycle!Next
  <2> QED
    BY <2>3, <2>4, <2>5
<1> QED
  BY <1>5, <1>7, <1>8 DEF NextState, GovernanceActions, Verdicts

(***************************************************************************)
(* The handler of sequential clients implements the atomic lifecycle:      *)
(* every request, however often retried and wherever it fails, is one step *)
(* of AssetLifecycle or none.                                              *)
(***************************************************************************)
THEOREM Implements == ASSUME SequentialClients PROVE Spec => ImplementsLifecycle
<1>1. Init => Lifecycle!Init
  <2> USE DEF AssetState, LiveStates, PreSaleStates, SoldStates, TerminalStates, Frozen, None,
              Lifecycle!AssetState, Lifecycle!LiveStates, Lifecycle!PreSaleStates,
              Lifecycle!SoldStates, Lifecycle!TerminalStates, Lifecycle!Frozen, Lifecycle!None
  <2>1. Rows = Lifecycle!Records
    BY DEF Rows, OptState, Lifecycle!Records
  <2>2. \A row \in Rows : SoundRow(row) => Lifecycle!Coherent(row)
    BY DEF SoundRow, Lifecycle!Coherent, Lifecycle!Standing
  <2> QED
    BY <2>1, <2>2 DEF Init, StoreInit, Lifecycle!Init
<1>2. IInv /\ SInv /\ [Next]_vars => [Lifecycle!Next]_(Lifecycle!vars)
  <2> SUFFICES ASSUME IInv, SInv, [Next]_vars
               PROVE  Lifecycle!Next \/ UNCHANGED assets
    BY DEF Lifecycle!vars
  <2>1. CASE UNCHANGED vars
    BY <2>1 DEF vars, storeVars
  <2>2. ASSUME NEW r \in Request,
               \/ \E i \in Inputs : Receive(r, i)
               \/ LoadMiss(r) \/ LoadHit(r) \/ Fetch(r) \/ Fail(r)
        PROVE  UNCHANGED assets
    BY <2>2 DEF Receive, LoadMiss, LoadHit, Fetch, Fail, storeVars
  <2> QED
    BY <2>1, <2>2, PersistIsLifecycleStep DEF Next
<1> QED
  BY <1>1, <1>2, SequentialInvariance, PTL DEF Spec, ImplementsLifecycle, Lifecycle!Spec
=============================================================================
