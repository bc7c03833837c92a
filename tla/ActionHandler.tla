---------------------------- MODULE ActionHandler ----------------------------
(***************************************************************************)
(* The write handlers of rc-api that go through execute_asset_action       *)
(* (rust/rc-api/src/routes/protocol.rs).  Each HTTP request is a process:  *)
(* it loads the record of its idempotency key, fetches the asset, applies  *)
(* the action to what it fetched, and persists the outcome, with other     *)
(* requests running in between at every await.                             *)
(***************************************************************************)
EXTENDS AssetStore

CONSTANTS Inputs,  \* the requests clients may send
          Serial   \* TRUE: clients never have two requests open at once

\* The actions routed to execute_asset_action; rotating keys and entangling
\* have handlers of their own, a transfer is another route.
HandledActions == AssetAction \ {"ActivateRotateKeys", "ActivateEntangle", "Transfer"}

AllInputs == [asset : Asset, action : HandledActions, role : ActorRole,
              actor : User, approval : BOOLEAN, buyer : User \cup {None},
              previous : OptState, key : Key, trace : Trace]

ASSUME InputsAssumption ==
    Inputs \subseteq AllInputs /\ Inputs # {} /\ Serial \in BOOLEAN

VARIABLES pc,      \* where each request stands
          input,   \* what each request asks
          read,    \* the AssetRecord each request works on, and when it was read
          fresh,   \* ghost: no record of the key existed when the request came in
          answer   \* the HTTP answer

reqVars == <<pc, input, read, fresh, answer>>
vars == <<storeVars, reqVars>>

Stage == {"idle", "load", "fetch", "persist", "done"}
Status == {"None", "Ok", "IdempotencyConflict", "TerminalState", "FrozenAsset",
           "PermissionDenied", "InvalidInput", "InvalidStateTransition", "Database"}
Reads == [current : AssetState, previous : OptState, at : Nat]
Answers == [status : Status, event : Nat]

TypeOK ==
    /\ StoreTypeOK
    /\ pc \in [Request -> Stage]
    /\ input \in [Request -> AllInputs]
    /\ read \in [Request -> Reads]
    /\ fresh \in [Request -> BOOLEAN]
    /\ answer \in [Request -> Answers]

-----------------------------------------------------------------------------
NoRead == [current |-> "PreMinted", previous |-> None, at |-> 0]
NoAnswer == [status |-> "None", event |-> 0]
NoInput == CHOOSE i \in Inputs : TRUE   \* stands for an input not yet received

Init ==
    /\ StoreInit
    /\ pc = [r \in Request |-> "idle"]
    /\ input = [r \in Request |-> NoInput]
    /\ read = [r \in Request |-> NoRead]
    /\ fresh = [r \in Request |-> FALSE]
    /\ answer = [r \in Request |-> NoAnswer]

InFlight == {r \in Request : pc[r] \in {"load", "fetch", "persist"}}

Answer(r, status, n) ==
    /\ pc' = [pc EXCEPT ![r] = "done"]
    /\ answer' = [answer EXCEPT ![r] = [status |-> status, event |-> n]]

\* Mutant of RequestHash: the action is left out.
RequestHashNoAction(i) ==
    [asset |-> i.asset, action |-> "Freeze", trace |-> i.trace,
     role |-> i.role, approval |-> i.approval, previous |-> i.previous]

RequestHash(i) == [asset |-> i.asset, action |-> i.action, trace |-> i.trace,
                   role |-> i.role, approval |-> i.approval, previous |-> i.previous]

-----------------------------------------------------------------------------
(***************************************************************************)
(* A request comes in.  A sale without a buyer is refused at once.         *)
(***************************************************************************)
Receive(r, i) ==
    /\ pc[r] = "idle"
    /\ Serial => InFlight = {}
    /\ IF i.action = "LegalSell" /\ i.buyer = None
       THEN Answer(r, "InvalidInput", 0)
       ELSE /\ pc' = [pc EXCEPT ![r] = "load"]
            /\ UNCHANGED answer
    /\ input' = [input EXCEPT ![r] = i]
    /\ fresh' = [fresh EXCEPT ![r] = RecordsOf(i.key) = {}]
    /\ UNCHANGED <<storeVars, read>>

\* Mutant of LoadMiss: only a record of the very same request counts.
LoadMissOfHash(r) ==
    /\ pc[r] = "load"
    /\ \A rec \in RecordsOf(input[r].key) : rec.hash # RequestHash(input[r])
    /\ pc' = [pc EXCEPT ![r] = "fetch"]
    /\ UNCHANGED <<storeVars, input, read, fresh, answer>>

(***************************************************************************)
(* The first database call: a known key is answered from its record, or    *)
(* refused when the request differs from the recorded one.                 *)
(***************************************************************************)
LoadMiss(r) ==
    /\ pc[r] = "load"
    /\ RecordsOf(input[r].key) = {}
    /\ pc' = [pc EXCEPT ![r] = "fetch"]
    /\ UNCHANGED <<storeVars, input, read, fresh, answer>>

LoadHit(r) ==
    /\ pc[r] = "load"
    /\ \E rec \in RecordsOf(input[r].key) :
          IF rec.hash = RequestHash(input[r])
          THEN Answer(r, "Ok", rec.event)
          ELSE Answer(r, "IdempotencyConflict", 0)
    /\ UNCHANGED <<storeVars, input, read, fresh>>

(***************************************************************************)
(* The second database call, and apply_action on what it returned.         *)
(***************************************************************************)
Fetch(r) ==
    /\ pc[r] = "fetch"
    /\ LET rec    == FetchAsset(input[r].asset, input[r].previous)
           status == ApplyStatus(rec, input[r].action, input[r])
       IN /\ read' = [read EXCEPT ![r] = rec]
          /\ IF status = "Ok"
             THEN /\ pc' = [pc EXCEPT ![r] = "persist"]
                  /\ UNCHANGED answer
             ELSE Answer(r, status, 0)
    /\ UNCHANGED <<storeVars, input, fresh>>

\* The event request r writes when its step leads to target.
EventOf(r, target) ==
    [action |-> input[r].action, from |-> read[r].current, to |-> target,
     key |-> input[r].key, by |-> r, at |-> read[r].at]

\* Mutant of Persist: the transaction runs again when its commit was not heard of.
PersistAgain(r) ==
    /\ pc[r] = "persist"
    /\ \E target \in AssetState :
          /\ NextState(read[r].current, input[r].action, read[r].previous, target)
          /\ PersistAction(input[r].asset, EventOf(r, target),
                           RequestHash(input[r]), input[r].buyer, input[r].actor)
    /\ \/ Answer(r, "Ok", Len(events'[input[r].asset]))
       \/ UNCHANGED <<pc, answer>>
    /\ Len(events[input[r].asset]) < 3   \* bound: the retries end
    /\ UNCHANGED <<input, read, fresh>>

(***************************************************************************)
(* The third database call, the transaction.  Its commit may succeed       *)
(* without the handler or the client ever learning it.                     *)
(***************************************************************************)
Persist(r) ==
    /\ pc[r] = "persist"
    /\ \E target \in AssetState :
          /\ NextState(read[r].current, input[r].action, read[r].previous, target)
          /\ PersistAction(input[r].asset, EventOf(r, target),
                           RequestHash(input[r]), input[r].buyer, input[r].actor)
    /\ \/ Answer(r, "Ok", Len(events'[input[r].asset]))
       \/ Answer(r, "Database", 0)
    /\ UNCHANGED <<input, read, fresh>>

(***************************************************************************)
(* A database error, a dropped connection or a crash of the process ends   *)
(* the request between two calls; nothing of it is left in the database.   *)
(***************************************************************************)
Fail(r) ==
    /\ r \in InFlight
    /\ Answer(r, "Database", 0)
    /\ UNCHANGED <<storeVars, input, read, fresh>>

Next == \E r \in Request :
    \/ \E i \in Inputs : Receive(r, i)
    \/ LoadMiss(r) \/ LoadHit(r)
    \/ Fetch(r)
    \/ Persist(r)
    \/ Fail(r)

Spec == Init /\ [][Next]_vars

-----------------------------------------------------------------------------
(***************************************************************************)
(* Reference definition of a legal step, from the state tables of          *)
(* docs/foundation/state-machine.md and not from the code: the business    *)
(* path in order, the two ends of use, freeze, recovery, condemnation.     *)
(***************************************************************************)
BusinessPath == << "PreMinted", "FactoryLogged", "Unassigned", "RotatingKeys",
                   "EntangledPending", "Activated", "LegallySold", "Transferred" >>

LegalStep(from, to) ==
    \/ \E i \in 1..7 : from = BusinessPath[i] /\ to = BusinessPath[i + 1]
    \/ from = "Transferred" /\ to = "Transferred"
    \/ from \in SoldStates /\ to \in {"Consumed", "Legacy"}
    \/ from \in LiveStates /\ to = Frozen
    \/ from = Frozen /\ to \in LiveStates
    \/ from \in LiveStates \cup {Frozen} /\ to \in {"Tampered", "Compromised", "Destructed"}

(***************************************************************************)
(* However requests interleave and wherever they die, every audit event    *)
(* tells a legal step of the state machine that started from a state the   *)
(* asset really was in, no later than the event: persist_action may be     *)
(* late, it never invents history.                                         *)
(***************************************************************************)
AuditExplainsSteps ==
    \A a \in Asset : \A i \in DOMAIN events[a] :
        LET e == events[a][i] IN
        /\ e.at < i
        /\ e.from = StateAt(a, e.at)
        /\ LegalStep(e.from, e.to)

(***************************************************************************)
(* The row and the audit log never disagree: current_state is where the    *)
(* last committed event led, previous_state what that event froze.  One    *)
(* transaction of persist_action writes both, at any interleaving, crash   *)
(* or lost commit.                                                         *)
(***************************************************************************)
RowMatchesAudit ==
    \A a \in Asset :
        LET n == Len(events[a]) IN
        IF n = 0 THEN assets[a] = origin[a]
        ELSE /\ assets[a].current = events[a][n].to
             /\ assets[a].previous =
                   (IF events[a][n].to = Frozen THEN events[a][n].from ELSE None)

(***************************************************************************)
(* A frozen asset always remembers a state it can be recovered to: neither *)
(* a freeze that raced with another action nor a double freeze leaves      *)
(* Disputed with a previous_state that Recover refuses.                    *)
(***************************************************************************)
FrozenIsRecoverable ==
    \A a \in Asset : assets[a].current = Frozen => assets[a].previous \in LiveStates

(***************************************************************************)
(* A retry is safe once the first execution is committed, acknowledged or  *)
(* not: a request that comes in after its idempotency key was recorded     *)
(* never writes an event.                                                  *)
(***************************************************************************)
RetryNeverReexecutes ==
    \A a \in Asset : \A i \in DOMAIN events[a] : fresh[events[a][i].by]

\* The committed event the answer to r names.
AnswerIsTrue(r) ==
    LET n   == answer[r].event
        log == events[input[r].asset]
    IN /\ n \in DOMAIN log
       /\ log[n].key = input[r].key
       /\ log[n].action = input[r].action
       /\ log[n].by # r => \A m \in 1..(n - 1) : log[m].key # input[r].key

(***************************************************************************)
(* An answer tells the truth: a success names a committed event of the     *)
(* asked asset, action and key; the one the request wrote itself, or else  *)
(* the first execution of that key on the asset.                           *)
(***************************************************************************)
AnswersAreTrue ==
    \A r \in Request : answer[r].status = "Ok" => AnswerIsTrue(r)

-----------------------------------------------------------------------------
(***************************************************************************)
(* The properties below are the protocol's promises that rest on requests  *)
(* not overlapping: persist_action does not check that the state it        *)
(* replaces is the state it was computed from.                             *)
(***************************************************************************)

(***************************************************************************)
(* No event ever follows one that led to a terminal state                  *)
(* (docs/foundation/state-machine.md 5.1).                                 *)
(***************************************************************************)
TerminalIsFinal ==
    \A a \in Asset : \A i \in DOMAIN events[a] : StateAt(a, i - 1) \notin TerminalStates

(***************************************************************************)
(* While the asset is frozen no business action is committed               *)
(* (docs/foundation/state-machine.md 5.3).                                 *)
(***************************************************************************)
FreezeBlocksBusiness ==
    \A a \in Asset : \A i \in DOMAIN events[a] :
        StateAt(a, i - 1) = Frozen => events[a][i].action \notin BusinessActions

(***************************************************************************)
(* One idempotency key is executed at most once, on any asset              *)
(* (docs/engineering/technical-solution.md 10.2).                          *)
(***************************************************************************)
OneExecutionPerKey ==
    \A a, b \in Asset : \A i \in DOMAIN events[a], j \in DOMAIN events[b] :
        events[a][i].key = events[b][j].key => a = b /\ i = j

(***************************************************************************)
(* The owner column fits the state: sold assets have an owner, unsold,     *)
(* consumed and legacy ones have none, through every freeze.               *)
(***************************************************************************)
OwnershipCoherent == \A a \in Asset : SoundRow(assets[a])

(***************************************************************************)
(* Recovery leads back to the previous_state the database holds            *)
(* (rust/rc-core/src/protocol.rs:48).                                      *)
(***************************************************************************)
RecoverRestores ==
    [][\A a \in Asset :
          assets[a].current = Frozen /\ assets'[a].current \in LiveStates =>
              assets'[a].current = assets[a].previous]_vars

(***************************************************************************)
(* With requests one at a time and no previous_state sent by clients, the  *)
(* handler with all its calls, retries and failures is the atomic machine  *)
(* of AssetLifecycle.                                                      *)
(***************************************************************************)
Lifecycle == INSTANCE AssetLifecycle WITH record <- assets
ImplementsLifecycle == Lifecycle!Spec
=============================================================================
