------------------------------ MODULE Transfer ------------------------------
(***************************************************************************)
(* The transfer route (rust/rc-api/src/routes/transfer.rs) next to the     *)
(* handlers of ActionHandler, on the same rows.  A transfer is a chain of  *)
(* single statements: read the asset, read its owner, read the mother      *)
(* card, take the tap, give the asset away, insert the transfer record,    *)
(* log the event.  The receiver then confirms or rejects the record.       *)
(***************************************************************************)
EXTENDS ActionHandler, Integers, FiniteSets

CONSTANTS Moves,      \* the transfers clients may ask for
          MaxCtr,     \* bound: the last counter a mother card gets to
          MaxActions  \* bound: how many of the requests are asset actions

AuthorityType == {"VIRTUAL_APP", "PHYSICAL_NFC"}
Ctr == 0..MaxCtr
NoCtr == -1   \* last_known_ctr IS NULL

AllMoves == [asset : Asset, actor : User, to : User, proof : AuthorityType,
             ctr : Ctr, key : Key]

ASSUME MovesAssumption ==
    MaxCtr \in Nat /\ MaxActions \in Nat /\ Moves \subseteq AllMoves /\ Moves # {}

VARIABLES devices,    \* table authority_devices: type and last counter of the active card
          transfers,  \* table asset_transfers
          stage,      \* where each transfer or settlement stands
          move,       \* what each transfer asks
          local,      \* what a transfer has read: state and owner, and the log's length
          verdict,    \* what each settlement asks
          reply,      \* the HTTP answer
          version,    \* ghost: the number of UPDATEs the row of an asset has seen
          seen,       \* ghost: the version a request read
          moved       \* ghost: the requests whose UPDATE gave an asset away

tableVars == <<devices, transfers>>
moveVars  == <<stage, move, local, verdict, reply>>
ghostVars == <<version, seen, moved>>
tvars == <<vars, tableVars, moveVars, ghostVars>>

MoveStages == {"asset", "owner", "device", "tap", "give", "insert", "log"}
Stages == MoveStages \cup {"idle", "find", "settle", "done"}
Outcomes == {"confirmed", "rejected"}
Devices == [type : AuthorityType, ctr : Ctr \cup {NoCtr}]
TransferRecords == [asset : Asset, from : User, to : User,
                    status : Outcomes \cup {"pending"}, by : Request]
Locals == [current : AssetState, owner : User \cup {None}, at : Nat]
Settlements == [record : Nat, outcome : Outcomes, actor : User]
Replies == [status : {"None", "Ok", "InvalidInput", "Forbidden", "Conflict", "Database"},
            record : Nat]

TransferTypeOK ==
    /\ TypeOK
    /\ devices \in [Asset -> Devices]
    /\ transfers \in Seq(TransferRecords)
    /\ stage \in [Request -> Stages]
    /\ move \in [Request -> AllMoves]
    /\ local \in [Request -> Locals]
    /\ verdict \in [Request -> Settlements]
    /\ reply \in [Request -> Replies]
    /\ version \in [Asset -> Nat]
    /\ seen \in [Request -> Nat]
    /\ moved \subseteq Request

-----------------------------------------------------------------------------
NoMove    == CHOOSE m \in Moves : TRUE   \* stands for a request not yet received
NoLocal   == [current |-> "PreMinted", owner |-> None, at |-> 0]
NoVerdict == [record |-> 0, outcome |-> "confirmed", actor |-> NoMove.actor]
NoReply   == [status |-> "None", record |-> 0]

TransferInit ==
    /\ Init
    /\ devices \in [Asset -> {d \in Devices : d.type = "VIRTUAL_APP" => d.ctr = NoCtr}]
    /\ transfers = << >>
    /\ stage = [r \in Request |-> "idle"]
    /\ move = [r \in Request |-> NoMove]
    /\ local = [r \in Request |-> NoLocal]
    /\ verdict = [r \in Request |-> NoVerdict]
    /\ reply = [r \in Request |-> NoReply]
    /\ version = [a \in Asset |-> 0]
    /\ seen = [r \in Request |-> 0]
    /\ moved = {}

Goto(r, s) ==
    /\ stage' = [stage EXCEPT ![r] = s]
    /\ UNCHANGED reply

Reply(r, status, n) ==
    /\ stage' = [stage EXCEPT ![r] = "done"]
    /\ reply' = [reply EXCEPT ![r] = [status |-> status, record |-> n]]

-----------------------------------------------------------------------------
(***************************************************************************)
(* transfer_handler, one action per statement.                             *)
(***************************************************************************)
StartTransfer(r, m) ==
    /\ pc[r] = "idle" /\ stage[r] = "idle"
    /\ Goto(r, "asset")
    /\ move' = [move EXCEPT ![r] = m]
    /\ UNCHANGED <<vars, tableVars, local, verdict, ghostVars>>

\* Mutant of ReadAsset: only the owner decides who may transfer.
ReadAssetAnyState(r) ==
    /\ stage[r] = "asset"
    /\ Goto(r, "owner")
    /\ LET a == move[r].asset IN
       /\ local' = [local EXCEPT ![r].current = assets[a].current,
                                 ![r].at = Len(events[a])]
       /\ seen' = [seen EXCEPT ![r] = version[a]]
    /\ UNCHANGED <<vars, tableVars, move, verdict, version, moved>>

\* fetch_asset: only a sold asset can be transferred.
ReadAsset(r) ==
    /\ stage[r] = "asset"
    /\ LET a == move[r].asset IN
       /\ IF assets[a].current \in SoldStates THEN Goto(r, "owner")
          ELSE Reply(r, "InvalidInput", 0)
       /\ local' = [local EXCEPT ![r].current = assets[a].current,
                                 ![r].at = Len(events[a])]
       /\ seen' = [seen EXCEPT ![r] = version[a]]
    /\ UNCHANGED <<vars, tableVars, move, verdict, version, moved>>

\* SELECT owner_id: only the current owner can transfer.
ReadOwner(r) ==
    /\ stage[r] = "owner"
    /\ LET owner == assets[move[r].asset].owner IN
       /\ \/ owner = move[r].actor /\ Goto(r, "device")
          \/ owner = None /\ Reply(r, "InvalidInput", 0)
          \/ owner \notin {None, move[r].actor} /\ Reply(r, "Forbidden", 0)
       /\ local' = [local EXCEPT ![r].owner = owner]
    /\ UNCHANGED <<vars, tableVars, move, verdict, ghostVars>>

\* fetch_authority_device_by_asset and the checks on what it returned.  A virtual
\* credential is decided here, a tap that repeats a counter fails fast.  A proof of
\* another user, card or key is refused like one of the other type; the child tag,
\* verified just before, changes nothing and is taken as genuine.
ReadDevice(r) ==
    /\ stage[r] = "device"
    /\ LET card == devices[move[r].asset] IN
       \/ /\ move[r].proof = card.type /\ card.type = "VIRTUAL_APP"
          /\ Goto(r, "give")
       \/ /\ move[r].proof = card.type /\ card.type = "PHYSICAL_NFC"
          /\ IF move[r].ctr > card.ctr THEN Goto(r, "tap") ELSE Reply(r, "Forbidden", 0)
       \/ move[r].proof # card.type /\ Reply(r, "Forbidden", 0)
    /\ UNCHANGED <<vars, tableVars, move, local, verdict, ghostVars>>

\* Mutant of Tap: the UPDATE has no condition, the read before it decides.
TapBlind(r) ==
    /\ stage[r] = "tap"
    /\ devices' = [devices EXCEPT ![move[r].asset].ctr = move[r].ctr]
    /\ Goto(r, "give")
    /\ UNCHANGED <<vars, transfers, move, local, verdict, ghostVars>>

\* atomic_update_ctr: the counter of the card only grows.  As with every write, the
\* handler may not hear of its commit.
Tap(r) ==
    /\ stage[r] = "tap"
    /\ LET a == move[r].asset IN
       \/ /\ move[r].ctr > devices[a].ctr
          /\ devices' = [devices EXCEPT ![a].ctr = move[r].ctr]
          /\ Goto(r, "give") \/ Reply(r, "Database", 0)
       \/ /\ move[r].ctr <= devices[a].ctr
          /\ Reply(r, "Forbidden", 0)
          /\ UNCHANGED devices
    /\ UNCHANGED <<vars, transfers, move, local, verdict, ghostVars>>

\* Mutant of GiveAway: an error of the UPDATE is only logged.
GiveAwayBestEffort(r) ==
    /\ stage[r] = "give"
    /\ Goto(r, "insert")
    /\ UNCHANGED <<vars, tableVars, move, local, verdict, ghostVars>>

\* UPDATE assets ... WHERE asset_id = $1: neither state nor owner is checked.  The
\* state read earlier goes to previous_state.
GiveAway(r) ==
    /\ stage[r] = "give"
    /\ LET a == move[r].asset IN
       /\ assets' = [assets EXCEPT ![a] =
             [current |-> "Transferred", previous |-> local[r].current,
              owner |-> move[r].to]]
       /\ version' = [version EXCEPT ![a] = @ + 1]
    /\ moved' = moved \cup {r}
    /\ Goto(r, "insert") \/ Reply(r, "Database", 0)
    /\ UNCHANGED <<origin, events, idempotency, reqVars, tableVars, move, local,
                   verdict, seen>>

\* Mutant of InsertTransfer: the status is left out.
InsertTransferNoStatus(r) ==
    /\ stage[r] = "insert"
    /\ transfers' = Append(transfers,
          [asset |-> move[r].asset, from |-> local[r].owner, to |-> move[r].to,
           status |-> None, by |-> r])
    /\ Goto(r, "log")
    /\ UNCHANGED <<vars, devices, move, local, verdict, ghostVars>>

\* insert_transfer: the record is pending.
InsertTransfer(r) ==
    /\ stage[r] = "insert"
    /\ transfers' = Append(transfers,
          [asset |-> move[r].asset, from |-> local[r].owner, to |-> move[r].to,
           status |-> "pending", by |-> r])
    /\ Goto(r, "log") \/ Reply(r, "Database", 0)
    /\ UNCHANGED <<vars, devices, move, local, verdict, ghostVars>>

\* The audit event is written at best effort; the answer is a success either way.
LogTransfer(r) ==
    /\ stage[r] = "log"
    /\ \/ events' = [events EXCEPT ![move[r].asset] = Append(@,
             [action |-> "Transfer", from |-> local[r].current, to |-> "Transferred",
              key |-> move[r].key, by |-> r, at |-> local[r].at])]
       \/ UNCHANGED events
    /\ \/ \E n \in DOMAIN transfers : transfers[n].by = r /\ Reply(r, "Ok", n)
       \/ Reply(r, "Database", 0)
    /\ UNCHANGED <<assets, origin, idempotency, reqVars, tableVars, move, local,
                   verdict, ghostVars>>

-----------------------------------------------------------------------------
(***************************************************************************)
(* confirm_transfer_handler and reject_transfer_handler.                   *)
(***************************************************************************)
StartSettlement(r, v) ==
    /\ pc[r] = "idle" /\ stage[r] = "idle"
    /\ v.record \in DOMAIN transfers
    /\ Goto(r, "find")
    /\ verdict' = [verdict EXCEPT ![r] = v]
    /\ UNCHANGED <<vars, tableVars, move, local, ghostVars>>

\* fetch_transfer: only the target owner settles.
FindTransfer(r) ==
    /\ stage[r] = "find"
    /\ IF verdict[r].actor = transfers[verdict[r].record].to
       THEN Goto(r, "settle")
       ELSE Reply(r, "Forbidden", 0)
    /\ UNCHANGED <<vars, tableVars, move, local, verdict, ghostVars>>

\* Mutant of Settle: the handler has looked at the record, the UPDATE does not.
SettleBlind(r) ==
    /\ stage[r] = "settle"
    /\ transfers' = [transfers EXCEPT ![verdict[r].record].status = verdict[r].outcome]
    /\ Reply(r, "Ok", verdict[r].record) \/ Reply(r, "Database", 0)
    /\ UNCHANGED <<vars, devices, move, local, verdict, ghostVars>>

\* update_transfer_status: only a pending record is updated.
Settle(r) ==
    /\ stage[r] = "settle"
    /\ LET n == verdict[r].record IN
       \/ /\ transfers[n].status = "pending"
          /\ transfers' = [transfers EXCEPT ![n].status = verdict[r].outcome]
          /\ Reply(r, "Ok", n) \/ Reply(r, "Database", 0)
       \/ /\ transfers[n].status # "pending"
          /\ Reply(r, "Conflict", 0)
          /\ UNCHANGED transfers
    /\ UNCHANGED <<vars, devices, move, local, verdict, ghostVars>>

\* A database error, a dropped connection or a crash ends the request where it is.
Abandon(r) ==
    /\ stage[r] \in MoveStages \cup {"find", "settle"}
    /\ Reply(r, "Database", 0)
    /\ UNCHANGED <<vars, tableVars, move, local, verdict, ghostVars>>

-----------------------------------------------------------------------------
TransferStep(r) ==
    \/ \E m \in Moves : StartTransfer(r, m)
    \/ ReadAsset(r) \/ ReadOwner(r) \/ ReadDevice(r) \/ Tap(r)
    \/ GiveAway(r) \/ InsertTransfer(r) \/ LogTransfer(r)
    \/ \E v \in [record : DOMAIN transfers, outcome : Outcomes, actor : User] :
          StartSettlement(r, v)
    \/ FindTransfer(r) \/ Settle(r)
    \/ Abandon(r)

\* The steps of the asset actions, with the ghosts they concern.
ActionStep(r) ==
    /\ \/ /\ \/ /\ stage[r] = "idle"
                /\ Cardinality({q \in Request : pc[q] # "idle"}) < MaxActions
                /\ \E i \in Inputs : Receive(r, i)
             \/ LoadMiss(r) \/ LoadHit(r) \/ Fail(r)
          /\ UNCHANGED <<version, seen>>
       \/ /\ Fetch(r)
          /\ seen' = [seen EXCEPT ![r] = version[input[r].asset]]
          /\ UNCHANGED version
       \/ /\ Persist(r)
          /\ version' = [version EXCEPT ![input[r].asset] = @ + 1]
          /\ UNCHANGED seen
    /\ UNCHANGED <<tableVars, moveVars, moved>>

TransferNext == \E r \in Request : TransferStep(r) \/ ActionStep(r)

TransferSpec == TransferInit /\ [][TransferNext]_tvars

-----------------------------------------------------------------------------
(***************************************************************************)
(* One tap of a physical mother card authorises at most one transfer of    *)
(* its asset, however the requests that carry it interleave and whoever    *)
(* crashes: the early check in verify_physical_authority may let several   *)
(* through, atomic_update_ctr only one.                                    *)
(***************************************************************************)
TapMovesOnce ==
    \A r, s \in moved :
        /\ move[r].asset = move[s].asset
        /\ devices[move[r].asset].type = "PHYSICAL_NFC"
        /\ move[r].ctr = move[s].ctr
        => r = s

(***************************************************************************)
(* A transfer record is a view of a transfer that took place               *)
(* (docs/foundation/protocol-definition.md:420): its asset was given to    *)
(* its target by an owner who held it when asked, once.  A transfer that   *)
(* was answered with success has its record.                               *)
(***************************************************************************)
RecordsAreBacked ==
    /\ \A n \in DOMAIN transfers :
          LET rec == transfers[n] IN
          /\ rec.by \in moved
          /\ rec.asset = move[rec.by].asset
          /\ rec.from = move[rec.by].actor
          /\ rec.to = move[rec.by].to
          /\ \A k \in DOMAIN transfers : transfers[k].by = rec.by => k = n
    /\ \A r \in moved : reply[r].status = "Ok" =>
          reply[r].record \in DOMAIN transfers /\ transfers[reply[r].record].by = r

(***************************************************************************)
(* Who was told that a transfer is confirmed, or rejected, was told the    *)
(* truth for good, and was its receiver (docs/ops/stage-5-error-matrix.md  *)
(* :31): confirmations and rejections in flight together settle it once.   *)
(***************************************************************************)
SettledAsAnswered ==
    \A r \in Request : reply[r].status = "Ok" /\ r \notin moved =>
        /\ reply[r].record = verdict[r].record
        /\ transfers[reply[r].record].status = verdict[r].outcome
        /\ transfers[reply[r].record].to = verdict[r].actor

\* The rows as the lifecycle sees them: a transfer leaves the old state in
\* previous_state, which means nothing unless the asset is frozen.
AsRecorded(row) == [row EXCEPT !.previous = IF row.current = Frozen THEN @ ELSE None]
Recorded == [a \in Asset |-> AsRecorded(assets[a])]

Life == INSTANCE AssetLifecycle WITH record <- Recorded

\* Request r writes the row of a in this step.
Writes(r, a) ==
    \/ stage[r] = "give" /\ move[r].asset = a /\ version'[a] # version[a] /\ stage'[r] # stage[r]
    \/ pc[r] = "persist" /\ input[r].asset = a /\ version'[a] # version[a] /\ pc'[r] # pc[r]

(***************************************************************************)
(* Whoever overwrites nothing does right: an UPDATE, of an asset action or *)
(* of a transfer, that finds the row as its request read it is a step of   *)
(* AssetLifecycle, and a transfer gives away what its actor owns.  So the  *)
(* missing condition in the two UPDATEs is all that separates the handlers *)
(* from the lifecycle under any interleaving.  (A recovery that names its  *)
(* previous_state is the exception, see RecoverRestores.)                  *)
(***************************************************************************)
FreshStepsAreLegal ==
    [][\A r \in Request, a \in Asset :
          /\ Writes(r, a) /\ seen[r] = version[a]
          /\ pc[r] = "persist" => input[r].previous = None
          => /\ Life!Next
             /\ stage[r] = "give" => assets[a].owner = move[r].actor]_tvars
=============================================================================
