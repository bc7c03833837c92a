----------------------------- MODULE AssetStore -----------------------------
(***************************************************************************)
(* The PostgreSQL tables the asset handlers share and the statements they  *)
(* run on them (rust/rc-api/src/db/mod.rs).  A statement of the pool is    *)
(* one atomic step, and so is a transaction: its UPDATE takes the row lock *)
(* first and keeps it until the commit.                                    *)
(***************************************************************************)
EXTENDS AssetProtocol, Naturals, Sequences

CONSTANTS Asset,    \* ids of the assets
          User,     \* ids of actors and buyers
          Key,      \* idempotency keys
          Trace,    \* X-Trace-Id values
          Request   \* one element per HTTP request that reaches a handler

ASSUME NoneAssumption == None \notin User

VARIABLES assets,       \* table assets: current_state, previous_state, owner_id
          origin,       \* ghost: the rows as the model finds them
          events,       \* table asset_state_events, one sequence per asset
          idempotency   \* table idempotency_records

storeVars == <<assets, origin, events, idempotency>>

OptState == AssetState \cup {None}
Rows == [current : AssetState, previous : OptState, owner : User \cup {None}]

\* What the request hash is built from; actor and buyer are not part of it.
Hashes == [asset : Asset, action : AssetAction, trace : Trace,
           role : ActorRole, approval : BOOLEAN, previous : OptState]

(***************************************************************************)
(* A row of asset_state_events.  by and at are ghosts: the request that    *)
(* wrote the row, and how many events of the asset were committed when     *)
(* that request read the asset.                                            *)
(***************************************************************************)
Events == [action : AssetAction, from : AssetState, to : AssetState,
           key : Key, by : Request, at : Nat]

\* response_snapshot is the event the first execution of the key wrote.
IdempotencyRecords == [key : Key, hash : Hashes, event : Nat]

StoreTypeOK ==
    /\ assets \in [Asset -> Rows]
    /\ origin \in [Asset -> Rows]
    /\ events \in [Asset -> Seq(Events)]
    /\ idempotency \subseteq IdempotencyRecords

-----------------------------------------------------------------------------
\* A row some history of completed requests leaves behind.
SoundRow(r) ==
    LET standing == IF r.current = Frozen THEN r.previous ELSE r.current IN
    /\ IF r.current = Frozen THEN r.previous \in LiveStates ELSE r.previous = None
    /\ standing \in SoldStates => r.owner \in User
    /\ standing \in PreSaleStates \cup {"Consumed", "Legacy"} => r.owner = None

StoreInit ==
    /\ assets \in [Asset -> {r \in Rows : SoundRow(r)}]
    /\ origin = assets
    /\ events = [a \in Asset |-> << >>]
    /\ idempotency = {}

-----------------------------------------------------------------------------
\* load_idempotency_record: the lookup is by key alone.
RecordsOf(k) == {rec \in idempotency : rec.key = k}

\* Mutant of FetchAsset: a frozen asset is seen in the state it had before.
FetchAssetThroughFreeze(a, override) ==
    [current  |-> IF assets[a].current = Frozen THEN assets[a].previous
                  ELSE assets[a].current,
     previous |-> IF override # None THEN override ELSE assets[a].previous,
     at       |-> Len(events[a])]

(***************************************************************************)
(* fetch_asset, followed by the override of execute_asset_action: a        *)
(* previous_state in the request body replaces the one of the row.         *)
(***************************************************************************)
FetchAsset(a, override) ==
    [current  |-> assets[a].current,
     previous |-> IF override # None THEN override ELSE assets[a].previous,
     at       |-> Len(events[a])]

\* Mutant of OwnerAfter: consumption leaves the owner in place.
OwnerAfterUse(action, owner, buyer, actor) ==
    CASE action = "LegalSell" -> buyer
      [] action = "Transfer"  -> actor
      [] action = "Legacy"    -> None
      [] OTHER                -> owner

\* The owner columns persist_action writes: see its match on the action.
OwnerAfter(action, owner, buyer, actor) ==
    CASE action = "LegalSell"              -> buyer
      [] action = "Transfer"               -> actor
      [] action \in {"Consume", "Legacy"}  -> None
      [] OTHER                             -> owner

\* UPDATE assets ... WHERE asset_id = $1: the state read earlier is not checked.
UpdateAsset(a, from, to, action, buyer, actor) ==
    assets' = [assets EXCEPT ![a] =
                 [current  |-> to,
                  previous |-> PreviousAfter(from, to),
                  owner    |-> OwnerAfter(action, @.owner, buyer, actor)]]

\* Mutant of InsertIdempotency: the key is left to a later statement.
InsertIdempotencyNever(k, hash, n) == UNCHANGED idempotency

\* INSERT INTO idempotency_records ... ON CONFLICT DO NOTHING
InsertIdempotency(k, hash, n) ==
    idempotency' = IF RecordsOf(k) # {} THEN idempotency
                   ELSE idempotency \cup {[key |-> k, hash |-> hash, event |-> n]}

(***************************************************************************)
(* persist_action: the transaction that updates the row and its owner,     *)
(* appends the audit event and records the idempotency key.                *)
(***************************************************************************)
PersistAction(a, event, hash, buyer, actor) ==
    /\ UpdateAsset(a, event.from, event.to, event.action, buyer, actor)
    /\ events' = [events EXCEPT ![a] = Append(@, event)]
    /\ InsertIdempotency(event.key, hash, Len(events[a]) + 1)
    /\ UNCHANGED origin

-----------------------------------------------------------------------------
\* The state the row of a had when n of its events were committed.
StateAt(a, n) == IF n = 0 THEN origin[a].current ELSE events[a][n].to
=============================================================================
