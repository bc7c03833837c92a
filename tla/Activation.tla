----------------------------- MODULE Activation -----------------------------
(***************************************************************************)
(* The two activation handlers (rust/rc-api/src/routes/protocol.rs):       *)
(* activate maps the asset to a product, commits to it, binds the          *)
(* commitment and has brand and platform attest it; activate-entangle      *)
(* issues a virtual mother card and binds it.  Every statement is a step   *)
(* of its own and only the last one, persist_action, is a transaction with *)
(* the idempotency key in it.  Clients retry what failed.                  *)
(***************************************************************************)
EXTENDS AssetStore, KeyDerivation, FiniteSets

CONSTANTS Brand, Uid, Product,
          Columns,      \* the columns of a row that no handler changes
          Normalized,   \* normalize_uid: trimmed, in upper case
          Trimmed,      \* a product id without surrounding blanks
          Secret,       \* signing secrets
          Config,       \* environments a process may be started with,
          BrandSecret, PlatformSecret,   \* and the signing secrets in them
          Stock,        \* the states each asset is found in
          Asks,         \* the requests clients may send
          MaxTries,     \* bound: how often the client of each request sends it
          MaxFaults     \* bound: lost connections, lost commits and restarts

Card == Nat   \* vauth-{nanoid}: never drawn twice, numbered as they are drawn

AllAsks == [asset : Asset, action : {"ActivateRotateKeys", "ActivateEntangle"},
            role : ActorRole, brand : Brand \cup {None}, approval : BOOLEAN,
            previous : OptState, product : Product \cup {None}, key : Key,
            trace : Trace, headers : BOOLEAN]

ASSUME ActivationAssumption ==
    /\ Columns \in [Asset -> [brand : Brand, uid : Uid \cup {None},
                              epoch : Nat, key_epoch : Nat]]
    /\ Normalized \in [Uid -> Uid] /\ Trimmed \in [Product -> Product]
    /\ None \notin Uid \cup Product
    /\ Asks \subseteq AllAsks /\ Asks # {} /\ Stock \in [Asset -> SUBSET AssetState]
    /\ Request \subseteq Nat
    /\ MaxTries \in [Request -> Nat] /\ MaxFaults \in Nat /\ Config # {}
    /\ BrandSecret \in [Config -> Secret] /\ PlatformSecret \in [Config -> Secret]

VARIABLES mapping,      \* assets.external_product_id
          bound,        \* assets.asset_commitment_id
          commitments,  \* table asset_commitments; an id stands for its payload
          brandAtts,    \* table brand_attestations
          platAtts,     \* table platform_attestations
          devices,      \* table authority_devices, the virtual cards
          entangled,    \* the card of the asset's Active row in asset_entanglements
          config,       \* the environment of the process
          stage,        \* where each request stands
          ask,          \* what it asks
          read,         \* the AssetRecord it works on and the card it has drawn
          answer,       \* the HTTP answer
          tries,        \* how often it was sent
          faults,       \* how much has gone wrong
          overlap,      \* ghost: a request was sent while another was open
          rekeyed       \* ghost: a restart changed the environment

evidence == <<mapping, bound, commitments, brandAtts, platAtts>>
cards == <<devices, entangled>>
tables == <<storeVars, evidence, cards>>
control == <<ask, tries, overlap>>
deployment == <<config, rekeyed>>
vars == <<tables, deployment, stage, control, read, answer, faults>>

ActivateStages == {"map", "commit", "bind", "brand", "platform"}
Stages == {"idle", "load", "fetch", "card", "entangle", "persist", "done"} \cup ActivateStages
InFlight == {r \in Request : stage[r] \notin {"idle", "done"}}

\* The AssetCommitmentPayloadV1 of a product on an asset; batch and chip binding
\* follow from the asset, and compute_asset_commitment_id is taken as injective.
Commitment(a, p) ==
    [brand |-> Columns[a].brand, uid |-> Normalized[Columns[a].uid],
     epoch |-> Columns[a].key_epoch, product |-> Trimmed[p]]

NoCommitment == [brand |-> None, uid |-> None, epoch |-> 0, product |-> None]
Commitments == [brand : Brand, uid : Uid, epoch : Nat, product : Product]
Attestations == [commitment : Commitments, brand : Brand, secret : Secret]
PlatformAttestations == [commitment : Commitments, secret : Secret]

(***************************************************************************)
(* Rows of asset_state_events with what the answer of the request says of  *)
(* the commitment or of the card.                                          *)
(***************************************************************************)
ActivationEvents ==
    [action : AssetAction, from : AssetState, to : AssetState, key : Key,
     by : Request, at : Nat, commitment : Commitments \cup {NoCommitment}, card : Card]

Statuses == {"None", "Ok", "IdempotencyConflict", "TerminalState", "FrozenAsset",
             "PermissionDenied", "InvalidInput", "InvalidHeader",
             "InvalidStateTransition", "BrandBoundaryViolation", "Database"}

ActivationTypeOK ==
    /\ assets \in [Asset -> Rows] /\ origin \in [Asset -> Rows]
    /\ events \in [Asset -> Seq(ActivationEvents)]
    /\ \A rec \in idempotency : rec.key \in Key /\ rec.event \in Nat
    /\ mapping \in [Asset -> Product \cup {None}]
    /\ bound \in [Asset -> Commitments \cup {NoCommitment}]
    /\ commitments \subseteq Commitments
    /\ brandAtts \subseteq Attestations /\ platAtts \subseteq PlatformAttestations
    /\ \A d \in devices : d.uid \in Card /\ d.brand \in Brand /\ d.epoch \in Nat
    /\ entangled \in [Asset -> Card]
    /\ config \in Config
    /\ stage \in [Request -> Stages] /\ ask \in [Request -> AllAsks]
    /\ read \in [Request -> [current : AssetState, previous : OptState, at : Nat, card : Card]]
    /\ answer \in [Request -> [status : Statuses, event : Nat]]
    /\ tries \in [Request -> Nat] /\ faults \in Nat
    /\ overlap \in BOOLEAN /\ rekeyed \in BOOLEAN

-----------------------------------------------------------------------------
NoCard == 0
NoRead == [current |-> "PreMinted", previous |-> None, at |-> 0, card |-> NoCard]
NoAnswer == [status |-> "None", event |-> 0]

\* Assets registered before commitments and mother cards existed have none.
Init ==
    /\ StoreInit /\ \A a \in Asset : assets[a].current \in Stock[a]
    /\ mapping = [a \in Asset |-> None] /\ bound = [a \in Asset |-> NoCommitment]
    /\ commitments = {} /\ brandAtts = {} /\ platAtts = {}
    /\ devices = {} /\ entangled = [a \in Asset |-> NoCard]
    /\ config = CHOOSE c \in Config : TRUE   \* which one is a matter of naming
    /\ stage = [r \in Request |-> "idle"]
    /\ ask = [r \in Request |-> CHOOSE i \in Asks : TRUE]
    /\ read = [r \in Request |-> NoRead]
    /\ answer = [r \in Request |-> NoAnswer]
    /\ tries = [r \in Request |-> 0] /\ faults = 0
    /\ overlap = FALSE /\ rekeyed = FALSE

Goto(r, s) == stage' = [stage EXCEPT ![r] = s] /\ UNCHANGED <<read, answer>>

Proceed(r, s, rec) ==
    /\ stage' = [stage EXCEPT ![r] = s]
    /\ read' = [read EXCEPT ![r] = rec]
    /\ UNCHANGED answer

Answer(r, status, n) ==
    /\ stage' = [stage EXCEPT ![r] = "done"]
    /\ answer' = [answer EXCEPT ![r] = [status |-> status, event |-> n]]
    /\ read' = [read EXCEPT ![r] = NoRead]

\* request_hash: of an activation it has the product, of an entanglement the
\* approval and the previous state.
RequestHash(i) ==
    IF i.action = "ActivateRotateKeys"
    THEN [asset |-> i.asset, trace |-> i.trace, role |-> i.role, product |-> i.product]
    ELSE [asset |-> i.asset, trace |-> i.trace, role |-> i.role,
          approval |-> i.approval, previous |-> i.previous]

CheckBrandBoundary(i) ==
    i.role \in {"Brand", "Factory"} => i.brand = Columns[i.asset].brand

-----------------------------------------------------------------------------
(***************************************************************************)
(* The common part of both handlers.                                       *)
(***************************************************************************)
\* Requests are numbered as they arrive.
Receive(r, i) ==
    /\ stage[r] = "idle" /\ \A q \in Request : q < r => stage[q] # "idle"
    /\ IF i.action = "ActivateRotateKeys" /\ i.product = None
       THEN Answer(r, "InvalidInput", 0)
       ELSE IF ~i.headers THEN Answer(r, "InvalidHeader", 0)
       ELSE Goto(r, "load")
    /\ ask' = [ask EXCEPT ![r] = i]
    /\ tries' = [tries EXCEPT ![r] = 1]
    /\ overlap' = (overlap \/ InFlight # {})
    /\ UNCHANGED <<tables, deployment, faults>>

LoadIdempotency(r) ==
    /\ stage[r] = "load"
    /\ \/ RecordsOf(ask[r].key) = {} /\ Goto(r, "fetch")
       \/ \E rec \in RecordsOf(ask[r].key) :
             IF rec.hash = RequestHash(ask[r])
             THEN Answer(r, "Ok", rec.event)
             ELSE Answer(r, "IdempotencyConflict", 0)
    /\ UNCHANGED <<tables, deployment, control, faults>>

\* The boundary check and apply_action on the row a request has fetched.
Judge(r, rec, next) ==
    LET status == IF ~CheckBrandBoundary(ask[r]) THEN "BrandBoundaryViolation"
                  ELSE ApplyStatus(rec, ask[r].action, ask[r])
    IN IF status # "Ok" THEN Answer(r, status, 0)
       ELSE Proceed(r, next, [current |-> rec.current, previous |-> rec.previous,
                              at |-> rec.at, card |-> NoCard])

FetchToActivate(r) ==
    /\ stage[r] = "fetch" /\ ask[r].action = "ActivateRotateKeys"
    /\ Judge(r, FetchAsset(ask[r].asset, None), "map")
    /\ UNCHANGED <<tables, deployment, control, faults>>

\* Only here the body may name the previous state.
FetchToEntangle(r) ==
    /\ stage[r] = "fetch" /\ ask[r].action = "ActivateEntangle"
    /\ Judge(r, FetchAsset(ask[r].asset, ask[r].previous), "card")
    /\ UNCHANGED <<tables, deployment, control, faults>>

-----------------------------------------------------------------------------
(***************************************************************************)
(* activate: product mapping, commitment, binding, two attestations.       *)
(***************************************************************************)
MapProduct(r) ==
    /\ stage[r] = "map"
    /\ mapping' = [mapping EXCEPT ![ask[r].asset] = ask[r].product]
    /\ Goto(r, "commit")
    /\ UNCHANGED <<storeVars, bound, commitments, brandAtts, platAtts, cards, deployment,
                   control, faults>>

\* Mutant of InsertCommitment: a commitment stored before is taken as attested.
InsertCommitmentOnce(r) ==
    /\ stage[r] = "commit"
    /\ LET a == ask[r].asset IN
       IF Columns[a].uid = None
       THEN Answer(r, "InvalidInput", 0) /\ UNCHANGED commitments
       ELSE LET c == Commitment(a, ask[r].product) IN
            /\ commitments' = commitments \cup {c}
            /\ Goto(r, IF c \in commitments THEN "persist" ELSE "bind")
    /\ UNCHANGED <<storeVars, mapping, bound, brandAtts, platAtts, cards, deployment,
                   control, faults>>

\* An asset without a uid is refused here, its product already mapped.
InsertCommitment(r) ==
    /\ stage[r] = "commit"
    /\ LET a == ask[r].asset IN
       IF Columns[a].uid = None
       THEN Answer(r, "InvalidInput", 0) /\ UNCHANGED commitments
       ELSE /\ commitments' = commitments \cup {Commitment(a, ask[r].product)}
            /\ Goto(r, "bind")
    /\ UNCHANGED <<storeVars, mapping, bound, brandAtts, platAtts, cards, deployment,
                   control, faults>>

\* Mutant of BindCommitment: a bound commitment stays.
BindCommitmentFirst(r) ==
    /\ stage[r] = "bind"
    /\ bound' = [bound EXCEPT ![ask[r].asset] =
                   IF @ # NoCommitment THEN @ ELSE Commitment(ask[r].asset, ask[r].product)]
    /\ Goto(r, "brand")
    /\ UNCHANGED <<storeVars, mapping, commitments, brandAtts, platAtts, cards, deployment,
                   control, faults>>

BindCommitment(r) ==
    /\ stage[r] = "bind"
    /\ bound' = [bound EXCEPT ![ask[r].asset] = Commitment(ask[r].asset, ask[r].product)]
    /\ Goto(r, "brand")
    /\ UNCHANGED <<storeVars, mapping, commitments, brandAtts, platAtts, cards, deployment,
                   control, faults>>

\* An attestation of commitment c, signed with the secret of the environment.
BrandSigned(c, a) ==
    [commitment |-> c, brand |-> Columns[a].brand, secret |-> BrandSecret[config]]
PlatformSigned(c) == [commitment |-> c, secret |-> PlatformSecret[config]]

\* INSERT ... ON CONFLICT (asset_commitment_id, statement) DO NOTHING.
Attested(rows, new) ==
    IF \E t \in rows : t.commitment = new.commitment THEN rows ELSE rows \cup {new}

\* Mutant of AttestBrand: without ON CONFLICT a second attestation is an error.
AttestBrandStrict(r) ==
    /\ stage[r] = "brand"
    /\ LET c == Commitment(ask[r].asset, ask[r].product) IN
       IF \E t \in brandAtts : t.commitment = c
       THEN Answer(r, "Database", 0) /\ UNCHANGED brandAtts
       ELSE /\ brandAtts' = brandAtts \cup {BrandSigned(c, ask[r].asset)}
            /\ Goto(r, "platform")
    /\ UNCHANGED <<storeVars, mapping, bound, commitments, platAtts, cards, deployment,
                   control, faults>>

AttestBrand(r) ==
    /\ stage[r] = "brand"
    /\ LET c == Commitment(ask[r].asset, ask[r].product)
       IN brandAtts' = Attested(brandAtts, BrandSigned(c, ask[r].asset))
    /\ Goto(r, "platform")
    /\ UNCHANGED <<storeVars, mapping, bound, commitments, platAtts, cards, deployment,
                   control, faults>>

AttestPlatform(r) ==
    /\ stage[r] = "platform"
    /\ LET c == Commitment(ask[r].asset, ask[r].product)
       IN platAtts' = Attested(platAtts, PlatformSigned(c))
    /\ Goto(r, "persist")
    /\ UNCHANGED <<storeVars, mapping, bound, commitments, brandAtts, cards, deployment,
                   control, faults>>

-----------------------------------------------------------------------------
(***************************************************************************)
(* activate-entangle: generate_virtual_mother_card_with_result.  A card    *)
(* whose entanglement cannot be inserted stays behind unused.              *)
(***************************************************************************)
DeviceRow(uid, cols) ==
    [uid |-> uid, brand |-> cols.brand, epoch |-> cols.epoch,
     hash |-> Credential(cols.brand, uid, cols.epoch)]

InsertDevice(r) ==
    /\ stage[r] = "card"
    /\ LET cols == Columns[ask[r].asset]
           uid  == Cardinality(devices) + 1
       IN IF cols.uid = None
          THEN Answer(r, "InvalidInput", 0) /\ UNCHANGED devices
          ELSE /\ devices' = devices \cup {DeviceRow(uid, cols)}
               /\ Proceed(r, "entangle", [read[r] EXCEPT !.card = uid])
    /\ UNCHANGED <<storeVars, evidence, entangled, deployment, control, faults>>

\* Mutant of InsertEntanglement: the entanglement in place is replaced.
InsertEntanglementOver(r) ==
    /\ stage[r] = "entangle"
    /\ entangled' = [entangled EXCEPT ![ask[r].asset] = read[r].card]
    /\ Goto(r, "persist")
    /\ UNCHANGED <<storeVars, evidence, devices, deployment, control, faults>>

\* uq_entanglement_active admits one Active row of an asset.
InsertEntanglement(r) ==
    /\ stage[r] = "entangle"
    /\ IF entangled[ask[r].asset] # NoCard
       THEN Answer(r, "Database", 0) /\ UNCHANGED entangled
       ELSE /\ entangled' = [entangled EXCEPT ![ask[r].asset] = read[r].card]
            /\ Goto(r, "persist")
    /\ UNCHANGED <<storeVars, evidence, devices, deployment, control, faults>>

-----------------------------------------------------------------------------
\* Mutant of EventOf: the card the response shows is the last one in the table.
EventOfLastCard(r, target) ==
    LET i == ask[r] IN
    [action |-> i.action, from |-> read[r].current, to |-> target, key |-> i.key,
     by |-> r, at |-> read[r].at,
     commitment |-> IF i.action = "ActivateRotateKeys"
                    THEN Commitment(i.asset, i.product) ELSE NoCommitment,
     card |-> IF i.action = "ActivateEntangle" THEN Cardinality(devices) ELSE NoCard]

EventOf(r, target) ==
    LET i == ask[r] IN
    [action |-> i.action, from |-> read[r].current, to |-> target, key |-> i.key,
     by |-> r, at |-> read[r].at,
     commitment |-> IF i.action = "ActivateRotateKeys"
                    THEN Commitment(i.asset, i.product) ELSE NoCommitment,
     card |-> IF i.action = "ActivateEntangle" THEN read[r].card ELSE NoCard]

\* persist_action; the commit may go through without anybody hearing of it.
Persist(r) ==
    /\ stage[r] = "persist"
    /\ \E target \in AssetState :
          /\ NextState(read[r].current, ask[r].action, read[r].previous, target)
          /\ PersistAction(ask[r].asset, EventOf(r, target), RequestHash(ask[r]), None, None)
    /\ \/ Answer(r, "Ok", Len(events'[ask[r].asset])) /\ UNCHANGED faults
       \/ faults < MaxFaults /\ faults' = faults + 1 /\ Answer(r, "Database", 0)
    /\ UNCHANGED <<evidence, cards, deployment, control>>

\* A statement fails, or the client goes away and the handler is dropped.
Fail(r) ==
    /\ r \in InFlight /\ faults < MaxFaults
    /\ faults' = faults + 1
    /\ Answer(r, "Database", 0)
    /\ UNCHANGED <<tables, deployment, control>>

\* The process is stopped and started again, perhaps in another environment.
Restart ==
    /\ faults < MaxFaults /\ faults' = faults + 1
    /\ config' \in Config
    /\ rekeyed' = (rekeyed \/ config' # config)
    /\ stage' = [r \in Request |-> IF r \in InFlight THEN "done" ELSE stage[r]]
    /\ answer' = [r \in Request |-> IF r \in InFlight
                                    THEN [status |-> "Database", event |-> 0]
                                    ELSE answer[r]]
    /\ read' = [r \in Request |-> IF r \in InFlight THEN NoRead ELSE read[r]]
    /\ UNCHANGED <<tables, control>>

\* The client sends the request again, headers and all.
Retry(r) ==
    /\ stage[r] = "done" /\ answer[r].status = "Database"
    /\ tries[r] < MaxTries[r]
    /\ tries' = [tries EXCEPT ![r] = @ + 1]
    /\ Goto(r, "load")
    /\ overlap' = (overlap \/ InFlight # {})
    /\ UNCHANGED <<tables, deployment, ask, faults>>

Step(r) ==
    \/ (\E i \in Asks : Receive(r, i)) \/ LoadIdempotency(r)
    \/ FetchToActivate(r) \/ FetchToEntangle(r)
    \/ MapProduct(r) \/ InsertCommitment(r) \/ BindCommitment(r)
    \/ AttestBrand(r) \/ AttestPlatform(r)
    \/ InsertDevice(r) \/ InsertEntanglement(r)
    \/ Persist(r) \/ Fail(r) \/ Retry(r)

Next == (\E r \in Request : Step(r)) \/ Restart

Spec == Init /\ [][Next]_vars

-----------------------------------------------------------------------------
EventsOf(a, action) ==
    {n \in 1..Len(events[a]) : events[a][n].action = action}

Entangled(a) == entangled[a] # NoCard

(***************************************************************************)
(* Evidence before the record of it: however requests overlap, fail and    *)
(* restart, an ActivateRotateKeys event is committed only when the         *)
(* commitment it names is stored, bound to the tag and brand of the asset, *)
(* and attested by that brand and by the platform.                         *)
(***************************************************************************)
ActivationIsAttested ==
    \A a \in Asset : \A n \in EventsOf(a, "ActivateRotateKeys") :
        LET c == events[a][n].commitment IN
        /\ c \in commitments
        /\ c.brand = Columns[a].brand /\ c.uid = Normalized[Columns[a].uid]
        /\ \E t \in brandAtts : t.commitment = c /\ t.brand = Columns[a].brand
        /\ \E t \in platAtts : t.commitment = c

(***************************************************************************)
(* activate-entangle takes effect at most once for an asset, whatever keys *)
(* its requests carry and however they overlap: the unique index stands in *)
(* for the idempotency lookup that overlapping requests all pass.          *)
(***************************************************************************)
EntangledOnce ==
    \A a \in Asset : Cardinality(EventsOf(a, "ActivateEntangle")) <= 1

(***************************************************************************)
(* A card that was answered works: the virtual_mother_card of every        *)
(* successful answer, the replayed ones too, is the one entangled with the *)
(* asset, and its credential is what verify_virtual_authority recomputes   *)
(* from the row of the device.                                             *)
(***************************************************************************)
AnsweredCardWorks ==
    \A r \in Request :
        stage[r] = "done" /\ answer[r].status = "Ok" /\ ask[r].action = "ActivateEntangle" =>
            LET e == events[ask[r].asset][answer[r].event] IN
            /\ e.card = entangled[ask[r].asset]
            /\ \E d \in devices :
                  d.uid = e.card /\ d.hash = Credential(d.brand, d.uid, d.epoch)

(***************************************************************************)
(* Without overlap, an asset activated once shows one product: the mapped  *)
(* one is the one its bound commitment and its audit event commit to,      *)
(* failed attempts with other products before it notwithstanding.          *)
(***************************************************************************)
ProductIsCommitted ==
    ~overlap => \A a \in Asset : \A n \in EventsOf(a, "ActivateRotateKeys") :
        /\ bound[a] = events[a][n].commitment
        /\ mapping[a] \in Product /\ Trimmed[mapping[a]] = bound[a].product

(***************************************************************************)
(* Retrying settles what faults leave behind: a request sent more often    *)
(* than anything has gone wrong is carried out or refused for a reason.    *)
(* Only activate-entangle can be stuck on a database error, and only when  *)
(* a card is already entangled with the asset, by a rival or by its own    *)
(* first try, whose action was never persisted.                            *)
(***************************************************************************)
RetriesSettle ==
    \A r \in Request :
        stage[r] = "done" /\ answer[r].status = "Database" /\ tries[r] > faults =>
            ask[r].action = "ActivateEntangle" /\ Entangled(ask[r].asset)
=============================================================================
