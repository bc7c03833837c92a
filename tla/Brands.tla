------------------------------- MODULE Brands -------------------------------
(***************************************************************************)
(* Brands, their API keys and their batches                                *)
(* (rust/rc-api/src/routes/brand.rs, routes/batch.rs, db/brands.rs,        *)
(* db/batches.rs), the authentication in front of them (auth/), and the    *)
(* brand boundary of the read routes, those of assets included.            *)
(*                                                                         *)
(* The id a request generates, of a brand, a key or a batch, is the number *)
(* of the request.  A transaction of PostgreSQL shows its rows when it     *)
(* commits; a row it has written keeps writers of the same row waiting.    *)
(***************************************************************************)
EXTENDS Naturals, FiniteSets

CONSTANTS Request,   \* the requests, numbered as they arrive
          Seed,      \* the brands there are at the start, each with an asset
          Email,     \* the addresses clients send, blanks included
          Trimmed,   \* the address without its blanks
          Asks,      \* what clients may ask for
          MaxReads,  \* bound: how many of the requests are reads
          None

Id == Request \cup Seed
Role == {"Platform", "Brand", "Factory", "Consumer", "Moderator"}
BrandOps == {"brand", "keys", "update"}
ReadOps  == BrandOps \cup {"brands", "names", "batch", "batches", "asset", "assets"}
Ops == ReadOps \cup {"register", "rotate", "create_batch", "close_batch"}

\* The credentials are an API key (via) or a token with a role and perhaps a brand.
Actors == [role : Role, brand : Id \cup {None}]
AllAsks == [op : Ops, via : Id \cup {None}, claims : Actors,
            target : Id \cup {None}, email : Email, valid : BOOLEAN]

ASSUME BrandsAssumption ==
    /\ Request \subseteq Nat /\ Seed \subseteq Nat /\ Request \cap Seed = {}
    /\ None \notin Nat /\ None \notin Email
    /\ Trimmed \in [Email -> Email] /\ \A e \in Email : Trimmed[Trimmed[e]] = Trimmed[e]
    /\ Asks \subseteq AllAsks /\ Asks # {} /\ MaxReads \in Nat /\ IsFiniteSet(Request)

VARIABLES brands,   \* table brands: the address of each brand, None without a row
          keys,     \* table api_keys
          batches,  \* table batches
          clock,    \* the time of the database: it tells BEGINs and COMMITs apart
          stage,    \* the next statement of each request
          ask, actor,
          began,    \* NOW() of the transaction of a request
          old,      \* the key a rotation revokes
          shown,    \* the brands whose rows an answer shows
          answer,
          ended     \* ghost: when the transaction of a request committed

tables == <<brands, keys, batches>>
local  == <<ask, actor, began, old, shown>>
vars   == <<tables, clock, stage, local, answer, ended>>

Stages == {"idle", "auth", "run", "begin", "insert", "fetch", "revoke", "commit", "close", "done"}
Answers == {"None", "Ok", "Unauthorized", "Denied", "Boundary", "InvalidInput", "Conflict",
            "NotFound", "Database"}
Keys == [brand : Id, status : {"None", "Active", "Revoked"}, at : Nat]
Batches == [brand : Id, status : {"None", "Open", "Closed"}]

TypeOK ==
    /\ brands \in [Id -> Email \cup {None}]
    /\ keys \in [Id -> Keys]
    /\ batches \in [Id -> Batches]
    /\ clock \in Nat
    /\ stage \in [Request -> Stages]
    /\ ask \in [Request -> AllAsks]
    /\ actor \in [Request -> Actors]
    /\ began \in [Request -> Nat] /\ ended \in [Request -> Nat]
    /\ old \in [Request -> Id \cup {None}]
    /\ shown \in [Request -> SUBSET Id]
    /\ answer \in [Request -> Answers]
    /\ \A r \in Request :
          stage[r] \in {"revoke", "commit"} /\ ask[r].op = "rotate" => old[r] \in Id

Registered == {b \in Id : brands[b] # None}
KeysOf(b)  == {k \in Id : keys[k].brand = b /\ keys[k].status # "None"}
Active(b)  == {k \in Id : keys[k].brand = b /\ keys[k].status = "Active"}

-----------------------------------------------------------------------------
NoAsk   == CHOOSE a \in Asks : TRUE
NoActor == [role |-> "Consumer", brand |-> None]

\* A seeded brand has a key of its own, or none: the migration creates no keys.
Init ==
    /\ brands \in {f \in [Id -> Email \cup {None}] :
                      /\ \A b \in Id : f[b] # None <=> b \in Seed
                      /\ \A b \in Seed : f[b] = Trimmed[f[b]]
                      /\ \A b, c \in Seed : f[b] = f[c] => b = c}
    /\ \E keyed \in SUBSET Seed :
          keys = [k \in Id |-> [brand |-> k, at |-> 0,
                                status |-> IF k \in keyed THEN "Active" ELSE "None"]]
    /\ batches = [b \in Id |-> [brand |-> b, status |-> "None"]]
    /\ clock = 0
    /\ stage = [r \in Request |-> "idle"]
    /\ ask = [r \in Request |-> NoAsk] /\ actor = [r \in Request |-> NoActor]
    /\ began = [r \in Request |-> 0] /\ ended = [r \in Request |-> 0]
    /\ old = [r \in Request |-> None] /\ shown = [r \in Request |-> {}]
    /\ answer = [r \in Request |-> "None"]

Goto(r, s) == stage' = [stage EXCEPT ![r] = s] /\ UNCHANGED answer
Answer(r, a) ==
    /\ stage' = [stage EXCEPT ![r] = "done"]
    /\ answer' = [answer EXCEPT ![r] = a]

-----------------------------------------------------------------------------
\* The keys clients hold: those they were answered, for a key is shown only once.
Known == Seed \cup {r \in Request : answer[r] = "Ok" /\ ask[r].op \in {"register", "rotate"}}

Receive(r, a) ==
    /\ stage[r] = "idle" /\ \A s \in Request : s < r => stage[s] # "idle"
    /\ a.via \in Known \cup {None}
    /\ a.op \in ReadOps => Cardinality({s \in Request : s < r /\ ask[s].op \in ReadOps}) < MaxReads
    /\ Goto(r, "auth")
    /\ ask' = [ask EXCEPT ![r] = a]
    /\ UNCHANGED <<tables, clock, actor, began, old, shown, ended>>

\* Claims::validate, and the same check of build_fallback_claims.
Validate(claims) == claims.role \in {"Brand", "Factory"} => claims.brand # None

\* fetch_brand_by_api_key_hash: the status of the brand plays no part.
KeyOpens(k) == keys[k].status = "Active" /\ keys[k].brand \in Registered

FirstStep(op) ==
    CASE op = "close_batch" -> "fetch"
      [] op = "rotate"      -> "begin"
      [] OTHER              -> "run"

(***************************************************************************)
(* auth_middleware and the extractor.  The key plays no part any more once *)
(* it has let a request in.                                                *)
(***************************************************************************)
Authenticate(r) ==
    /\ stage[r] = "auth"
    /\ LET via == ask[r].via
           claims == IF via = None THEN ask[r].claims
                     ELSE [role |-> "Brand", brand |-> keys[via].brand]
           known == IF via = None THEN Validate(ask[r].claims)
                    ELSE KeyOpens(via)
       IN IF known
          THEN actor' = [actor EXCEPT ![r] = claims] /\ Goto(r, FirstStep(ask[r].op))
          ELSE Answer(r, "Unauthorized") /\ UNCHANGED actor
    /\ UNCHANGED <<tables, clock, ask, began, old, shown, ended>>

-----------------------------------------------------------------------------
(***************************************************************************)
(* Who may do what.                                                        *)
(***************************************************************************)
Bounded(a, b) == a.role \in {"Brand", "Factory"} => a.brand = b

\* Mutant of CheckBrandAccess: having a brand is enough.
CheckBrandAccessAny(a, b, roles) ==
    CASE a.role = "Platform" -> "Ok"
      [] a.role \in roles    -> IF a.brand # None THEN "Ok" ELSE "Boundary"
      [] OTHER               -> "Denied"

\* check_brand_read_access and check_brand_write_access.
CheckBrandAccess(a, b, roles) ==
    CASE a.role = "Platform" -> "Ok"
      [] a.role \in roles    -> IF Bounded(a, b) THEN "Ok" ELSE "Boundary"
      [] OTHER               -> "Denied"

\* The batch of id b, if there is one.
BatchRow(b) == {batches[c] : c \in {x \in Id \cap {b} : batches[x].status # "None"}}

Check(ok, refusal) == IF ok THEN "Ok" ELSE refusal

\* validate_name, validate_email, validate_industry, the length of a list of ids.
ValidInput(q) == q.valid

UpdateAnswer(a, q) ==
    LET access == CheckBrandAccess(a, q.target, {"Brand"}) IN
    IF access = "Ok" THEN Check(ValidInput(q), "InvalidInput") ELSE access

ListBrandsAnswer(a) == Check(a.role \in {"Platform", "Brand", "Factory"}, "Denied")

\* list_assets: the only list that refuses whoever has no brand.
ListAssetsAnswer(a, b) ==
    IF a.role # "Platform" /\ a.brand = None THEN "Denied"
    ELSE Check(a.role = "Platform" \/ b \in {None, a.brand}, "Boundary")

\* get_asset, get_asset_history and get_asset_attestations; get_batch.
AssetAnswer(a, b) == Check(b \in Seed => Bounded(a, b), "Boundary")
BatchAnswer(a, b) == Check(\A row \in BatchRow(b) : Bounded(a, row.brand), "Boundary")

\* What a read route answers actor a who asks q.
ReadAnswer(a, q) ==
    CASE q.op \in {"brand", "keys"} -> CheckBrandAccess(a, q.target, {"Brand", "Factory"})
      [] q.op = "update" -> UpdateAnswer(a, q)
      [] q.op = "names"  -> Check(ValidInput(q), "InvalidInput")
      [] q.op = "brands" -> ListBrandsAnswer(a)
      [] q.op = "asset"  -> AssetAnswer(a, q.target)
      [] q.op = "batch"  -> BatchAnswer(a, q.target)
      [] q.op = "assets" -> ListAssetsAnswer(a, q.target)
      [] OTHER           -> "Ok"

-----------------------------------------------------------------------------
\* The brand_filter of the list routes: no filter for whoever has no brand.
Filter(a) == IF a.role = "Platform" \/ a.brand = None THEN Id ELSE {a.brand}

\* The brands whose rows the SELECTs return: the brand b alone, as it is after its
\* updated_at was written, in a list of names; the brands, the batches and the
\* assets of a list; and the asset, named by its brand.
FetchBrand(b)    == {b} \cap Registered
UpdatedBrand(b)  == FetchBrand(b)
BrandNames(b)    == FetchBrand(b)
ListBrands(a)    == Filter(a) \cap Registered
ListKeys(b)      == {c \in {b} \cap Id : KeysOf(c) # {}}
ListBatches(a)   == Filter(a) \cap {row.brand : row \in UNION {BatchRow(c) : c \in Id}}
FetchAsset(b)    == {b} \cap Seed
ListAssets(a, b) == (IF b # None THEN {b} ELSE Filter(a)) \cap Seed

Rows(a, q) ==
    CASE q.op = "brand"   -> FetchBrand(q.target)
      [] q.op = "update"  -> UpdatedBrand(q.target)
      [] q.op = "names"   -> BrandNames(q.target)
      [] q.op = "keys"    -> ListKeys(q.target)
      [] q.op = "brands"  -> ListBrands(a)
      [] q.op = "asset"   -> FetchAsset(q.target)
      [] q.op = "assets"  -> ListAssets(a, q.target)
      [] q.op = "batch"   -> {row.brand : row \in BatchRow(q.target)}
      [] q.op = "batches" -> ListBatches(a)

\* The routes whose answer needs a row.
NeedsRow(op) == op \in {"brand", "update", "batch", "asset"}

\* The read routes; update_brand writes nothing but updated_at.  The total of a
\* list, counted by a statement of its own, and the pages are left out.
Read(r) ==
    /\ stage[r] = "run" /\ ask[r].op \in ReadOps
    /\ LET op == ask[r].op
           status == ReadAnswer(actor[r], ask[r])
           rows   == Rows(actor[r], ask[r])
       IN \/ status # "Ok" /\ Answer(r, status) /\ UNCHANGED shown
          \/ /\ status = "Ok" /\ NeedsRow(op) /\ rows = {}
             /\ Answer(r, "NotFound") /\ UNCHANGED shown
          \/ /\ status = "Ok" /\ (NeedsRow(op) => rows # {})
             /\ Answer(r, "Ok") /\ shown' = [shown EXCEPT ![r] = rows]
    /\ UNCHANGED <<tables, clock, ask, actor, began, old, ended>>

\* The checks in front of the writes, and what they refuse.
RegisterAnswer(a, q) ==
    IF a.role # "Platform" THEN "Denied"
    ELSE IF ~ValidInput(q) THEN "InvalidInput"
    ELSE Check(\A c \in Id : brands[c] # q.email, "Conflict")

CreateBatchAnswer(a, b) ==
    IF a.role \notin {"Platform", "Brand", "Factory"} THEN "Denied"
    ELSE Check(Bounded(a, b), "Boundary")

Refusal(r) ==
    CASE ask[r].op = "register"     -> RegisterAnswer(actor[r], ask[r])
      [] ask[r].op = "create_batch" -> CreateBatchAnswer(actor[r], ask[r].target)
      [] OTHER                      -> "Ok"

Refuse(r) ==
    /\ stage[r] = "run" /\ Refusal(r) # "Ok"
    /\ Answer(r, Refusal(r))
    /\ UNCHANGED <<tables, clock, local, ended>>

-----------------------------------------------------------------------------
(***************************************************************************)
(* register_brand.  The address is looked up as it was sent and stored     *)
(* without its blanks.                                                     *)
(***************************************************************************)
LookUpEmail(r) ==
    /\ stage[r] = "run" /\ ask[r].op = "register" /\ Refusal(r) = "Ok"
    /\ Goto(r, "begin")
    /\ UNCHANGED <<tables, clock, local, ended>>

\* BEGIN of register_brand and, behind its access check, of rotate_api_key.
Begin(r) ==
    /\ stage[r] = "begin"
    /\ LET access == IF ask[r].op = "rotate"
                     THEN CheckBrandAccess(actor[r], ask[r].target, {"Brand"}) ELSE "Ok"
       IN \/ /\ access = "Ok"
             /\ clock' = clock + 1
             /\ began' = [began EXCEPT ![r] = clock + 1]
             /\ Goto(r, IF ask[r].op = "rotate" THEN "fetch" ELSE "insert")
          \/ access # "Ok" /\ Answer(r, access) /\ UNCHANGED <<clock, began>>
    /\ UNCHANGED <<tables, ask, actor, old, shown, ended>>

\* An open transaction has inserted the address.
Inserting(s, e) ==
    stage[s] = "commit" /\ ask[s].op = "register" /\ Trimmed[ask[s].email] = e

\* Mutant of CreateBrand: no unique index, the look-up decides.
CreateBrandUnchecked(r) ==
    /\ stage[r] = "insert"
    /\ Goto(r, "commit")
    /\ UNCHANGED <<tables, clock, local, ended>>

\* create_brand: an INSERT of an address another transaction has inserted waits for it.
CreateBrand(r) ==
    /\ stage[r] = "insert"
    /\ LET e == Trimmed[ask[r].email] IN
       /\ \A s \in Request \ {r} : ~Inserting(s, e)
       /\ IF \E b \in Id : brands[b] = e THEN Answer(r, "Conflict") ELSE Goto(r, "commit")
    /\ UNCHANGED <<tables, clock, local, ended>>

-----------------------------------------------------------------------------
(***************************************************************************)
(* rotate_api_key.                                                         *)
(***************************************************************************)

\* Mutant of FetchActiveKey: a brand without a key goes on without one.
FetchActiveKeyOptional(r) ==
    /\ stage[r] = "fetch" /\ ask[r].op = "rotate"
    /\ Goto(r, "revoke")
    /\ old' = [old EXCEPT ![r] = IF Active(ask[r].target) = {} THEN None
                                 ELSE CHOOSE k \in Active(ask[r].target) : TRUE]
    /\ UNCHANGED <<tables, clock, ask, actor, began, shown, ended>>

\* fetch_active_api_key: the newest active key, which the SELECT does not lock.
FetchActiveKey(r) ==
    /\ stage[r] = "fetch" /\ ask[r].op = "rotate"
    /\ LET active == Active(ask[r].target) IN
       IF active = {} THEN Answer(r, "Database") /\ UNCHANGED old
       ELSE /\ Goto(r, "revoke")
            /\ \E k \in active :
                  /\ \A j \in active : keys[j].at <= keys[k].at
                  /\ old' = [old EXCEPT ![r] = k]
    /\ UNCHANGED <<tables, clock, ask, actor, began, shown, ended>>

\* An open transaction has revoked the key.
Revoking(s, k) == stage[s] = "commit" /\ ask[s].op = "rotate" /\ old[s] = k

\* Mutant of RevokeKey: the UPDATE is no part of the transaction.
RevokeKeyAtOnce(r) ==
    /\ stage[r] = "revoke"
    /\ Goto(r, "commit")
    /\ keys' = [keys EXCEPT ![old[r]].status = "Revoked"]
    /\ UNCHANGED <<brands, batches, clock, local, ended>>

\* revoke_api_key: waits for another transaction that has written the row, and
\* writes it whatever its status has become.
RevokeKey(r) ==
    /\ stage[r] = "revoke"
    /\ \A s \in Request \ {r} : ~Revoking(s, old[r])
    /\ Goto(r, "commit")
    /\ UNCHANGED <<tables, clock, local, ended>>

\* Mutant of Written: the new key is added and the old one kept.
WrittenBoth(r) ==
    LET b == IF ask[r].op = "register" THEN r ELSE ask[r].target
    IN [keys EXCEPT ![r] = [brand |-> b, status |-> "Active", at |-> began[r]]]

\* The keys when the transaction of r has committed.
Written(r) ==
    LET b == IF ask[r].op = "register" THEN r ELSE ask[r].target
        new == [brand |-> b, status |-> "Active", at |-> began[r]]
    IN [k \in Id |-> IF k = r THEN new
                     ELSE IF ask[r].op = "rotate" /\ k = old[r] THEN [keys[k] EXCEPT !.status = "Revoked"]
                     ELSE keys[k]]

\* create_api_key, whose row nobody sees before, and COMMIT; the answer to the
\* COMMIT may be lost.
Commit(r) ==
    /\ stage[r] = "commit"
    /\ clock' = clock + 1 /\ ended' = [ended EXCEPT ![r] = clock + 1]
    /\ keys' = Written(r)
    /\ brands' = IF ask[r].op = "register"
                 THEN [brands EXCEPT ![r] = Trimmed[ask[r].email]] ELSE brands
    /\ Answer(r, "Ok") \/ Answer(r, "Database")
    /\ UNCHANGED <<batches, local>>

-----------------------------------------------------------------------------
(***************************************************************************)
(* Batches.                                                                *)
(***************************************************************************)

\* create_batch: the brand of a batch is a foreign key.
CreateBatch(r) ==
    /\ stage[r] = "run" /\ ask[r].op = "create_batch" /\ Refusal(r) = "Ok"
    /\ LET b == ask[r].target IN
       \/ /\ b \in Registered
          /\ batches' = [batches EXCEPT ![r] = [brand |-> b, status |-> "Open"]]
          /\ Answer(r, "Ok") \/ Answer(r, "Database")
       \/ b \notin Registered /\ Answer(r, "Database") /\ UNCHANGED batches
    /\ UNCHANGED <<brands, keys, clock, local, ended>>

\* close_batch first reads the batch, then checks who asks.
FetchBatch(r) ==
    /\ stage[r] = "fetch" /\ ask[r].op = "close_batch"
    /\ LET b == ask[r].target  a == actor[r] IN
       \/ (b = None \/ batches[b].status = "None") /\ Answer(r, "NotFound")
       \/ /\ b # None /\ batches[b].status # "None"
          /\ IF a.role \notin {"Platform", "Brand"} THEN Answer(r, "Denied")
             ELSE IF ~Bounded(a, batches[b].brand) THEN Answer(r, "Boundary")
             ELSE Goto(r, "close")
    /\ UNCHANGED <<tables, clock, local, ended>>

\* Mutant of CloseBatch: the UPDATE does not look at the status.
CloseBatchAgain(r) ==
    /\ stage[r] = "close"
    /\ batches' = [batches EXCEPT ![ask[r].target].status = "Closed"]
    /\ Answer(r, "Ok")
    /\ UNCHANGED <<brands, keys, clock, local, ended>>

CloseBatch(r) ==
    /\ stage[r] = "close"
    /\ \/ /\ batches[ask[r].target].status = "Open"
          /\ batches' = [batches EXCEPT ![ask[r].target].status = "Closed"]
          /\ Answer(r, "Ok") \/ Answer(r, "Database")
       \/ /\ batches[ask[r].target].status # "Open"
          /\ Answer(r, "InvalidInput") /\ UNCHANGED batches
    /\ UNCHANGED <<brands, keys, clock, local, ended>>

-----------------------------------------------------------------------------
\* A statement fails or the server stops: an open transaction leaves nothing.
Fail(r) ==
    /\ stage[r] \notin {"idle", "done"}
    /\ Answer(r, IF stage[r] = "auth" THEN "Unauthorized" ELSE "Database")
    /\ UNCHANGED <<tables, clock, local, ended>>

Next ==
    \E r \in Request :
        \/ \E a \in Asks : Receive(r, a)
        \/ Authenticate(r) \/ Read(r) \/ Refuse(r)
        \/ LookUpEmail(r) \/ Begin(r) \/ CreateBrand(r)
        \/ FetchActiveKey(r) \/ RevokeKey(r) \/ Commit(r)
        \/ CreateBatch(r) \/ FetchBatch(r) \/ CloseBatch(r)
        \/ Fail(r)

Spec == Init /\ [][Next]_vars

-----------------------------------------------------------------------------
(***************************************************************************)
(* A brand is never locked out: a brand that was registered, or that had a *)
(* key at all, has an active key at every moment, whatever rotations       *)
(* overlap, fail half-way or lose their answer.                            *)
(***************************************************************************)
AlwaysAKey ==
    \A b \in Id : (b \in Request /\ b \in Registered) \/ KeysOf(b) # {} => Active(b) # {}

Rotated == {r \in Request : ask[r].op = "rotate" /\ keys[r].status # "None"}

(***************************************************************************)
(* What spec-04-brand-registration.md:333 says of a rotation, as far as    *)
(* the code has it: the revoked keys are the ones the rotations name, and  *)
(* two rotations name the same key, leaving two keys behind, only when     *)
(* neither had ended before the other began.                               *)
(***************************************************************************)
OldKeyDies ==
    /\ \A k \in Id : keys[k].status = "Revoked" <=> \E r \in Rotated : old[r] = k
    /\ \A r, s \in Rotated : r # s /\ old[r] = old[s] => began[r] < ended[s]

\* Two brands never have the same address, however registrations race and
\* whatever blanks they send.
EmailOnce ==
    \A b, c \in Registered : brands[b] = brands[c] => b = c

(***************************************************************************)
(* The brand boundary: to an actor of a brand a route shows rows of that   *)
(* brand only, the names of /brands/batch excepted, and the keys and       *)
(* batches he makes or closes belong to it.  A key opens the brand of the  *)
(* rotation or registration that handed it out.                            *)
(***************************************************************************)
BoundaryHolds ==
    \A r \in Request :
        actor[r].role \in {"Brand", "Factory"} =>
            LET b == actor[r].brand IN
            /\ ask[r].op # "names" => shown[r] \subseteq {b}
            /\ keys[r].status # "None" => keys[r].brand = b
            /\ batches[r].status # "None" => batches[r].brand = b
            /\ ask[r].op = "close_batch" /\ answer[r] = "Ok" => batches[ask[r].target].brand = b
            /\ ask[r].via # None => b = keys[ask[r].via].brand

\* A batch is closed by one request: whoever is told that he closed it is the
\* only one, and it stays closed.
ClosedByOne ==
    \A r, s \in Request :
        LET Closed(x) == ask[x].op = "close_batch" /\ answer[x] = "Ok" IN
        /\ Closed(r) => batches[ask[r].target].status = "Closed"
        /\ Closed(r) /\ Closed(s) /\ ask[r].target = ask[s].target => r = s
=============================================================================
