---------------------------- MODULE BrandsProofs ----------------------------
(***************************************************************************)
(* Proofs about Brands for any number of requests, brands and addresses,   *)
(* and whatever the requests ask.                                          *)
(***************************************************************************)
EXTENDS Brands, TLAPS

BrandActor(r) == actor[r].role \in {"Brand", "Factory"}

\* Which operation a stage belongs to.
OpStages ==
    \A r \in Request :
        /\ stage[r] = "run" => ask[r].op \notin {"rotate", "close_batch"}
        /\ stage[r] \in {"begin", "commit"} => ask[r].op \in {"register", "rotate"}
        /\ stage[r] = "insert" => ask[r].op = "register"
        /\ stage[r] = "fetch" => ask[r].op \in {"rotate", "close_batch"}
        /\ stage[r] = "revoke" => ask[r].op = "rotate"
        /\ stage[r] = "close" => ask[r].op = "close_batch"

\* A request under way has left no trace, and nobody is let in before he is known.
NoTrace ==
    \A r \in Request :
        /\ stage[r] # "done" =>
              /\ answer[r] = "None" /\ shown[r] = {}
              /\ brands[r] = None /\ keys[r].status = "None" /\ batches[r].status = "None"
        /\ stage[r] \in {"idle", "auth"} => actor[r].role = "Consumer"

\* What the checks have established for an actor of a brand.
Authorized ==
    \A r \in Request : BrandActor(r) =>
        /\ actor[r].brand \in Id
        /\ ask[r].via # None => keys[ask[r].via].status # "None"
        /\ ask[r].op = "register" => stage[r] \notin {"begin", "insert", "commit"}
        /\ ask[r].op = "rotate" /\ stage[r] \in {"fetch", "revoke", "commit"} =>
              ask[r].target = actor[r].brand
        /\ stage[r] = "close" => batches[ask[r].target].brand = actor[r].brand

\* The key a rotation replaces is one of the brand it rotates for.
KeyHeld ==
    \A r \in Request :
        ask[r].op = "rotate" /\ (stage[r] \in {"revoke", "commit"} \/ keys[r].status # "None") =>
            /\ old[r] \in Id
            /\ keys[old[r]].brand = ask[r].target /\ keys[old[r]].status # "None"

\* The batch a request closes exists.
BatchHeld ==
    \A r \in Request :
        ask[r].op = "close_batch" /\ (stage[r] = "close" \/ answer[r] = "Ok") =>
            ask[r].target \in Id /\ batches[ask[r].target].status # "None"

Clocks == \A r \in Request : began[r] <= clock /\ ended[r] <= clock

\* Whoever has, or is about to revoke, a key that another rotation has revoked
\* began before that one ended.
Overtaken ==
    \A r \in Request : \A s \in Rotated :
        /\ r # s /\ old[r] = old[s] /\ ask[r].op = "rotate"
        /\ stage[r] \in {"revoke", "commit"} \/ keys[r].status # "None"
        => began[r] < ended[s]

\* The address of an open registration is nobody's, and of no other one.
AddressHeld ==
    \A r \in Request : stage[r] = "commit" /\ ask[r].op = "register" =>
        /\ \A b \in Id : brands[b] # Trimmed[ask[r].email]
        /\ \A s \in Request \ {r} : ~Inserting(s, Trimmed[ask[r].email])

KeysInv    == KeyHeld /\ Clocks /\ Overtaken /\ AlwaysAKey /\ OldKeyDies
BatchesInv == BatchHeld /\ ClosedByOne
BInv ==
    /\ TypeOK /\ OpStages /\ NoTrace
    /\ Authorized /\ BoundaryHolds
    /\ KeysInv /\ BatchesInv
    /\ AddressHeld /\ EmailOnce

LEMMA InitBInv == Init => BInv
<1> SUFFICES ASSUME Init PROVE BInv
  OBVIOUS
<1> USE BrandsAssumption
<1>1. NoAsk \in AllAsks /\ NoActor \in Actors /\ NoActor.role = "Consumer" /\ None \notin Id
  BY DEF NoAsk, NoActor, Actors, Role, Id
<1>2. TypeOK
  <2>1. brands \in [Id -> Email \cup {None}]
    BY DEF Init
  <2>2. keys \in [Id -> Keys] /\ batches \in [Id -> Batches]
    BY DEF Init, Keys, Batches
  <2> QED
    BY <1>1, <2>1, <2>2 DEF Init, TypeOK, Stages, Answers
<1>3. \A r \in Request : brands[r] = None /\ keys[r].status = "None" /\ batches[r].status = "None"
  BY DEF Init, Id
<1>a. /\ clock = 0
      /\ \A r \in Request :
            /\ stage[r] = "idle" /\ answer[r] = "None" /\ shown[r] = {}
            /\ actor[r] = NoActor /\ began[r] = 0 /\ ended[r] = 0
  <2>1. /\ clock = 0 /\ stage = [r \in Request |-> "idle"] /\ answer = [r \in Request |-> "None"]
        /\ shown = [r \in Request |-> {}] /\ actor = [r \in Request |-> NoActor]
        /\ began = [r \in Request |-> 0] /\ ended = [r \in Request |-> 0]
    BY Zenon DEF Init
  <2> QED
    BY <2>1
<1>4. OpStages /\ NoTrace
  BY <1>1, <1>3, <1>a DEF OpStages, NoTrace
<1>5. Authorized /\ BoundaryHolds
  BY <1>1 DEF Init, Authorized, BoundaryHolds, BrandActor
<1>6. Rotated = {} /\ \A k \in Id : keys[k].status # "Revoked" /\ keys[k].brand = k
  <2>1. PICK keyed \in SUBSET Seed :
          keys = [k \in Id |-> [brand |-> k, at |-> 0,
                                status |-> IF k \in keyed THEN "Active" ELSE "None"]]
    BY Zenon DEF Init
  <2> QED
    BY <1>3, <2>1 DEF Rotated
<1>7. AlwaysAKey
  <2> SUFFICES ASSUME NEW b \in Id, (b \in Request /\ b \in Registered) \/ KeysOf(b) # {}
               PROVE  Active(b) # {}
    BY DEF AlwaysAKey
  <2>1. PICK k \in KeysOf(b) : TRUE
    BY <1>3 DEF Registered
  <2> QED
    BY <1>6, <2>1, <1>2 DEF KeysOf, Active, TypeOK, Keys
<1>8. KeysInv
  BY <1>3, <1>6, <1>7, <1>a DEF KeysInv, KeyHeld, Clocks, Overtaken, OldKeyDies
<1>9. BatchesInv /\ AddressHeld
  BY DEF Init, BatchesInv, BatchHeld, ClosedByOne, AddressHeld
<1>10. EmailOnce
  BY DEF Init, EmailOnce, Registered
<1> QED
  BY <1>2, <1>4, <1>5, <1>8, <1>9, <1>10 DEF BInv

-----------------------------------------------------------------------------
\* A request that is refused, or fails, leaves everything as it was.
LEMMA RefusedOk ==
    ASSUME BInv, NEW r \in Request, stage[r] \notin {"idle", "done"},
           NEW a \in Answers \ {"Ok"}, Answer(r, a), UNCHANGED <<tables, clock, local, ended>>
    PROVE  BInv'
<1>1. /\ stage' = [stage EXCEPT ![r] = "done"] /\ answer' = [answer EXCEPT ![r] = a]
      /\ UNCHANGED <<brands, keys, batches, clock, ask, actor, began, old, shown, ended>>
  BY DEF Answer, tables, local
<1>2. TypeOK'
  BY <1>1 DEF BInv, TypeOK, Stages
<1>3. OpStages' /\ NoTrace'
  BY <1>1 DEF BInv, TypeOK, OpStages, NoTrace
<1>4. Authorized' /\ BoundaryHolds'
  BY <1>1 DEF BInv, TypeOK, Authorized, BrandActor, BoundaryHolds
<1>5. KeysInv'
  BY <1>1 DEF BInv, TypeOK, KeysInv, KeyHeld, Clocks, Overtaken, AlwaysAKey, OldKeyDies,
     Rotated, KeysOf, Active, Registered
<1>6. BatchesInv'
  BY <1>1 DEF BInv, TypeOK, BatchesInv, BatchHeld, ClosedByOne
<1>7. AddressHeld' /\ EmailOnce'
  BY <1>1 DEF BInv, TypeOK, AddressHeld, Inserting, EmailOnce, Registered
<1> QED
  BY <1>2, <1>3, <1>4, <1>5, <1>6, <1>7 DEF BInv

\* The steps that only go on to the next statement.
LEMMA ReceiveOk ==
    ASSUME BInv, NEW r \in Request, NEW a \in Asks, Receive(r, a)
    PROVE  BInv'
<1>0. a \in AllAsks
  BY BrandsAssumption
<1>1. /\ stage[r] = "idle" /\ stage' = [stage EXCEPT ![r] = "auth"]
      /\ ask' = [ask EXCEPT ![r] = a]
      /\ UNCHANGED <<brands, keys, batches, clock, answer, actor, began, old, shown, ended>>
  BY DEF Receive, Goto, tables
<1>2. TypeOK'
  BY <1>0, <1>1 DEF BInv, TypeOK, Stages
<1>3. keys[r].status = "None" /\ answer[r] = "None" /\ ~BrandActor(r) /\ ~BrandActor(r)'
      /\ batches[r].status = "None"
  BY <1>1 DEF BInv, NoTrace, BrandActor
<1>4. OpStages' /\ NoTrace'
  BY <1>1 DEF BInv, TypeOK, OpStages, NoTrace
<1>5. Authorized' /\ BoundaryHolds'
  BY <1>1, <1>3 DEF BInv, TypeOK, Authorized, BrandActor, BoundaryHolds
<1>6. Rotated' = Rotated
  BY <1>1, <1>3 DEF BInv, TypeOK, Rotated
<1>7. KeysInv'
  BY <1>1, <1>3, <1>6 DEF BInv, TypeOK, KeysInv, KeyHeld, Clocks, Overtaken, AlwaysAKey, OldKeyDies,
     KeysOf, Active, Registered
<1>8. BatchesInv'
  BY <1>1, <1>3 DEF BInv, TypeOK, BatchesInv, BatchHeld, ClosedByOne
<1>9. AddressHeld' /\ EmailOnce'
  BY <1>1 DEF BInv, TypeOK, AddressHeld, Inserting, EmailOnce, Registered
<1> QED
  BY <1>2, <1>4, <1>5, <1>7, <1>8, <1>9 DEF BInv

LEMMA AuthenticateOk ==
    ASSUME BInv, NEW r \in Request, Authenticate(r)
    PROVE  BInv'
<1> DEFINE via == ask[r].via
           claims == IF via = None THEN ask[r].claims
                     ELSE [role |-> "Brand", brand |-> keys[via].brand]
           known == IF via = None THEN Validate(ask[r].claims) ELSE KeyOpens(via)
<1>0. /\ ask[r] \in AllAsks /\ via \in Id \cup {None} /\ ask[r].claims \in Actors
      /\ stage[r] = "auth" /\ UNCHANGED <<tables, clock, ask, began, old, shown, ended>>
  BY DEF Authenticate, BInv, TypeOK, AllAsks
<1>1. CASE ~known
  <2>1. Answer(r, "Unauthorized") /\ UNCHANGED <<tables, clock, local, ended>>
    BY <1>0, <1>1 DEF Authenticate, local
  <2> QED
    BY <1>0, <2>1, RefusedOk DEF Answers
<1>2. CASE known
  <2>1. /\ stage' = [stage EXCEPT ![r] = FirstStep(ask[r].op)] /\ actor' = [actor EXCEPT ![r] = claims]
        /\ UNCHANGED <<brands, keys, batches, clock, ask, answer, began, old, shown, ended>>
    BY <1>0, <1>2 DEF Authenticate, Goto, tables
  <2>2. /\ claims \in Actors
        /\ claims.role \in {"Brand", "Factory"} =>
              /\ claims.brand \in Id
              /\ via # None => keys[via].status # "None" /\ keys[via].brand = claims.brand
    BY <1>0, <1>2 DEF Actors, Role, Validate, KeyOpens, BInv, TypeOK, Keys
  <2>3. /\ FirstStep(ask[r].op) \in {"run", "begin", "fetch"}
        /\ FirstStep(ask[r].op) = "run" => ask[r].op \notin {"rotate", "close_batch"}
        /\ FirstStep(ask[r].op) = "begin" => ask[r].op = "rotate"
        /\ FirstStep(ask[r].op) = "fetch" => ask[r].op = "close_batch"
    BY DEF FirstStep
  <2> HIDE DEF claims, known, via
  <2>4. TypeOK'
    BY <2>1, <2>2, <2>3 DEF BInv, TypeOK, Stages
  <2>5. /\ answer[r] = "None" /\ shown[r] = {} /\ keys[r].status = "None" /\ batches[r].status = "None"
        /\ brands[r] = None
    BY <1>0 DEF BInv, NoTrace
  <2>6. OpStages' /\ NoTrace'
    BY <1>0, <2>1, <2>3, <2>5 DEF BInv, TypeOK, OpStages, NoTrace
  <2>7. Authorized' /\ BoundaryHolds'
    BY <1>0, <2>1, <2>2, <2>3, <2>5 DEF BInv, TypeOK, Authorized, BrandActor, BoundaryHolds, via
  <2>8. KeysInv'
    BY <1>0, <2>1, <2>3, <2>5 DEF BInv, TypeOK, KeysInv, KeyHeld, Clocks, Overtaken, AlwaysAKey,
       OldKeyDies, Rotated, KeysOf, Active, Registered
  <2>9. BatchesInv'
    BY <1>0, <2>1, <2>3, <2>5 DEF BInv, TypeOK, BatchesInv, BatchHeld, ClosedByOne
  <2>10. AddressHeld' /\ EmailOnce'
    BY <2>1, <2>3 DEF BInv, TypeOK, AddressHeld, Inserting, EmailOnce, Registered
  <2> QED
    BY <2>4, <2>6, <2>7, <2>8, <2>9, <2>10 DEF BInv
<1> QED
  BY <1>1, <1>2

\* The access check of the routes of a brand.
LEMMA AccessOk ==
    ASSUME NEW a \in Actors, NEW b, NEW roles, CheckBrandAccess(a, b, roles) = "Ok"
    PROVE  a.role \in {"Brand", "Factory"} => a.brand = b
<1> SUFFICES ASSUME a.role \in {"Brand", "Factory"} PROVE a.brand = b
  OBVIOUS
<1>1. a.role # "Platform"
  OBVIOUS
<1>2. CASE a.role \in roles
  BY <1>1, <1>2 DEF CheckBrandAccess, Bounded
<1>3. CASE a.role \notin roles
  BY <1>1, <1>3 DEF CheckBrandAccess
<1> QED
  BY <1>2, <1>3

LEMMA AccessType ==
    ASSUME NEW a, NEW b, NEW roles
    PROVE  CheckBrandAccess(a, b, roles) \in {"Ok", "Boundary", "Denied"}
<1>1. CASE a.role = "Platform"
  BY <1>1 DEF CheckBrandAccess
<1>2. CASE a.role # "Platform" /\ a.role \in roles
  BY <1>2 DEF CheckBrandAccess
<1>3. CASE a.role # "Platform" /\ a.role \notin roles
  BY <1>3 DEF CheckBrandAccess
<1> QED
  BY <1>1, <1>2, <1>3

\* The statements between the first and the last of a transaction: the stage of
\* the request moves on, and began or old with it.
LEMMA LookUpEmailOk ==
    ASSUME BInv, NEW r \in Request, LookUpEmail(r)
    PROVE  BInv'
<1>1. /\ stage[r] = "run" /\ ask[r].op = "register" /\ stage' = [stage EXCEPT ![r] = "begin"]
      /\ UNCHANGED <<brands, keys, batches, clock, answer, ask, actor, began, old, shown, ended>>
  BY DEF LookUpEmail, Goto, tables, local
<1>2. ~BrandActor(r)
  <2>1. RegisterAnswer(actor[r], ask[r]) = "Ok"
    BY <1>1 DEF LookUpEmail, Refusal
  <2>2. actor[r].role = "Platform"
    BY <2>1 DEF RegisterAnswer
  <2> QED
    BY <2>2 DEF BrandActor
<1>3. TypeOK'
  BY <1>1 DEF BInv, TypeOK, Stages
<1>4. OpStages' /\ NoTrace'
  BY <1>1 DEF BInv, TypeOK, OpStages, NoTrace
<1>5. Authorized' /\ BoundaryHolds'
  BY <1>1, <1>2 DEF BInv, TypeOK, Authorized, BrandActor, BoundaryHolds
<1>6. KeysInv'
  BY <1>1 DEF BInv, TypeOK, KeysInv, KeyHeld, Clocks, Overtaken, AlwaysAKey, OldKeyDies,
     Rotated, KeysOf, Active, Registered
<1>7. BatchesInv'
  BY <1>1 DEF BInv, TypeOK, BatchesInv, BatchHeld, ClosedByOne
<1>8. AddressHeld' /\ EmailOnce'
  BY <1>1 DEF BInv, TypeOK, AddressHeld, Inserting, EmailOnce, Registered
<1> QED
  BY <1>3, <1>4, <1>5, <1>6, <1>7, <1>8 DEF BInv

LEMMA BeginOk ==
    ASSUME BInv, NEW r \in Request, Begin(r)
    PROVE  BInv'
<1> DEFINE access == IF ask[r].op = "rotate"
                     THEN CheckBrandAccess(actor[r], ask[r].target, {"Brand"}) ELSE "Ok"
<1>0. stage[r] = "begin" /\ UNCHANGED <<tables, ask, actor, old, shown, ended>>
      /\ ask[r].op \in {"register", "rotate"} /\ actor[r] \in Actors
  BY DEF Begin, BInv, OpStages, TypeOK
<1>1. CASE access # "Ok"
  <2>1. Answer(r, access) /\ UNCHANGED <<tables, clock, local, ended>>
    BY <1>0, <1>1 DEF Begin, local
  <2>2. access \in Answers \ {"Ok"}
    BY <1>1, AccessType DEF Answers
  <2> QED
    BY <1>0, <2>1, <2>2, RefusedOk
<1>2. CASE access = "Ok"
  <2> DEFINE next == IF ask[r].op = "rotate" THEN "fetch" ELSE "insert"
  <2>1. /\ stage' = [stage EXCEPT ![r] = next]
        /\ clock' = clock + 1 /\ began' = [began EXCEPT ![r] = clock + 1]
        /\ UNCHANGED <<brands, keys, batches, answer, ask, actor, old, shown, ended>>
    BY <1>0, <1>2 DEF Begin, Goto, tables
  <2>2. ask[r].op = "rotate" /\ BrandActor(r) => ask[r].target = actor[r].brand
    BY <1>0, <1>2, AccessOk DEF BrandActor
  <2>3. clock \in Nat /\ keys[r].status = "None" /\ (ask[r].op = "register" => ~BrandActor(r))
    BY <1>0 DEF BInv, TypeOK, NoTrace, Authorized
  <2>4. TypeOK'
    BY <2>1, <2>3 DEF BInv, TypeOK, Stages
  <2>5. OpStages' /\ NoTrace'
    BY <1>0, <2>1 DEF BInv, TypeOK, OpStages, NoTrace
  <2>6. Authorized' /\ BoundaryHolds'
    BY <1>0, <2>1, <2>2, <2>3 DEF BInv, TypeOK, Authorized, BrandActor, BoundaryHolds
  <2>7. KeyHeld' /\ AlwaysAKey'
    BY <2>1 DEF BInv, TypeOK, KeysInv, KeyHeld, AlwaysAKey, KeysOf, Active, Registered
  <2>8. Rotated' = Rotated /\ r \notin Rotated
    BY <2>1, <2>3 DEF Rotated
  <2>9. Clocks'
    BY <2>1, <2>3 DEF BInv, TypeOK, KeysInv, Clocks
  <2>10. Overtaken' /\ OldKeyDies'
    BY <2>1, <2>3, <2>8 DEF BInv, TypeOK, KeysInv, Overtaken, OldKeyDies
  <2>11. BatchesInv'
    BY <1>0, <2>1 DEF BInv, TypeOK, BatchesInv, BatchHeld, ClosedByOne
  <2>12. AddressHeld' /\ EmailOnce'
    BY <2>1 DEF BInv, TypeOK, AddressHeld, Inserting, EmailOnce, Registered
  <2> QED
    BY <2>4, <2>5, <2>6, <2>7, <2>9, <2>10, <2>11, <2>12 DEF BInv, KeysInv
<1> QED
  BY <1>1, <1>2

LEMMA CreateBrandOk ==
    ASSUME BInv, NEW r \in Request, CreateBrand(r)
    PROVE  BInv'
<1> DEFINE e == Trimmed[ask[r].email]
<1>0. stage[r] = "insert" /\ ask[r].op = "register" /\ UNCHANGED <<tables, clock, local, ended>>
  BY DEF CreateBrand, BInv, OpStages
<1>1. CASE \E b \in Id : brands[b] = e
  <2>1. Answer(r, "Conflict")
    BY <1>1 DEF CreateBrand
  <2> QED
    BY <1>0, <2>1, RefusedOk DEF Answers
<1>2. CASE \A b \in Id : brands[b] # e
  <2>1. /\ stage' = [stage EXCEPT ![r] = "commit"]
        /\ UNCHANGED <<brands, keys, batches, clock, answer, ask, actor, began, old, shown, ended>>
        /\ \A s \in Request \ {r} : ~Inserting(s, e)
    BY <1>0, <1>2 DEF CreateBrand, Goto, tables, local
  <2>2. ~BrandActor(r)
    BY <1>0 DEF BInv, Authorized
  <2>3. TypeOK'
    BY <1>0, <2>1 DEF BInv, TypeOK, Stages
  <2>4. OpStages' /\ NoTrace'
    BY <1>0, <2>1 DEF BInv, TypeOK, OpStages, NoTrace
  <2>5. Authorized' /\ BoundaryHolds'
    BY <1>0, <2>1, <2>2 DEF BInv, TypeOK, Authorized, BrandActor, BoundaryHolds
  <2>6. KeysInv'
    BY <1>0, <2>1 DEF BInv, TypeOK, KeysInv, KeyHeld, Clocks, Overtaken, AlwaysAKey, OldKeyDies,
       Rotated, KeysOf, Active, Registered
  <2>7. BatchesInv'
    BY <1>0, <2>1 DEF BInv, TypeOK, BatchesInv, BatchHeld, ClosedByOne
  <2>8. AddressHeld' /\ EmailOnce'
    BY <1>0, <1>2, <2>1 DEF BInv, TypeOK, AddressHeld, Inserting, EmailOnce, Registered
  <2> QED
    BY <2>3, <2>4, <2>5, <2>6, <2>7, <2>8 DEF BInv
<1> QED
  BY <1>1, <1>2

LEMMA FetchActiveKeyOk ==
    ASSUME BInv, NEW r \in Request, FetchActiveKey(r)
    PROVE  BInv'
<1>0. stage[r] = "fetch" /\ ask[r].op = "rotate"
      /\ UNCHANGED <<tables, clock, ask, actor, began, shown, ended>>
  BY DEF FetchActiveKey
<1>1. CASE Active(ask[r].target) = {}
  <2>1. Answer(r, "Database") /\ UNCHANGED <<tables, clock, local, ended>>
    BY <1>0, <1>1 DEF FetchActiveKey, local
  <2> QED
    BY <1>0, <2>1, RefusedOk DEF Answers
<1>2. CASE Active(ask[r].target) # {}
  <2>1. PICK k \in Active(ask[r].target) : old' = [old EXCEPT ![r] = k]
    BY <1>2 DEF FetchActiveKey
  <2>2. /\ stage' = [stage EXCEPT ![r] = "revoke"]
        /\ UNCHANGED <<brands, keys, batches, clock, answer, ask, actor, began, shown, ended>>
    BY <1>0, <1>2 DEF FetchActiveKey, Goto, tables
  <2>3. k \in Id /\ keys[k].brand = ask[r].target /\ keys[k].status = "Active"
    BY DEF Active
  <2>4. TypeOK'
    BY <1>0, <2>1, <2>2, <2>3 DEF BInv, TypeOK, Stages
  <2>5. OpStages' /\ NoTrace'
    BY <1>0, <2>2 DEF BInv, TypeOK, OpStages, NoTrace
  <2>6. Authorized' /\ BoundaryHolds'
    BY <1>0, <2>2 DEF BInv, TypeOK, Authorized, BrandActor, BoundaryHolds
  <2>7. KeyHeld' /\ AlwaysAKey' /\ Clocks'
    BY <1>0, <2>1, <2>2, <2>3 DEF BInv, TypeOK, KeysInv, KeyHeld, AlwaysAKey, Clocks, KeysOf,
       Active, Registered
  <2>8. Rotated' = Rotated /\ r \notin Rotated
    BY <1>0, <2>2 DEF BInv, NoTrace, Rotated
  <2>9. \A s \in Rotated : old[s] # k
    BY <2>3 DEF BInv, KeysInv, OldKeyDies
  <2>10. Overtaken'
    BY <1>0, <2>1, <2>2, <2>8, <2>9 DEF BInv, TypeOK, KeysInv, Overtaken, Rotated
  <2>11. OldKeyDies'
    BY <2>1, <2>2, <2>8 DEF BInv, TypeOK, KeysInv, OldKeyDies, Rotated
  <2>12. BatchesInv'
    BY <1>0, <2>2 DEF BInv, TypeOK, BatchesInv, BatchHeld, ClosedByOne
  <2>13. AddressHeld' /\ EmailOnce'
    BY <1>0, <2>2 DEF BInv, TypeOK, AddressHeld, Inserting, EmailOnce, Registered
  <2> QED
    BY <2>4, <2>5, <2>6, <2>7, <2>10, <2>11, <2>12, <2>13 DEF BInv, KeysInv
<1> QED
  BY <1>1, <1>2

LEMMA RevokeKeyOk ==
    ASSUME BInv, NEW r \in Request, RevokeKey(r)
    PROVE  BInv'
<1>1. /\ stage[r] = "revoke" /\ ask[r].op = "rotate" /\ stage' = [stage EXCEPT ![r] = "commit"]
      /\ UNCHANGED <<brands, keys, batches, clock, answer, ask, actor, began, old, shown, ended>>
  BY DEF RevokeKey, Goto, tables, local, BInv, OpStages
<1>2. TypeOK'
  BY <1>1 DEF BInv, TypeOK, Stages
<1>3. OpStages' /\ NoTrace'
  BY <1>1 DEF BInv, TypeOK, OpStages, NoTrace
<1>4. Authorized' /\ BoundaryHolds'
  BY <1>1 DEF BInv, TypeOK, Authorized, BrandActor, BoundaryHolds
<1>5. KeysInv'
  BY <1>1 DEF BInv, TypeOK, KeysInv, KeyHeld, Clocks, Overtaken, AlwaysAKey, OldKeyDies,
     Rotated, KeysOf, Active, Registered
<1>6. BatchesInv'
  BY <1>1 DEF BInv, TypeOK, BatchesInv, BatchHeld, ClosedByOne
<1>7. AddressHeld' /\ EmailOnce'
  BY <1>1 DEF BInv, TypeOK, AddressHeld, Inserting, EmailOnce, Registered
<1> QED
  BY <1>2, <1>3, <1>4, <1>5, <1>6, <1>7 DEF BInv

-----------------------------------------------------------------------------
\* The COMMIT of a registration: a new brand with its first key.
LEMMA RegisterOk ==
    ASSUME BInv, NEW r \in Request, Commit(r), ask[r].op = "register"
    PROVE  BInv'
<1> DEFINE new == [brand |-> r, status |-> "Active", at |-> began[r]]
           e == Trimmed[ask[r].email]
<1>1. PICK a \in {"Ok", "Database"} : answer' = [answer EXCEPT ![r] = a]
  BY DEF Commit, Answer
<1>2. /\ stage[r] = "commit" /\ stage' = [stage EXCEPT ![r] = "done"]
      /\ clock' = clock + 1 /\ ended' = [ended EXCEPT ![r] = clock + 1]
      /\ brands' = [brands EXCEPT ![r] = e]
      /\ UNCHANGED <<batches, ask, actor, began, old, shown>>
  BY DEF Commit, Answer, local
<1>3. keys' = [keys EXCEPT ![r] = new]
  BY DEF Commit, Written, BInv, TypeOK
<1>4. /\ r \in Id /\ clock \in Nat /\ e \in Email /\ e # None /\ new \in Keys
      /\ keys[r].status = "None" /\ brands[r] = None /\ batches[r].status = "None" /\ ~BrandActor(r)
  BY <1>2, BrandsAssumption DEF BInv, TypeOK, AllAsks, Id, Keys, NoTrace, Authorized
<1>5. TypeOK'
  BY <1>1, <1>2, <1>3, <1>4 DEF BInv, TypeOK, Stages, Answers
<1>6. OpStages' /\ NoTrace'
  BY <1>1, <1>2, <1>3, <1>4 DEF BInv, TypeOK, OpStages, NoTrace
<1>7. Authorized' /\ BoundaryHolds'
  <2>1. \A k \in Id : keys[k].status # "None" => keys'[k] = keys[k]
    BY <1>3, <1>4 DEF BInv, TypeOK
  <2> QED
    BY <1>1, <1>2, <1>3, <1>4, <2>1 DEF BInv, TypeOK, AllAsks, Authorized, BrandActor, BoundaryHolds
<1>8. Rotated' = Rotated
  BY <1>2, <1>3, <1>4 DEF BInv, TypeOK, Rotated
<1>9. KeyHeld'
  BY <1>2, <1>3, <1>4 DEF BInv, TypeOK, KeysInv, KeyHeld
<1>10. Clocks'
  BY <1>2, <1>4 DEF BInv, TypeOK, KeysInv, Clocks
<1>11. Overtaken'
  BY <1>2, <1>3, <1>4, <1>8 DEF BInv, TypeOK, KeysInv, Overtaken, Rotated
<1>12. OldKeyDies'
  <2>1. \A s \in Rotated : old[s] # r
    BY <1>4 DEF BInv, KeysInv, OldKeyDies
  <2>2. r \notin Rotated
    BY DEF Rotated
  <2> QED
    BY <1>2, <1>3, <1>4, <1>8, <2>1, <2>2 DEF BInv, TypeOK, KeysInv, OldKeyDies, Rotated
<1>13. AlwaysAKey'
  <2> SUFFICES ASSUME NEW b \in Id, (b \in Request /\ b \in Registered') \/ KeysOf(b)' # {}
               PROVE  Active(b)' # {}
    BY DEF AlwaysAKey
  <2>1. CASE b = r
    BY <1>3, <1>4, <2>1 DEF Active, BInv, TypeOK
  <2>2. CASE b # r
    <3>1. (b \in Registered' <=> b \in Registered) /\ KeysOf(b)' = KeysOf(b)
          /\ Active(b) \subseteq Active(b)'
      BY <1>2, <1>3, <1>4, <2>2 DEF BInv, TypeOK, Registered, KeysOf, Active
    <3> QED
      BY <3>1 DEF BInv, KeysInv, AlwaysAKey
  <2> QED
    BY <2>1, <2>2
<1>14. BatchesInv'
  BY <1>1, <1>2 DEF BInv, TypeOK, BatchesInv, BatchHeld, ClosedByOne
<1>15. AddressHeld' /\ EmailOnce'
  BY <1>2, <1>4 DEF BInv, TypeOK, AddressHeld, Inserting, EmailOnce, Registered
<1> QED
  BY <1>5, <1>6, <1>7, <1>9, <1>10, <1>11, <1>12, <1>13, <1>14, <1>15 DEF BInv, KeysInv

\* The COMMIT of a rotation: a new key of the brand, and the old one revoked.
LEMMA RotateOk ==
    ASSUME BInv, NEW r \in Request, Commit(r), ask[r].op = "rotate"
    PROVE  BInv'
<1> DEFINE t == ask[r].target
           new == [brand |-> t, status |-> "Active", at |-> began[r]]
<1>1. PICK a \in {"Ok", "Database"} : answer' = [answer EXCEPT ![r] = a]
  BY DEF Commit, Answer
<1>2. /\ stage[r] = "commit" /\ stage' = [stage EXCEPT ![r] = "done"]
      /\ clock' = clock + 1 /\ ended' = [ended EXCEPT ![r] = clock + 1]
      /\ UNCHANGED <<brands, batches, ask, actor, began, old, shown>>
  BY DEF Commit, Answer, local
<1>3. /\ r \in Id /\ clock \in Nat /\ old[r] \in Id /\ t \in Id
      /\ keys[old[r]].brand = t /\ keys[old[r]].status # "None" /\ old[r] # r
      /\ keys[r].status = "None" /\ brands[r] = None /\ batches[r].status = "None"
      /\ BrandActor(r) => actor[r].brand = t
  BY <1>2 DEF BInv, TypeOK, Id, Keys, NoTrace, Authorized, KeysInv, KeyHeld
<1>4. keys' = [k \in Id |-> IF k = r THEN new
                            ELSE IF k = old[r] THEN [keys[k] EXCEPT !.status = "Revoked"]
                            ELSE keys[k]]
  BY DEF Commit, Written
<1>5. /\ keys'[r] = new /\ new \in Keys
      /\ keys'[old[r]].status = "Revoked" /\ keys'[old[r]].brand = t
      /\ \A k \in Id : keys'[k] \in Keys
      /\ \A k \in Id \ {r} : keys'[k].brand = keys[k].brand
      /\ \A k \in Id \ {r, old[r]} : keys'[k] = keys[k]
      /\ \A k \in Id : keys[k].status # "None" => keys'[k].status # "None"
  BY <1>3, <1>4 DEF BInv, TypeOK, Keys
<1>6. TypeOK'
  <2>1. keys' \in [Id -> Keys]
    BY <1>4, <1>5
  <2> QED
    BY <1>1, <1>2, <1>3, <2>1 DEF BInv, TypeOK, Stages, Answers
<1>7. OpStages' /\ NoTrace'
  <2>1. \A s \in Request \ {r} : stage[s] # "done" => keys'[s].status = "None"
    BY <1>2, <1>3, <1>5 DEF BInv, NoTrace, Id
  <2> QED
    BY <1>1, <1>2, <2>1 DEF BInv, TypeOK, OpStages, NoTrace
<1>8. Authorized' /\ BoundaryHolds'
  <2>1. Authorized'
    BY <1>1, <1>2, <1>3, <1>5, ZenonT(60) DEF BInv, TypeOK, AllAsks, Authorized, BrandActor
  <2>2. \A s \in Request \ {r} : keys'[s].status # "None" => keys[s].status # "None" /\ keys'[s].brand = keys[s].brand
    BY <1>3, <1>5 DEF Id
  <2>3. \A s \in Request : BrandActor(s) /\ ask[s].via # None =>
          keys[ask[s].via].brand = actor[s].brand /\ keys'[ask[s].via].brand = keys[ask[s].via].brand
    BY <1>3, <1>5 DEF BInv, TypeOK, AllAsks, Authorized, BoundaryHolds, BrandActor
  <2>4. BoundaryHolds'
    <3> SUFFICES ASSUME NEW s \in Request, BrandActor(s)
                 PROVE  LET b == actor[s].brand IN
                        /\ ask[s].op # "names" => shown[s] \subseteq {b}
                        /\ keys'[s].status # "None" => keys'[s].brand = b
                        /\ batches[s].status # "None" => batches[s].brand = b
                        /\ ask[s].op = "close_batch" /\ answer'[s] = "Ok" => batches[ask[s].target].brand = b
                        /\ ask[s].via # None => b = keys'[ask[s].via].brand
      BY <1>2 DEF BoundaryHolds, BrandActor
    <3>1. CASE s = r
      BY <1>3, <1>5, <2>3, <3>1 DEF BInv, BoundaryHolds, BrandActor
    <3>2. CASE s # r
      BY <1>1, <2>2, <2>3, <3>2 DEF BInv, TypeOK, BoundaryHolds, BrandActor
    <3> QED
      BY <3>1, <3>2
  <2> QED
    BY <2>1, <2>4
<1>9. Rotated' = Rotated \cup {r} /\ r \notin Rotated
  BY <1>2, <1>3, <1>5 DEF Rotated, Id
<1>10. KeyHeld'
  <2>1. \A s \in Request \ {r} : keys'[s].status # "None" => keys[s].status # "None"
    BY <1>3, <1>5 DEF Id
  <2>2. \A k \in Id : keys[k].status # "None" => keys'[k].brand = keys[k].brand
    BY <1>3, <1>5
  <2> QED
    BY <1>2, <1>3, <1>5, <2>1, <2>2 DEF BInv, TypeOK, KeysInv, KeyHeld
<1>11. Clocks'
  BY <1>2, <1>3 DEF BInv, TypeOK, KeysInv, Clocks
<1>12. Overtaken'
  <2> SUFFICES ASSUME NEW p \in Request, NEW s \in Rotated', p # s, old[p] = old[s],
                      ask[p].op = "rotate",
                      stage'[p] \in {"revoke", "commit"} \/ keys'[p].status # "None"
               PROVE  began[p] < ended'[s]
    BY <1>2 DEF Overtaken
  <2>1. CASE s = r
    BY <1>2, <1>3, <2>1 DEF BInv, TypeOK, KeysInv, Clocks
  <2>2. CASE s # r
    <3>1. s \in Rotated /\ s \in Request /\ ended'[s] = ended[s]
      BY <1>2, <1>9, <2>2 DEF Rotated, BInv, TypeOK
    <3>2. stage[p] \in {"revoke", "commit"} \/ keys[p].status # "None"
      BY <1>2, <1>3, <1>5 DEF BInv, TypeOK, Id
    <3> QED
      BY <3>1, <3>2 DEF BInv, KeysInv, Overtaken
  <2> QED
    BY <2>1, <2>2
<1>13. OldKeyDies'
  <2>1. \A s \in Rotated : old[s] # r
    BY <1>3 DEF BInv, KeysInv, OldKeyDies
  <2>2. \A k \in Id : keys'[k].status = "Revoked" <=> \E s \in Rotated' : old[s] = k
    <3> SUFFICES ASSUME NEW k \in Id
                 PROVE  keys'[k].status = "Revoked" <=> \E s \in Rotated' : old[s] = k
      OBVIOUS
    <3>1. CASE k = r
      BY <1>3, <1>5, <1>9, <2>1, <3>1
    <3>2. CASE k = old[r]
      BY <1>5, <1>9, <3>2
    <3>3. CASE k # r /\ k # old[r]
      BY <1>5, <1>9, <3>3 DEF BInv, KeysInv, OldKeyDies
    <3> QED
      BY <3>1, <3>2, <3>3
  <2>3. \A p, s \in Rotated' : p # s /\ old[p] = old[s] => began[p] < ended'[s]
    BY <1>2, <1>12 DEF Overtaken, Rotated
  <2> QED
    BY <1>2, <2>2, <2>3 DEF OldKeyDies
<1>14. AlwaysAKey'
  <2> SUFFICES ASSUME NEW b \in Id, (b \in Request /\ b \in Registered') \/ KeysOf(b)' # {}
               PROVE  Active(b)' # {}
    BY DEF AlwaysAKey
  <2>1. CASE b = t
    BY <1>3, <1>5, <2>1 DEF Active
  <2>2. CASE b # t
    <3>1. b \in Registered' <=> b \in Registered
      BY <1>2 DEF Registered
    <3>2. KeysOf(b)' \subseteq KeysOf(b) /\ Active(b) \subseteq Active(b)'
      BY <1>3, <1>5, <2>2 DEF KeysOf, Active
    <3> QED
      BY <3>1, <3>2 DEF BInv, KeysInv, AlwaysAKey
  <2> QED
    BY <2>1, <2>2
<1>15. BatchesInv'
  BY <1>1, <1>2 DEF BInv, TypeOK, BatchesInv, BatchHeld, ClosedByOne
<1>16. AddressHeld' /\ EmailOnce'
  BY <1>2 DEF BInv, TypeOK, AddressHeld, Inserting, EmailOnce, Registered
<1> QED
  BY <1>6, <1>7, <1>8, <1>10, <1>11, <1>12, <1>13, <1>14, <1>15, <1>16 DEF BInv, KeysInv

-----------------------------------------------------------------------------
LEMMA CreateBatchOk ==
    ASSUME BInv, NEW r \in Request, CreateBatch(r)
    PROVE  BInv'
<1> DEFINE b == ask[r].target
<1>0. stage[r] = "run" /\ ask[r].op = "create_batch" /\ Refusal(r) = "Ok"
  BY DEF CreateBatch
<1>1. CASE b \notin Registered
  <2>1. Answer(r, "Database") /\ UNCHANGED <<tables, clock, local, ended>>
    BY <1>1 DEF CreateBatch, tables
  <2> QED
    BY <1>0, <2>1, RefusedOk DEF Answers
<1>2. CASE b \in Registered
  <2>1. PICK a \in {"Ok", "Database"} : answer' = [answer EXCEPT ![r] = a]
    BY <1>2 DEF CreateBatch, Answer
  <2>2. /\ stage' = [stage EXCEPT ![r] = "done"]
        /\ batches' = [batches EXCEPT ![r] = [brand |-> b, status |-> "Open"]]
        /\ UNCHANGED <<brands, keys, clock, ask, actor, began, old, shown, ended>>
    BY <1>2 DEF CreateBatch, Answer, local
  <2>3. /\ r \in Id /\ b \in Id /\ batches[r].status = "None" /\ keys[r].status = "None"
        /\ BrandActor(r) => actor[r].brand = b
    <3>1. CreateBatchAnswer(actor[r], b) = "Ok"
      BY <1>0 DEF Refusal
    <3>2. Bounded(actor[r], b)
      BY <3>1 DEF CreateBatchAnswer, Check
    <3> QED
      BY <1>0, <1>2, <3>2 DEF BInv, NoTrace, Id, Registered, Bounded, BrandActor
  <2>4. \A c \in Id : batches[c].status # "None" => batches'[c] = batches[c]
    BY <2>2, <2>3 DEF BInv, TypeOK
  <2>5. TypeOK'
    BY <1>0, <2>1, <2>2, <2>3 DEF BInv, TypeOK, Stages, Answers, Batches
  <2>6. OpStages' /\ NoTrace'
    BY <2>1, <2>2, <2>3 DEF BInv, TypeOK, OpStages, NoTrace
  <2>7. Authorized' /\ BoundaryHolds'
    BY <1>0, <2>1, <2>2, <2>3, <2>4 DEF BInv, TypeOK, OpStages, BatchesInv, BatchHeld, Authorized,
       BrandActor, BoundaryHolds
  <2>8. KeysInv'
    BY <1>0, <2>2 DEF BInv, TypeOK, KeysInv, KeyHeld, Clocks, Overtaken, AlwaysAKey, OldKeyDies,
       Rotated, KeysOf, Active, Registered
  <2>9. BatchesInv'
    BY <1>0, <2>1, <2>2, <2>3, <2>4 DEF BInv, TypeOK, BatchesInv, BatchHeld, ClosedByOne
  <2>10. AddressHeld' /\ EmailOnce'
    BY <2>2 DEF BInv, TypeOK, AddressHeld, Inserting, EmailOnce, Registered
  <2> QED
    BY <2>5, <2>6, <2>7, <2>8, <2>9, <2>10 DEF BInv
<1> QED
  BY <1>1, <1>2

LEMMA FetchBatchOk ==
    ASSUME BInv, NEW r \in Request, FetchBatch(r)
    PROVE  BInv'
<1> DEFINE b == ask[r].target
<1>0. stage[r] = "fetch" /\ ask[r].op = "close_batch" /\ UNCHANGED <<tables, clock, local, ended>>
  BY DEF FetchBatch
<1>1. CASE \E a \in Answers \ {"Ok"} : Answer(r, a)
  BY <1>0, <1>1, RefusedOk
<1>2. CASE /\ b # None /\ batches[b].status # "None" /\ Bounded(actor[r], batches[b].brand)
           /\ Goto(r, "close")
  <2>1. /\ stage' = [stage EXCEPT ![r] = "close"]
        /\ UNCHANGED <<brands, keys, batches, clock, answer, ask, actor, began, old, shown, ended>>
    BY <1>0, <1>2 DEF Goto, tables, local
  <2>2. b \in Id /\ (BrandActor(r) => batches[b].brand = actor[r].brand)
    BY <1>2 DEF BInv, TypeOK, AllAsks, Bounded, BrandActor
  <2>3. TypeOK'
    BY <2>1 DEF BInv, TypeOK, Stages
  <2>4. OpStages' /\ NoTrace'
    BY <1>0, <2>1 DEF BInv, TypeOK, OpStages, NoTrace
  <2>5. Authorized' /\ BoundaryHolds'
    BY <1>0, <2>1, <2>2 DEF BInv, TypeOK, Authorized, BrandActor, BoundaryHolds
  <2>6. KeysInv'
    BY <1>0, <2>1 DEF BInv, TypeOK, KeysInv, KeyHeld, Clocks, Overtaken, AlwaysAKey, OldKeyDies,
       Rotated, KeysOf, Active, Registered
  <2>7. BatchesInv'
    BY <1>0, <1>2, <2>1, <2>2 DEF BInv, TypeOK, BatchesInv, BatchHeld, ClosedByOne
  <2>8. AddressHeld' /\ EmailOnce'
    BY <1>0, <2>1 DEF BInv, TypeOK, AddressHeld, Inserting, EmailOnce, Registered
  <2> QED
    BY <2>3, <2>4, <2>5, <2>6, <2>7, <2>8 DEF BInv
<1> QED
  BY <1>1, <1>2 DEF FetchBatch, Answers

LEMMA CloseBatchOk ==
    ASSUME BInv, NEW r \in Request, CloseBatch(r)
    PROVE  BInv'
<1> DEFINE b == ask[r].target
<1>0. /\ stage[r] = "close" /\ ask[r].op = "close_batch" /\ b \in Id /\ batches[b].status # "None"
      /\ BrandActor(r) => batches[b].brand = actor[r].brand
  BY DEF CloseBatch, BInv, OpStages, BatchesInv, BatchHeld, Authorized
<1>1. CASE batches[b].status # "Open"
  <2>1. Answer(r, "InvalidInput") /\ UNCHANGED <<tables, clock, local, ended>>
    BY <1>1 DEF CloseBatch, tables
  <2> QED
    BY <1>0, <2>1, RefusedOk DEF Answers
<1>2. CASE batches[b].status = "Open"
  <2>1. PICK a \in {"Ok", "Database"} : answer' = [answer EXCEPT ![r] = a]
    BY <1>2 DEF CloseBatch, Answer
  <2>2. /\ stage' = [stage EXCEPT ![r] = "done"]
        /\ batches' = [batches EXCEPT ![b].status = "Closed"]
        /\ UNCHANGED <<brands, keys, clock, ask, actor, began, old, shown, ended>>
    BY <1>2 DEF CloseBatch, Answer, local
  <2>3. /\ batches' \in [Id -> Batches] /\ batches'[b].status = "Closed"
        /\ \A c \in Id : batches'[c].brand = batches[c].brand
        /\ \A c \in Id \ {b} : batches'[c] = batches[c]
    BY <1>0, <2>2 DEF BInv, TypeOK, Batches
  <2>4. TypeOK'
    BY <1>0, <2>1, <2>2, <2>3 DEF BInv, TypeOK, Stages, Answers
  <2>5. OpStages' /\ NoTrace'
    <3>1. \A s \in Request : batches[s].status = "None" => s # b /\ batches'[s] = batches[s]
      BY <1>0, <2>3 DEF Id
    <3> QED
      BY <2>1, <2>2, <3>1 DEF BInv, TypeOK, OpStages, NoTrace
  <2>6. Authorized' /\ BoundaryHolds'
    <3>1. \A s \in Request : batches'[s].status # "None" => batches[s].status # "None"
      BY <1>0, <2>3 DEF Id
    <3>2. \A s \in Request : batches'[s].brand = batches[s].brand
      BY <2>3 DEF Id
    <3>3. \A s \in Request : ask[s].target \in Id => batches'[ask[s].target].brand = batches[ask[s].target].brand
      BY <2>3
    <3>4. \A s \in Request \ {r} : stage'[s] = stage[s] /\ answer'[s] = answer[s]
      BY <2>1, <2>2 DEF BInv, TypeOK
    <3>5. Authorized'
      BY <1>0, <2>2, <3>3, <3>4 DEF BInv, TypeOK, OpStages, BatchesInv, BatchHeld, Authorized, BrandActor
    <3>6. BoundaryHolds'
      BY <1>0, <2>2, <3>1, <3>2, <3>3, <3>4 DEF BInv, BatchesInv, BatchHeld, BoundaryHolds, BrandActor
    <3> QED
      BY <3>5, <3>6
  <2>7. KeysInv'
    BY <1>0, <2>2 DEF BInv, TypeOK, KeysInv, KeyHeld, Clocks, Overtaken, AlwaysAKey, OldKeyDies,
       Rotated, KeysOf, Active, Registered
  <2>8. BatchesInv'
    <3>1. \A s \in Request \ {r} : stage'[s] = stage[s] /\ answer'[s] = answer[s]
      BY <2>1, <2>2 DEF BInv, TypeOK
    <3>2. \A s \in Request : ask[s].op = "close_batch" /\ answer[s] = "Ok" => ask[s].target # b
      BY <1>2 DEF BInv, BatchesInv, ClosedByOne
    <3>3. \A c \in Id : batches[c].status # "None" => batches'[c].status # "None"
      BY <2>3
    <3>4. BatchHeld'
      BY <1>0, <2>2, <2>3, <3>1, <3>3 DEF BInv, BatchesInv, BatchHeld
    <3>5. ClosedByOne'
      BY <1>0, <2>2, <2>3, <3>1, <3>2 DEF BInv, BatchesInv, BatchHeld, ClosedByOne
    <3> QED
      BY <3>4, <3>5 DEF BatchesInv
  <2>9. AddressHeld' /\ EmailOnce'
    BY <1>0, <2>2 DEF BInv, TypeOK, AddressHeld, Inserting, EmailOnce, Registered
  <2> QED
    BY <2>4, <2>5, <2>6, <2>7, <2>8, <2>9 DEF BInv
<1> QED
  BY <1>1, <1>2

-----------------------------------------------------------------------------
\* What the read routes show, one by one.
LEMMA RowsOk ==
    ASSUME TypeOK, NEW r \in Request, ask[r].op \in ReadOps,
           actor[r].role \in {"Brand", "Factory"} => actor[r].brand \in Id
    PROVE  /\ Rows(actor[r], ask[r]) \subseteq Id
           /\ ReadAnswer(actor[r], ask[r]) \in Answers
           /\ ReadAnswer(actor[r], ask[r]) = "Ok" /\ BrandActor(r) /\ ask[r].op # "names" =>
                 Rows(actor[r], ask[r]) \subseteq {actor[r].brand}
<1> DEFINE a == actor[r]
           q == ask[r]
           Good == /\ Rows(a, q) \subseteq Id
                   /\ ReadAnswer(a, q) \in Answers
                   /\ ReadAnswer(a, q) = "Ok" /\ BrandActor(r) /\ q.op # "names" =>
                         Rows(a, q) \subseteq {a.brand}
<1>a. a \in Actors /\ q \in AllAsks /\ Seed \subseteq Id
      /\ (BrandActor(r) => a.brand \in Id /\ a.brand # None /\ a.role # "Platform")
  BY BrandsAssumption DEF TypeOK, Id, BrandActor
<1>b. \A ok, f : Check(ok, f) = "Ok" /\ f # "Ok" => ok
  BY DEF Check
<1>c. \A ok : \A f \in Answers : Check(ok, f) \in Answers
  BY DEF Check, Answers
<1>d. \A c : FetchBrand(c) \subseteq Id /\ FetchBrand(c) \subseteq {c}
  BY DEF FetchBrand, Registered
<1>e. BrandActor(r) => Filter(a) = {a.brand}
  BY <1>a DEF Filter
<1>f. \A c : \A row \in BatchRow(c) : row.brand \in Id
  BY DEF BatchRow, TypeOK, Batches
<1>1. CASE q.op \in {"brand", "keys"}
  <2>1. ReadAnswer(a, q) = CheckBrandAccess(a, q.target, {"Brand", "Factory"})
    BY <1>1 DEF ReadAnswer
  <2>2. Rows(a, q) \subseteq Id /\ Rows(a, q) \subseteq {q.target}
    <3>1. CASE q.op = "brand"
      <4>1. Rows(a, q) = FetchBrand(q.target)
        BY <3>1 DEF Rows
      <4> QED
        BY <1>d, <4>1
    <3>2. CASE q.op = "keys"
      <4>1. Rows(a, q) = ListKeys(q.target)
        BY <3>2 DEF Rows
      <4> QED
        BY <4>1 DEF ListKeys
    <3> QED
      BY <1>1, <3>1, <3>2
  <2>3. ReadAnswer(a, q) = "Ok" /\ BrandActor(r) => a.brand = q.target
    BY <1>a, <2>1, AccessOk DEF BrandActor
  <2> QED
    BY <2>1, <2>2, <2>3, AccessType DEF Answers
<1>2. CASE q.op = "update"
  <2>1. ReadAnswer(a, q) = UpdateAnswer(a, q) /\ Rows(a, q) = FetchBrand(q.target)
    BY <1>2 DEF ReadAnswer, Rows, UpdatedBrand
  <2>2. UpdateAnswer(a, q) \in Answers
    BY <1>c, AccessType DEF UpdateAnswer, Answers
  <2>3. UpdateAnswer(a, q) = "Ok" /\ BrandActor(r) => a.brand = q.target
    <3>1. UpdateAnswer(a, q) = "Ok" => CheckBrandAccess(a, q.target, {"Brand"}) = "Ok"
      BY DEF UpdateAnswer
    <3> QED
      BY <1>a, <3>1, AccessOk DEF BrandActor
  <2> QED
    BY <1>d, <2>1, <2>2, <2>3
<1>3. CASE q.op = "names"
  <2>1. ReadAnswer(a, q) = Check(ValidInput(q), "InvalidInput") /\ Rows(a, q) = FetchBrand(q.target)
    BY <1>3 DEF ReadAnswer, Rows, BrandNames
  <2> QED
    BY <1>3, <1>c, <1>d, <2>1 DEF Answers
<1>4. CASE q.op = "brands"
  <2>1. ReadAnswer(a, q) = ListBrandsAnswer(a) /\ Rows(a, q) = ListBrands(a)
    BY <1>4 DEF ReadAnswer, Rows
  <2> QED
    BY <1>c, <1>e, <2>1 DEF ListBrandsAnswer, ListBrands, Registered, Answers
<1>5. CASE q.op = "asset"
  <2>1. ReadAnswer(a, q) = AssetAnswer(a, q.target) /\ Rows(a, q) = FetchAsset(q.target)
    BY <1>5 DEF ReadAnswer, Rows
  <2>2. AssetAnswer(a, q.target) = "Ok" /\ q.target \in Seed /\ BrandActor(r) => a.brand = q.target
    BY <1>b DEF AssetAnswer, Bounded, BrandActor
  <2> QED
    BY <1>a, <1>c, <2>1, <2>2 DEF AssetAnswer, FetchAsset, Answers
<1>6. CASE q.op = "assets"
  <2>1. ReadAnswer(a, q) = ListAssetsAnswer(a, q.target) /\ Rows(a, q) = ListAssets(a, q.target)
    BY <1>6 DEF ReadAnswer, Rows
  <2>2. ListAssetsAnswer(a, q.target) = "Ok" /\ BrandActor(r) => q.target \in {None, a.brand}
    BY <1>a, <1>b DEF ListAssetsAnswer
  <2>3. ListAssetsAnswer(a, q.target) \in Answers
    BY <1>c DEF ListAssetsAnswer, Answers
  <2> QED
    BY <1>a, <1>e, <2>1, <2>2, <2>3 DEF ListAssets
<1>7. CASE q.op = "batch"
  <2>1. ReadAnswer(a, q) = BatchAnswer(a, q.target) /\ Rows(a, q) = {row.brand : row \in BatchRow(q.target)}
    BY <1>7 DEF ReadAnswer, Rows
  <2>2. BatchAnswer(a, q.target) = "Ok" => \A row \in BatchRow(q.target) : Bounded(a, row.brand)
    BY <1>b DEF BatchAnswer
  <2>3. BatchAnswer(a, q.target) \in Answers
    BY <1>c DEF BatchAnswer, Answers
  <2> QED
    BY <1>f, <2>1, <2>2, <2>3 DEF Bounded, BrandActor
<1>8. CASE q.op = "batches"
  <2>1. ReadAnswer(a, q) = "Ok" /\ Rows(a, q) = ListBatches(a)
    BY <1>8 DEF ReadAnswer, Rows
  <2>2. ListBatches(a) \subseteq Filter(a) /\ ListBatches(a) \subseteq Id
    BY <1>f DEF ListBatches
  <2> QED
    BY <1>e, <2>1, <2>2 DEF Answers
<1> QED
  BY <1>1, <1>2, <1>3, <1>4, <1>5, <1>6, <1>7, <1>8 DEF ReadOps, BrandOps

LEMMA ReadOk ==
    ASSUME BInv, NEW r \in Request, Read(r)
    PROVE  BInv'
<1> DEFINE status == ReadAnswer(actor[r], ask[r])
           rows == Rows(actor[r], ask[r])
<1>0. /\ stage[r] = "run" /\ ask[r].op \in ReadOps
      /\ UNCHANGED <<tables, clock, ask, actor, began, old, ended>>
      /\ actor[r].role \in {"Brand", "Factory"} => actor[r].brand \in Id
  BY DEF Read, BInv, Authorized, BrandActor
<1>1. /\ rows \subseteq Id /\ status \in Answers
      /\ status = "Ok" /\ BrandActor(r) /\ ask[r].op # "names" => rows \subseteq {actor[r].brand}
  BY <1>0, RowsOk DEF BInv
<1> HIDE DEF status, rows
<1>2. CASE \E a \in Answers \ {"Ok"} : Answer(r, a) /\ UNCHANGED shown
  BY <1>0, <1>2, RefusedOk DEF local
<1>3. CASE status = "Ok" /\ Answer(r, "Ok") /\ shown' = [shown EXCEPT ![r] = rows]
  <2>1. /\ stage' = [stage EXCEPT ![r] = "done"] /\ answer' = [answer EXCEPT ![r] = "Ok"]
        /\ shown' = [shown EXCEPT ![r] = rows]
        /\ UNCHANGED <<brands, keys, batches, clock, ask, actor, began, old, ended>>
    BY <1>0, <1>3 DEF Answer, tables
  <2>2. ask[r].op \notin {"register", "rotate", "create_batch", "close_batch"}
    BY <1>0 DEF ReadOps, BrandOps
  <2>3. TypeOK'
    BY <1>1, <2>1 DEF BInv, TypeOK, Stages, Answers
  <2>4. OpStages' /\ NoTrace'
    BY <2>1 DEF BInv, TypeOK, OpStages, NoTrace
  <2>5. Authorized' /\ BoundaryHolds'
    BY <1>0, <1>1, <1>3, <2>1, <2>2 DEF BInv, TypeOK, Authorized, BrandActor, BoundaryHolds
  <2>6. KeysInv'
    BY <2>1 DEF BInv, TypeOK, KeysInv, KeyHeld, Clocks, Overtaken, AlwaysAKey, OldKeyDies,
       Rotated, KeysOf, Active, Registered
  <2>7. BatchesInv'
    BY <2>1, <2>2 DEF BInv, TypeOK, BatchesInv, BatchHeld, ClosedByOne
  <2>8. AddressHeld' /\ EmailOnce'
    BY <2>1 DEF BInv, TypeOK, AddressHeld, Inserting, EmailOnce, Registered
  <2> QED
    BY <2>3, <2>4, <2>5, <2>6, <2>7, <2>8 DEF BInv
<1> QED
  <2>1. \/ status # "Ok" /\ Answer(r, status) /\ UNCHANGED shown
        \/ Answer(r, "NotFound") /\ UNCHANGED shown
        \/ status = "Ok" /\ Answer(r, "Ok") /\ shown' = [shown EXCEPT ![r] = rows]
    BY DEF Read, status, rows
  <2>2. "NotFound" \in Answers \ {"Ok"}
    BY DEF Answers
  <2> QED
    BY <1>1, <1>2, <1>3, <2>1, <2>2

LEMMA RefuseOk ==
    ASSUME BInv, NEW r \in Request, Refuse(r)
    PROVE  BInv'
<1>1. stage[r] = "run" /\ Refusal(r) # "Ok" /\ Answer(r, Refusal(r))
      /\ UNCHANGED <<tables, clock, local, ended>>
  BY DEF Refuse
<1>2. CASE ask[r].op = "register"
  <2>1. Refusal(r) = RegisterAnswer(actor[r], ask[r])
    BY <1>2 DEF Refusal
  <2>2. Refusal(r) \in Answers
    BY <2>1 DEF RegisterAnswer, Check, Answers
  <2> QED
    BY <1>1, <2>2, RefusedOk
<1>3. CASE ask[r].op = "create_batch"
  <2>1. Refusal(r) = CreateBatchAnswer(actor[r], ask[r].target)
    BY <1>3 DEF Refusal
  <2>2. Refusal(r) \in Answers
    BY <2>1 DEF CreateBatchAnswer, Check, Answers
  <2> QED
    BY <1>1, <2>2, RefusedOk
<1>4. CASE ask[r].op \notin {"register", "create_batch"}
  BY <1>1, <1>4 DEF Refusal
<1> QED
  BY <1>2, <1>3, <1>4

LEMMA FailOk ==
    ASSUME BInv, NEW r \in Request, Fail(r)
    PROVE  BInv'
<1>1. PICK a \in {"Unauthorized", "Database"} : Answer(r, a)
  BY DEF Fail
<1> QED
  BY <1>1, RefusedOk DEF Fail, Answers

LEMMA NextBInv == BInv /\ [Next]_vars => BInv'
<1> SUFFICES ASSUME BInv, [Next]_vars PROVE BInv'
  OBVIOUS
<1>1. CASE UNCHANGED vars
  <2>1. UNCHANGED <<brands, keys, batches, clock, stage, ask, actor, began, old, shown, answer, ended>>
    BY <1>1 DEF vars, tables, local
  <2> QED
    BY <2>1 DEF BInv, TypeOK, OpStages, NoTrace, Authorized, BrandActor, BoundaryHolds, KeysInv,
       KeyHeld, Clocks, Overtaken, AlwaysAKey, OldKeyDies, Rotated, KeysOf, Active, Registered,
       BatchesInv, BatchHeld, ClosedByOne, AddressHeld, Inserting, EmailOnce
<1>2. ASSUME NEW r \in Request, Commit(r) PROVE BInv'
  <2>1. ask[r].op \in {"register", "rotate"}
    BY <1>2 DEF Commit, BInv, OpStages
  <2> QED
    BY <1>2, <2>1, RegisterOk, RotateOk
<1> QED
  BY <1>1, <1>2, ReceiveOk, AuthenticateOk, ReadOk, RefuseOk, LookUpEmailOk, BeginOk, CreateBrandOk,
     FetchActiveKeyOk, RevokeKeyOk, CreateBatchOk, FetchBatchOk, CloseBatchOk, FailOk DEF Next

(***************************************************************************)
(* The inductive invariant holds of every behaviour.                       *)
(***************************************************************************)
THEOREM BrandsInvariance == Spec => []BInv
  BY InitBInv, NextBInv, PTL DEF Spec

(***************************************************************************)
(* Every variable keeps its type, and a rotation past its SELECT holds a   *)
(* key.                                                                    *)
(***************************************************************************)
THEOREM BrandsTypes == Spec => []TypeOK
<1>1. BInv => TypeOK
  BY DEF BInv
<1> QED
  BY <1>1, BrandsInvariance, PTL

(***************************************************************************)
(* Rotations of rotate_api_key, however many race, never leave a brand     *)
(* without an active key.                                                  *)
(***************************************************************************)
THEOREM NeverLockedOut == Spec => []AlwaysAKey
<1>1. BInv => AlwaysAKey
  BY DEF BInv, KeysInv
<1> QED
  BY <1>1, BrandsInvariance, PTL

(***************************************************************************)
(* A key is revoked by the rotations that name it, and two of them name    *)
(* the same one only when they overlap.                                    *)
(***************************************************************************)
THEOREM RotationsRevoke == Spec => []OldKeyDies
<1>1. BInv => OldKeyDies
  BY DEF BInv, KeysInv
<1> QED
  BY <1>1, BrandsInvariance, PTL

(***************************************************************************)
(* Registrations of register_brand never share an address.                 *)
(***************************************************************************)
THEOREM AddressesAreUnique == Spec => []EmailOnce
<1>1. BInv => EmailOnce
  BY DEF BInv
<1> QED
  BY <1>1, BrandsInvariance, PTL

(***************************************************************************)
(* No route shows, makes or closes for an actor of a brand what belongs to *)
(* another one.                                                            *)
(***************************************************************************)
THEOREM BoundaryIsKept == Spec => []BoundaryHolds
<1>1. BInv => BoundaryHolds
  BY DEF BInv
<1> QED
  BY <1>1, BrandsInvariance, PTL

(***************************************************************************)
(* Of all requests to close_batch one is told that it closed the batch.    *)
(***************************************************************************)
THEOREM ClosesOnce == Spec => []ClosedByOne
<1>1. BInv => ClosedByOne
  BY DEF BInv, BatchesInv
<1> QED
  BY <1>1, BrandsInvariance, PTL
=============================================================================
