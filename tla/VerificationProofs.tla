------------------------- MODULE VerificationProofs -------------------------
(***************************************************************************)
(* Proofs about Activation and Verification for any number of assets,      *)
(* requests, scans, tries, faults and environments.                        *)
(***************************************************************************)
EXTENDS Verification, FiniteSetTheorems, SequenceTheorems, TLAPS

Activates(r) == ask[r].action = "ActivateRotateKeys"
Entangles(r) == ask[r].action = "ActivateEntangle"
CommitmentOf(r) == Commitment(ask[r].asset, ask[r].product)

BrandAttests(c, b) == \E t \in brandAtts : t.commitment = c /\ t.brand = b
PlatformAttests(c) == \E t \in platAtts : t.commitment = c
Tagged(c, a) ==
    /\ Columns[a].uid # None
    /\ c.brand = Columns[a].brand /\ c.uid = Normalized[Columns[a].uid]

\* Which request a stage belongs to; an activation without a product gets nowhere.
Duty(r) ==
    /\ stage[r] \in ActivateStages => Activates(r)
    /\ stage[r] \in {"card", "entangle"} => Entangles(r)
    /\ stage[r] # "idle" /\ Activates(r) /\ ask[r].product = None =>
          stage[r] = "done" /\ answer[r].status = "InvalidInput"

\* What an activation has stored by the time it is at a stage; rows are never deleted.
Evidence(r) == Activates(r) =>
    /\ stage[r] \in {"bind", "brand", "platform", "persist"} =>
          Columns[ask[r].asset].uid # None /\ CommitmentOf(r) \in commitments
    /\ stage[r] \in {"platform", "persist"} =>
          BrandAttests(CommitmentOf(r), Columns[ask[r].asset].brand)
    /\ stage[r] = "persist" => PlatformAttests(CommitmentOf(r))

\* An entanglement that has taken the place of the asset, and that only its event is missing from.
Holds(r) == stage[r] = "persist" /\ Entangles(r)

CardHeld(r) ==
    /\ stage[r] = "entangle" => read[r].card # NoCard /\ \E d \in devices : d.uid = read[r].card
    /\ Holds(r) =>
          /\ read[r].card # NoCard /\ entangled[ask[r].asset] = read[r].card
          /\ EventsOf(ask[r].asset, "ActivateEntangle") = {}

\* A successful answer, given the first time or again, is an event of the request's kind.
Answered(r) ==
    stage[r] = "done" /\ answer[r].status = "Ok" =>
        answer[r].event \in EventsOf(ask[r].asset, ask[r].action)

\* What a request has left on the asset, while nobody overlaps it.
Undisturbed(r) == ~overlap /\ Activates(r) =>
    /\ stage[r] \in ActivateStages \cup {"persist"} =>
          EventsOf(ask[r].asset, "ActivateRotateKeys") = {}
    /\ stage[r] \in {"commit", "bind", "brand", "platform", "persist"} =>
          mapping[ask[r].asset] = ask[r].product
    /\ stage[r] \in {"brand", "platform", "persist"} =>
          bound[ask[r].asset] = CommitmentOf(r)

\* Every database error was paid for with a fault, or the asset is entangled.
Blocked(r) == Entangles(r) /\ Entangled(ask[r].asset)
Paid(r) ==
    /\ r \in InFlight => tries[r] <= faults + 1 \/ Blocked(r)
    /\ stage[r] = "done" /\ answer[r].status = "Database" => tries[r] <= faults \/ Blocked(r)

Good(r) ==
    Duty(r) /\ Evidence(r) /\ CardHeld(r) /\ Answered(r) /\ Undisturbed(r) /\ Paid(r)

-----------------------------------------------------------------------------
\* Attestations are of the brand of their commitment, and of the environment.
Signed ==
    /\ \A t \in brandAtts : t.brand = t.commitment.brand
    /\ ~rekeyed => /\ \A t \in brandAtts : t.secret = BrandSecret[config]
                   /\ \A t \in platAtts : t.secret = PlatformSecret[config]

BoundStored ==
    \A a \in Asset : bound[a] # NoCommitment => bound[a] \in commitments /\ Tagged(bound[a], a)

\* An asset is entangled before the event of it, and with the card of the event.
CardOfEvent ==
    \A a \in Asset :
        /\ Entangled(a) => \E d \in devices : d.uid = entangled[a]
        /\ ~Entangled(a) => EventsOf(a, "ActivateEntangle") = {}
        /\ \A n \in EventsOf(a, "ActivateEntangle") :
              /\ events[a][n].card = entangled[a]
              /\ \A m \in EventsOf(a, "ActivateEntangle") : m = n

CardsCoded == \A d \in devices : d.hash = Credential(d.brand, d.uid, d.epoch)

\* An activated asset is never found unassigned again.
Moved ==
    \A a \in Asset : EventsOf(a, "ActivateRotateKeys") # {} => assets[a].current # "Unassigned"

\* A key record is of a request whose event it points at.
Recorded ==
    \A rec \in idempotency : \E i \in AllAsks :
        rec.hash = RequestHash(i) /\ rec.event \in EventsOf(i.asset, i.action)

OneHolder ==
    \A r, s \in Request : Holds(r) /\ Holds(s) /\ ask[r].asset = ask[s].asset => r = s
Alone == ~overlap => \A r, s \in InFlight : r = s

ATypeInv == ActivationTypeOK /\ IsFiniteSet(devices)
TablesInv ==
    /\ Signed /\ BoundStored /\ CardOfEvent /\ CardsCoded /\ Moved /\ Recorded
    /\ ActivationIsAttested /\ ProductIsCommitted
AInv ==
    /\ ATypeInv /\ TablesInv
    /\ OneHolder /\ Alone
    /\ \A r \in Request : Good(r)

-----------------------------------------------------------------------------
LEMMA AskType ==
    ASSUME NEW i \in AllAsks
    PROVE  /\ i.asset \in Asset /\ i.action \in {"ActivateRotateKeys", "ActivateEntangle"}
           /\ i.role \in ActorRole /\ i.brand \in Brand \cup {None} /\ i.previous \in OptState
           /\ i.product \in Product \cup {None} /\ i.key \in Key /\ i.trace \in Trace
  BY DEF AllAsks

LEMMA ColumnsType ==
    ASSUME NEW a \in Asset
    PROVE  /\ Columns[a].brand \in Brand /\ Columns[a].uid \in Uid \cup {None}
           /\ Columns[a].epoch \in Nat /\ Columns[a].key_epoch \in Nat
  BY ActivationAssumption

LEMMA CommitmentType ==
    ASSUME NEW a \in Asset, Columns[a].uid # None, NEW p \in Product
    PROVE  /\ Commitment(a, p) \in Commitments /\ Tagged(Commitment(a, p), a)
           /\ Commitment(a, p).brand = Columns[a].brand
           /\ Commitment(a, p).product = Trimmed[p]
<1>1. Normalized[Columns[a].uid] \in Uid /\ Trimmed[p] \in Product
  BY ColumnsType, ActivationAssumption
<1> QED
  BY <1>1, ColumnsType DEF Commitment, Commitments, Tagged

\* The row of an asset without commitment is no commitment.
LEMMA NoCommitmentIsNone == NoCommitment \notin Commitments
  BY ActivationAssumption DEF NoCommitment, Commitments

\* The hash of a request tells its asset and its kind.
LEMMA HashTells ==
    ASSUME NEW i \in AllAsks, NEW j \in AllAsks, RequestHash(i) = RequestHash(j)
    PROVE  i.asset = j.asset /\ i.action = j.action
<1> DEFINE short(x) == [asset |-> x.asset, trace |-> x.trace, role |-> x.role, product |-> x.product]
           long(x)  == [asset |-> x.asset, trace |-> x.trace, role |-> x.role,
                        approval |-> x.approval, previous |-> x.previous]
<1>1. \A x \in AllAsks : RequestHash(x) = IF x.action = "ActivateRotateKeys" THEN short(x) ELSE long(x)
  BY DEF RequestHash
<1>2. \A x \in AllAsks : short(x).asset = x.asset /\ long(x).asset = x.asset
  OBVIOUS
<1>3. \A x, y \in AllAsks : short(x) # long(y)
  <2> SUFFICES ASSUME NEW x \in AllAsks, NEW y \in AllAsks, short(x) = long(y) PROVE FALSE
    OBVIOUS
  <2>1. "product" \in DOMAIN short(x) /\ "product" \notin DOMAIN long(y)
    OBVIOUS
  <2> HIDE DEF short, long
  <2> QED
    BY <2>1
<1>4. i.action \in {"ActivateRotateKeys", "ActivateEntangle"} /\ j.action \in {"ActivateRotateKeys", "ActivateEntangle"}
  BY AskType
<1> HIDE DEF short, long
<1> QED
  BY <1>1, <1>2, <1>3, <1>4

\* A commit appends one event to the log of one asset.
LEMMA AppendedEvent ==
    ASSUME ActivationTypeOK, NEW a \in Asset, NEW e \in ActivationEvents,
           events' = [events EXCEPT ![a] = Append(@, e)]
    PROVE  /\ \A b \in Asset \ {a} : events'[b] = events[b]
           /\ Len(events'[a]) = Len(events[a]) + 1 /\ Len(events[a]) \in Nat
           /\ events'[a][Len(events[a]) + 1] = e
           /\ \A n \in 1..Len(events[a]) : events'[a][n] = events[a][n]
           /\ events' \in [Asset -> Seq(ActivationEvents)]
<1>1. events \in [Asset -> Seq(ActivationEvents)]
  BY DEF ActivationTypeOK
<1>2. events[a] \in Seq(ActivationEvents) /\ events'[a] = Append(events[a], e)
  BY <1>1
<1>3. /\ \A b \in Asset \ {a} : events'[b] = events[b]
      /\ Append(events[a], e) \in Seq(ActivationEvents)
  BY <1>1, <1>2
<1>4. events' \in [Asset -> Seq(ActivationEvents)]
  BY <1>1, <1>3
<1>5. /\ Len(Append(events[a], e)) = Len(events[a]) + 1 /\ Len(events[a]) \in Nat
      /\ Append(events[a], e)[Len(events[a]) + 1] = e
      /\ \A n \in 1..Len(events[a]) : Append(events[a], e)[n] = events[a][n]
  BY <1>2
<1> QED
  BY <1>2, <1>3, <1>4, <1>5

\* What the commit adds to the events of a kind.
LEMMA AppendedKind ==
    ASSUME ActivationTypeOK, NEW a \in Asset, NEW e \in ActivationEvents,
           events' = [events EXCEPT ![a] = Append(@, e)]
    PROVE  /\ \A b \in Asset : \A x : EventsOf(b, x) \subseteq EventsOf(b, x)'
           /\ \A b \in Asset \ {a} : \A x : EventsOf(b, x)' = EventsOf(b, x)
           /\ \A x : e.action # x => EventsOf(a, x)' = EventsOf(a, x)
           /\ EventsOf(a, e.action)' = EventsOf(a, e.action) \cup {Len(events[a]) + 1}
           /\ \A b \in Asset : \A x : \A n \in EventsOf(b, x) : events'[b][n] = events[b][n]
<1>1. /\ \A b \in Asset \ {a} : events'[b] = events[b]
      /\ Len(events'[a]) = Len(events[a]) + 1 /\ Len(events[a]) \in Nat
      /\ events'[a][Len(events[a]) + 1] = e
      /\ \A n \in 1..Len(events[a]) : events'[a][n] = events[a][n]
  BY AppendedEvent
<1>2. 1..(Len(events[a]) + 1) = (1..Len(events[a])) \cup {Len(events[a]) + 1}
  BY <1>1
<1>3. \A b \in Asset \ {a} : \A x : EventsOf(b, x)' = EventsOf(b, x)
  BY <1>1 DEF EventsOf
<1>4. \A x : e.action # x => EventsOf(a, x)' = EventsOf(a, x)
  BY <1>1, <1>2 DEF EventsOf
<1>5. EventsOf(a, e.action)' = EventsOf(a, e.action) \cup {Len(events[a]) + 1}
  BY <1>1, <1>2 DEF EventsOf
<1>6. \A b \in Asset : \A x : EventsOf(b, x) \subseteq EventsOf(b, x)'
  BY <1>3, <1>4, <1>5
<1>7. \A b \in Asset : \A x : \A n \in EventsOf(b, x) : events'[b][n] = events[b][n]
  BY <1>1 DEF EventsOf
<1> QED
  BY <1>3, <1>4, <1>5, <1>6, <1>7

-----------------------------------------------------------------------------
LEMMA InitAInv == Init => AInv
<1> SUFFICES ASSUME Init PROVE AInv
  OBVIOUS
<1>1. PICK ask0 \in Asks, config0 \in Config :
         /\ ask = [r \in Request |-> ask0] /\ config = config0 /\ ask0 \in AllAsks
  BY ActivationAssumption DEF Init
<1>2. /\ assets \in [Asset -> Rows] /\ origin \in [Asset -> Rows]
      /\ events = [a \in Asset |-> << >>] /\ idempotency = {}
      /\ mapping = [a \in Asset |-> None] /\ bound = [a \in Asset |-> NoCommitment]
      /\ commitments = {} /\ brandAtts = {} /\ platAtts = {}
      /\ devices = {} /\ entangled = [a \in Asset |-> NoCard]
      /\ stage = [r \in Request |-> "idle"] /\ read = [r \in Request |-> NoRead]
      /\ answer = [r \in Request |-> NoAnswer] /\ tries = [r \in Request |-> 0]
      /\ faults = 0 /\ overlap = FALSE /\ rekeyed = FALSE
  BY DEF Init, StoreInit
<1>3. \A a \in Asset : \A x : EventsOf(a, x) = {}
  BY <1>2 DEF EventsOf
<1>4. ATypeInv
  <2>1. << >> \in Seq(ActivationEvents)
    OBVIOUS
  <2>2. NoRead \in [current : AssetState, previous : OptState, at : Nat, card : Card]
    BY DEF NoRead, AssetState, LiveStates, PreSaleStates, OptState, Card, NoCard
  <2>3. NoAnswer \in [status : Statuses, event : Nat]
    BY DEF NoAnswer, Statuses
  <2>4. IsFiniteSet(devices)
    BY <1>2, FS_EmptySet
  <2>5. "idle" \in Stages /\ NoCard \in Card
    BY DEF Stages, Card, NoCard
  <2> QED
    BY <1>1, <1>2, <2>1, <2>2, <2>3, <2>4, <2>5 DEF ATypeInv, ActivationTypeOK
<1>5. TablesInv
  BY <1>2, <1>3 DEF TablesInv, Signed, BoundStored, CardOfEvent, CardsCoded, Moved, Recorded,
                    ActivationIsAttested, ProductIsCommitted, Entangled
<1>6. OneHolder /\ Alone
  BY <1>2 DEF OneHolder, Alone, Holds, InFlight
<1>7. ASSUME NEW r \in Request PROVE Good(r)
  <2>1. stage[r] = "idle"
    BY <1>2
  <2> QED
    BY <2>1 DEF Good, Duty, Evidence, CardHeld, Holds, Answered, Undisturbed, Paid, InFlight,
                ActivateStages
<1> QED
  BY <1>4, <1>5, <1>6, <1>7 DEF AInv

-----------------------------------------------------------------------------
(***************************************************************************)
(* What every step does to the tables: rows are added and never deleted,   *)
(* an entanglement stays, and a committed event is never changed.          *)
(***************************************************************************)
Grows ==
    /\ commitments \subseteq commitments' /\ devices \subseteq devices'
    /\ brandAtts \subseteq brandAtts' /\ platAtts \subseteq platAtts'
    /\ \A a \in Asset : Entangled(a) => entangled'[a] = entangled[a]
    /\ \A a \in Asset : \A x : EventsOf(a, x) \subseteq EventsOf(a, x)'
    /\ \A a \in Asset : \A x : \A n \in EventsOf(a, x) : events'[a][n] = events[a][n]
    /\ faults \in Nat /\ faults' \in Nat /\ faults' >= faults

Same(s) ==
    /\ stage'[s] = stage[s] /\ ask'[s] = ask[s] /\ read'[s] = read[s]
    /\ answer'[s] = answer[s] /\ tries'[s] = tries[s]

\* A request that does not move keeps what it knows.
LEMMA OtherKeeps ==
    ASSUME AInv, Grows, NEW s \in Request, Same(s),
           ~overlap' => ~overlap /\ s \notin InFlight,
           Holds(s) => EventsOf(ask[s].asset, "ActivateEntangle")'
                         = EventsOf(ask[s].asset, "ActivateEntangle")
    PROVE  Good(s)'
<1> USE DEF Same
<1>1. Good(s) /\ ask[s].asset \in Asset
  BY AskType DEF AInv, ATypeInv, ActivationTypeOK
<1>2. Duty(s)'
  BY <1>1 DEF Good, Duty, Activates, Entangles
<1>3. Evidence(s)'
  BY <1>1 DEF Good, Evidence, Activates, CommitmentOf, BrandAttests, PlatformAttests, Grows
<1>4. CardHeld(s)'
  <2>1. stage[s] = "entangle" => read[s].card # NoCard /\ \E d \in devices' : d.uid = read[s].card
    BY <1>1 DEF Good, CardHeld, Grows
  <2>2. Holds(s) => /\ read[s].card # NoCard /\ entangled'[ask[s].asset] = read[s].card
                    /\ EventsOf(ask[s].asset, "ActivateEntangle")' = {}
    BY <1>1 DEF Good, CardHeld, Grows, Entangled
  <2> QED
    BY <2>1, <2>2 DEF CardHeld, Holds, Entangles
<1>5. Answered(s)'
  <2>1. stage[s] = "done" /\ answer[s].status = "Ok" =>
           answer[s].event \in EventsOf(ask[s].asset, ask[s].action)'
    BY <1>1 DEF Good, Answered, Grows
  <2> QED
    BY <2>1 DEF Answered, EventsOf
<1>6. Undisturbed(s)'
  BY DEF Undisturbed, InFlight, ActivateStages, Activates
<1>7. Paid(s)'
  <2>1. Blocked(s) => Blocked(s)'
    BY <1>1 DEF Blocked, Entangles, Entangled, Grows
  <2>2. tries[s] \in Nat
    BY DEF AInv, ATypeInv, ActivationTypeOK
  <2> QED
    BY <1>1, <2>1, <2>2 DEF Good, Paid, InFlight, Grows
<1> QED
  BY <1>2, <1>3, <1>4, <1>5, <1>6, <1>7 DEF Good

(***************************************************************************)
(* A step of request r: what it has to show for itself, when the others    *)
(* stay where they are.                                                    *)
(***************************************************************************)
LEMMA RequestStep ==
    ASSUME AInv, Grows, NEW r \in Request, \A s \in Request \ {r} : Same(s),
           ~overlap' => ~overlap /\ InFlight \subseteq {r},
           \A s \in Request \ {r} : Holds(s) =>
              EventsOf(ask[s].asset, "ActivateEntangle")' = EventsOf(ask[s].asset, "ActivateEntangle"),
           ATypeInv', TablesInv', Good(r)',
           Holds(r)' => \A s \in Request \ {r} : Holds(s) => ask[s].asset # ask'[r].asset
    PROVE  AInv'
<1>1. \A s \in Request \ {r} : Good(s)'
  BY OtherKeeps
<1>2. OneHolder'
  BY DEF AInv, OneHolder, Holds, Entangles, Same
<1>3. Alone'
  <2>1. ~overlap' => InFlight' \subseteq {r}
    BY DEF InFlight, Same
  <2> QED
    BY <2>1 DEF Alone
<1> QED
  BY <1>1, <1>2, <1>3 DEF AInv

\* A step that leaves the tables alone leaves what is said of them.
LEMMA TablesKeep ==
    ASSUME AInv, UNCHANGED <<tables, deployment>>, overlap \in BOOLEAN, ~overlap' => ~overlap
    PROVE  TablesInv' /\ \A a \in Asset : \A x : EventsOf(a, x)' = EventsOf(a, x)
<1>1. /\ assets' = assets /\ origin' = origin /\ events' = events /\ idempotency' = idempotency
      /\ mapping' = mapping /\ bound' = bound /\ commitments' = commitments
      /\ brandAtts' = brandAtts /\ platAtts' = platAtts
      /\ devices' = devices /\ entangled' = entangled /\ config' = config /\ rekeyed' = rekeyed
  BY DEF tables, deployment, storeVars, evidence, cards
<1>2. \A a \in Asset : \A x : EventsOf(a, x)' = EventsOf(a, x)
  BY <1>1 DEF EventsOf
<1>3. Signed' /\ BoundStored' /\ CardsCoded' /\ Recorded'
  BY <1>1 DEF AInv, TablesInv, Signed, BoundStored, Tagged, CardsCoded, Recorded, EventsOf
<1>4. CardOfEvent' /\ Moved'
  BY <1>1, <1>2 DEF AInv, TablesInv, CardOfEvent, Moved, Entangled
<1>5. ActivationIsAttested' /\ ProductIsCommitted'
  BY <1>1, <1>2 DEF AInv, TablesInv, ActivationIsAttested, ProductIsCommitted
<1> QED
  BY <1>2, <1>3, <1>4, <1>5 DEF TablesInv

\* A step that changes nothing but the request itself.
LEMMA QuietStep ==
    ASSUME AInv, NEW r \in Request, UNCHANGED <<tables, deployment>>,
           NEW st \in Stages \ {"persist"}, stage' = [stage EXCEPT ![r] = st],
           NEW i \in AllAsks, ask' = [ask EXCEPT ![r] = i],
           NEW rec \in [current : AssetState, previous : OptState, at : Nat, card : Card],
           read' = [read EXCEPT ![r] = rec],
           NEW ans \in [status : Statuses, event : Nat], answer' = [answer EXCEPT ![r] = ans],
           NEW n \in Nat, tries' = [tries EXCEPT ![r] = n],
           faults' \in Nat, faults' >= faults, overlap' \in BOOLEAN,
           ~overlap' => ~overlap /\ InFlight \subseteq {r},
           Good(r)'
    PROVE  AInv'
<1>1. /\ assets' = assets /\ origin' = origin /\ events' = events /\ idempotency' = idempotency
      /\ mapping' = mapping /\ bound' = bound /\ commitments' = commitments
      /\ brandAtts' = brandAtts /\ platAtts' = platAtts
      /\ devices' = devices /\ entangled' = entangled /\ config' = config /\ rekeyed' = rekeyed
  BY DEF tables, deployment, storeVars, evidence, cards
<1>2. ATypeInv'
  <2>1. ActivationTypeOK
    BY DEF AInv, ATypeInv
  <2>2. ActivationTypeOK'
    BY <1>1, <2>1 DEF ActivationTypeOK
  <2> QED
    BY <1>1, <2>2 DEF AInv, ATypeInv
<1>3. TablesInv' /\ \A a \in Asset : \A x : EventsOf(a, x)' = EventsOf(a, x)
  BY TablesKeep DEF AInv, ATypeInv, ActivationTypeOK
<1>4. Grows
  BY <1>1, <1>3 DEF Grows, AInv, ATypeInv, ActivationTypeOK
<1>5. \A s \in Request \ {r} : Same(s)
  BY DEF Same, AInv, ATypeInv, ActivationTypeOK
<1>6. \A s \in Request : EventsOf(ask[s].asset, "ActivateEntangle")' = EventsOf(ask'[s].asset, "ActivateEntangle")
  BY <1>1 DEF EventsOf
<1>7. \A s \in Request \ {r} :
         EventsOf(ask[s].asset, "ActivateEntangle")' = EventsOf(ask[s].asset, "ActivateEntangle")
  BY <1>5, <1>6 DEF Same
<1>8. ~Holds(r)'
  BY DEF Holds, AInv, ATypeInv, ActivationTypeOK
<1> QED
  BY <1>2, <1>3, <1>4, <1>5, <1>7, <1>8, RequestStep

-----------------------------------------------------------------------------
LEMMA RequestType ==
    ASSUME AInv, NEW r \in Request
    PROVE  /\ stage[r] \in Stages /\ ask[r] \in AllAsks /\ ask[r].asset \in Asset
           /\ ask[r].action \in {"ActivateRotateKeys", "ActivateEntangle"}
           /\ read[r] \in [current : AssetState, previous : OptState, at : Nat, card : Card]
           /\ answer[r] \in [status : Statuses, event : Nat] /\ tries[r] \in Nat
           /\ faults \in Nat /\ overlap \in BOOLEAN
           /\ stage = [stage EXCEPT ![r] = stage[r]] /\ ask = [ask EXCEPT ![r] = ask[r]]
           /\ read = [read EXCEPT ![r] = read[r]] /\ answer = [answer EXCEPT ![r] = answer[r]]
           /\ tries = [tries EXCEPT ![r] = tries[r]]
<1>1. /\ stage \in [Request -> Stages] /\ ask \in [Request -> AllAsks]
      /\ read \in [Request -> [current : AssetState, previous : OptState, at : Nat, card : Card]]
      /\ answer \in [Request -> [status : Statuses, event : Nat]]
      /\ tries \in [Request -> Nat] /\ faults \in Nat /\ overlap \in BOOLEAN
  BY DEF AInv, ATypeInv, ActivationTypeOK
<1>2. ask[r] \in AllAsks
  BY <1>1
<1> QED
  BY <1>1, <1>2, AskType

\* An open request that nobody overlaps is the only one; its body is in order.
LEMMA OpenAlone ==
    ASSUME AInv, NEW r \in InFlight
    PROVE  /\ r \in Request /\ (~overlap => InFlight \subseteq {r})
           /\ Activates(r) => ask[r].product \in Product
<1>1. r \in Request /\ stage[r] \notin {"idle", "done"}
  BY DEF InFlight
<1>2. Activates(r) => ask[r].product # None
  BY <1>1 DEF AInv, Good, Duty
<1>3. ask[r].product \in Product \cup {None}
  BY <1>1, RequestType, AskType
<1> QED
  BY <1>1, <1>2, <1>3 DEF AInv, Alone

\* A request that ends without success.
LEMMA RefusedOk ==
    ASSUME AInv, NEW r \in InFlight, NEW status \in Statuses \ {"None", "Ok"},
           Answer(r, status, 0), UNCHANGED <<tables, deployment, control>>,
           \/ UNCHANGED faults /\ (status = "Database" => Blocked(r))
           \/ faults' = faults + 1
    PROVE  AInv'
<1> DEFINE ans == [status |-> status, event |-> 0]
<1>1. /\ stage' = [stage EXCEPT ![r] = "done"] /\ answer' = [answer EXCEPT ![r] = ans]
      /\ read' = [read EXCEPT ![r] = NoRead]
      /\ ask' = ask /\ tries' = tries /\ overlap' = overlap
  BY DEF Answer, control
<1>2. /\ "done" \in Stages \ {"persist"} /\ ans \in [status : Statuses, event : Nat]
      /\ NoRead \in [current : AssetState, previous : OptState, at : Nat, card : Card]
  BY DEF Stages, NoRead, NoCard, AssetState, LiveStates, PreSaleStates, OptState, Card
<1>3. /\ r \in Request /\ stage[r] \notin {"idle", "done"}
      /\ stage'[r] = "done" /\ ask'[r] = ask[r] /\ tries'[r] = tries[r] /\ tries[r] \in Nat
      /\ answer'[r] = ans /\ faults \in Nat /\ faults' \in Nat /\ faults' >= faults
  BY <1>1, RequestType DEF InFlight, AInv, ATypeInv, ActivationTypeOK
<1>4. Good(r)'
  <2>1. Duty(r)'
    BY <1>3 DEF AInv, Good, Duty, Activates, ActivateStages
  <2>2. Evidence(r)' /\ CardHeld(r)' /\ Undisturbed(r)'
    BY <1>3 DEF Evidence, CardHeld, Holds, Undisturbed, ActivateStages
  <2>3. Answered(r)'
    BY <1>3 DEF Answered
  <2>4. Blocked(r)' <=> Blocked(r)
    BY <1>3 DEF Blocked, Entangles, Entangled, tables, cards
  <2>5. tries[r] <= faults + 1 \/ Blocked(r)
    BY DEF AInv, Good, Paid, InFlight
  <2>6. Paid(r)'
    BY <1>3, <2>4, <2>5 DEF Paid, InFlight
  <2> QED
    BY <2>1, <2>2, <2>3, <2>6 DEF Good
<1> HIDE DEF ans
<1>5. /\ ask' = [ask EXCEPT ![r] = ask[r]] /\ ask[r] \in AllAsks
      /\ tries' = [tries EXCEPT ![r] = tries[r]] /\ tries[r] \in Nat
      /\ faults' \in Nat /\ faults' >= faults
      /\ overlap' \in BOOLEAN /\ (~overlap' => ~overlap /\ InFlight \subseteq {r})
  BY <1>1, <1>3, OpenAlone, RequestType
<1> QED
  BY <1>1, <1>2, <1>3, <1>4, <1>5, QuietStep

\* A request that goes on, having written nothing.
LEMMA AdvanceOk ==
    ASSUME AInv, NEW r \in InFlight, NEW st \in {"fetch", "map", "card"},
           NEW rec \in [current : AssetState, previous : OptState, at : Nat, card : Card],
           stage' = [stage EXCEPT ![r] = st], read' = [read EXCEPT ![r] = rec],
           answer' = answer, UNCHANGED <<tables, deployment, control, faults>>,
           st = "map" => /\ Activates(r)
                         /\ EventsOf(ask[r].asset, "ActivateRotateKeys") = {},
           st = "card" => Entangles(r)
    PROVE  AInv'
<1>1. ask' = ask /\ tries' = tries /\ overlap' = overlap /\ faults' = faults /\ events' = events
  BY DEF control, tables, storeVars
<1>2. st \in Stages \ {"persist", "idle", "done"}
  BY DEF Stages, ActivateStages
<1>3. /\ r \in Request /\ stage[r] \notin {"idle", "done"}
      /\ stage'[r] = st /\ ask'[r] = ask[r] /\ tries'[r] = tries[r]
      /\ answer'[r] = answer[r] /\ faults \in Nat
  BY <1>1, RequestType DEF InFlight, AInv, ATypeInv, ActivationTypeOK
<1>4. Good(r)'
  <2>1. Duty(r)'
    BY <1>2, <1>3 DEF AInv, Good, Duty, Activates, Entangles, ActivateStages
  <2>2. Evidence(r)' /\ CardHeld(r)' /\ Answered(r)'
    BY <1>3 DEF Evidence, CardHeld, Holds, Answered
  <2>3. Undisturbed(r)'
    BY <1>1, <1>3 DEF Undisturbed, ActivateStages, EventsOf
  <2>4. Blocked(r)' <=> Blocked(r)
    BY <1>3 DEF Blocked, Entangles, Entangled, tables, cards
  <2>5. tries[r] <= faults + 1 \/ Blocked(r)
    BY DEF AInv, Good, Paid, InFlight
  <2>6. Paid(r)'
    BY <1>1, <1>2, <1>3, <2>4, <2>5 DEF Paid, InFlight
  <2> QED
    BY <2>1, <2>2, <2>3, <2>6 DEF Good
<1>5. /\ ask' = [ask EXCEPT ![r] = ask[r]] /\ ask[r] \in AllAsks
      /\ tries' = [tries EXCEPT ![r] = tries[r]] /\ tries[r] \in Nat
      /\ answer' = [answer EXCEPT ![r] = answer[r]] /\ answer[r] \in [status : Statuses, event : Nat]
      /\ faults' \in Nat /\ faults' >= faults
      /\ overlap' \in BOOLEAN /\ (~overlap' => ~overlap /\ InFlight \subseteq {r})
  BY <1>1, <1>3, OpenAlone, RequestType
<1> QED
  BY <1>1, <1>2, <1>3, <1>4, <1>5, QuietStep

-----------------------------------------------------------------------------
LEMMA ReceiveOk == ASSUME AInv, NEW r \in Request, NEW i \in Asks, Receive(r, i) PROVE AInv'
<1>1. i \in AllAsks
  BY ActivationAssumption
<1>2. /\ stage[r] = "idle" /\ ask' = [ask EXCEPT ![r] = i] /\ tries' = [tries EXCEPT ![r] = 1]
      /\ overlap' = (overlap \/ InFlight # {}) /\ faults' = faults
      /\ UNCHANGED <<tables, deployment>>
  BY DEF Receive
<1> DEFINE refusal(status) == [status |-> status, event |-> 0]
<1>3. PICK st \in {"done", "load"}, rec \in {read[r], NoRead},
           ans \in {answer[r], refusal("InvalidInput"), refusal("InvalidHeader")} :
        /\ stage' = [stage EXCEPT ![r] = st] /\ read' = [read EXCEPT ![r] = rec]
        /\ answer' = [answer EXCEPT ![r] = ans]
        /\ st = "done" => ans.status \in {"InvalidInput", "InvalidHeader"}
        /\ i.action = "ActivateRotateKeys" /\ i.product = None =>
              st = "done" /\ ans.status = "InvalidInput"
  <2>1. CASE i.action = "ActivateRotateKeys" /\ i.product = None
    <3>1. Answer(r, "InvalidInput", 0)
      BY <2>1 DEF Receive
    <3> QED
      BY <3>1 DEF Answer
  <2>2. CASE ~(i.action = "ActivateRotateKeys" /\ i.product = None) /\ ~i.headers
    <3>1. Answer(r, "InvalidHeader", 0)
      BY <2>2 DEF Receive
    <3> QED
      BY <2>2, <3>1 DEF Answer
  <2>3. CASE ~(i.action = "ActivateRotateKeys" /\ i.product = None) /\ i.headers
    <3>1. Goto(r, "load")
      BY <2>3 DEF Receive
    <3> QED
      BY <2>3, <3>1, RequestType DEF Goto
  <2> QED
    BY <2>1, <2>2, <2>3
<1>4. /\ st \in Stages \ {"persist"} /\ ans \in [status : Statuses, event : Nat]
      /\ rec \in [current : AssetState, previous : OptState, at : Nat, card : Card]
  BY <1>3, RequestType DEF Stages, Statuses, NoRead, NoCard, AssetState, LiveStates,
                           PreSaleStates, OptState, Card
<1>5. /\ stage'[r] = st /\ ask'[r] = i /\ tries'[r] = 1 /\ answer'[r] = ans /\ faults \in Nat
  BY <1>2, <1>3, RequestType DEF AInv, ATypeInv, ActivationTypeOK
<1>6. Good(r)'
  <2>1. Duty(r)'
    BY <1>3, <1>5 DEF Duty, Activates, ActivateStages
  <2>2. Evidence(r)' /\ CardHeld(r)' /\ Undisturbed(r)'
    BY <1>5 DEF Evidence, CardHeld, Holds, Undisturbed, ActivateStages
  <2>3. Answered(r)'
    BY <1>3, <1>5 DEF Answered
  <2>4. Paid(r)'
    BY <1>2, <1>3, <1>5 DEF Paid
  <2> QED
    BY <2>1, <2>2, <2>3, <2>4 DEF Good
<1>7. overlap' \in BOOLEAN /\ (~overlap' => ~overlap /\ InFlight \subseteq {r})
  BY <1>2
<1>8. faults' \in Nat /\ faults' >= faults
  BY <1>2, <1>5
<1> HIDE DEF refusal
<1> QED
  BY <1>1, <1>2, <1>3, <1>4, <1>6, <1>7, <1>8, QuietStep

LEMMA RetryOk == ASSUME AInv, NEW r \in Request, Retry(r) PROVE AInv'
<1>1. /\ stage[r] = "done" /\ answer[r].status = "Database"
      /\ tries' = [tries EXCEPT ![r] = @ + 1] /\ stage' = [stage EXCEPT ![r] = "load"]
      /\ read' = read /\ answer' = answer /\ ask' = ask /\ faults' = faults
      /\ overlap' = (overlap \/ InFlight # {}) /\ UNCHANGED <<tables, deployment>>
  BY DEF Retry, Goto
<1>2. /\ tries' = [tries EXCEPT ![r] = tries[r] + 1] /\ tries[r] + 1 \in Nat /\ faults \in Nat
      /\ "load" \in Stages \ {"persist"}
  BY <1>1, RequestType DEF Stages
<1>3. /\ stage'[r] = "load" /\ ask'[r] = ask[r] /\ tries'[r] = tries[r] + 1
      /\ answer'[r] = answer[r]
  BY <1>1, RequestType DEF AInv, ATypeInv, ActivationTypeOK
<1>4. Good(r)'
  <2>1. Duty(r)'
    BY <1>1, <1>3 DEF AInv, Good, Duty, Activates, ActivateStages
  <2>2. Evidence(r)' /\ CardHeld(r)' /\ Undisturbed(r)' /\ Answered(r)'
    BY <1>3 DEF Evidence, CardHeld, Holds, Undisturbed, ActivateStages, Answered
  <2>3. Blocked(r)' <=> Blocked(r)
    BY <1>1 DEF Blocked, Entangles, Entangled, tables, cards
  <2>4. tries[r] <= faults \/ Blocked(r)
    BY <1>1 DEF AInv, Good, Paid
  <2>5. Paid(r)'
    BY <1>1, <1>2, <1>3, <2>3, <2>4, RequestType DEF Paid
  <2> QED
    BY <2>1, <2>2, <2>5 DEF Good
<1>5. overlap' \in BOOLEAN /\ (~overlap' => ~overlap /\ InFlight \subseteq {r})
  BY <1>1
<1>6. /\ ask' = [ask EXCEPT ![r] = ask[r]] /\ ask[r] \in AllAsks
      /\ read' = [read EXCEPT ![r] = read[r]] /\ answer' = [answer EXCEPT ![r] = answer[r]]
      /\ read[r] \in [current : AssetState, previous : OptState, at : Nat, card : Card]
      /\ answer[r] \in [status : Statuses, event : Nat]
      /\ faults' \in Nat /\ faults' >= faults
  BY <1>1, <1>2, RequestType
<1> QED
  BY <1>1, <1>2, <1>4, <1>5, <1>6, QuietStep

LEMMA FailOk == ASSUME AInv, NEW r \in Request, Fail(r) PROVE AInv'
  BY RefusedOk DEF Fail, Statuses

\* A replay of the idempotency record is answered with the event of its first execution.
LEMMA ReplayedOk ==
    ASSUME AInv, NEW r \in InFlight, NEW n \in EventsOf(ask[r].asset, ask[r].action), n \in Nat,
           Answer(r, "Ok", n), UNCHANGED <<tables, deployment, control, faults>>
    PROVE  AInv'
<1> DEFINE ans == [status |-> "Ok", event |-> n]
<1>1. /\ stage' = [stage EXCEPT ![r] = "done"] /\ answer' = [answer EXCEPT ![r] = ans]
      /\ read' = [read EXCEPT ![r] = NoRead] /\ events' = events
      /\ ask' = ask /\ tries' = tries /\ overlap' = overlap /\ faults' = faults
  BY DEF Answer, control, tables, storeVars
<1>2. /\ "done" \in Stages \ {"persist"} /\ ans \in [status : Statuses, event : Nat]
      /\ NoRead \in [current : AssetState, previous : OptState, at : Nat, card : Card]
  BY DEF Stages, Statuses, NoRead, NoCard, AssetState, LiveStates, PreSaleStates, OptState, Card
<1>3. /\ r \in Request /\ stage[r] \notin {"idle", "done"}
      /\ stage'[r] = "done" /\ ask'[r] = ask[r] /\ answer'[r] = ans /\ faults \in Nat
  BY <1>1, RequestType DEF InFlight, AInv, ATypeInv, ActivationTypeOK
<1>4. Good(r)'
  <2>1. Duty(r)'
    BY <1>3 DEF AInv, Good, Duty, Activates, ActivateStages
  <2>2. Evidence(r)' /\ CardHeld(r)' /\ Undisturbed(r)' /\ Paid(r)'
    BY <1>3 DEF Evidence, CardHeld, Holds, Undisturbed, ActivateStages, Paid, InFlight
  <2>3. Answered(r)'
    BY <1>1, <1>3 DEF Answered, EventsOf
  <2> QED
    BY <2>1, <2>2, <2>3 DEF Good
<1>5. /\ ask' = [ask EXCEPT ![r] = ask[r]] /\ ask[r] \in AllAsks
      /\ tries' = [tries EXCEPT ![r] = tries[r]] /\ tries[r] \in Nat
      /\ faults' \in Nat /\ faults' >= faults
      /\ overlap' \in BOOLEAN /\ (~overlap' => ~overlap /\ InFlight \subseteq {r})
  BY <1>1, <1>3, OpenAlone, RequestType
<1> HIDE DEF ans
<1> QED
  BY <1>1, <1>2, <1>3, <1>4, <1>5, QuietStep

LEMMA LoadIdempotencyOk ==
    ASSUME AInv, NEW r \in Request, LoadIdempotency(r) PROVE AInv'
<1>1. r \in InFlight /\ stage[r] = "load" /\ UNCHANGED <<tables, deployment, control, faults>>
  BY DEF LoadIdempotency, InFlight
<1>2. CASE RecordsOf(ask[r].key) = {} /\ Goto(r, "fetch")
  <2>1. /\ stage' = [stage EXCEPT ![r] = "fetch"] /\ answer' = answer
        /\ read' = [read EXCEPT ![r] = read[r]]
    BY <1>2, RequestType DEF Goto
  <2> QED
    BY <1>1, <2>1, RequestType, AdvanceOk
<1>3. ASSUME NEW rec \in RecordsOf(ask[r].key), rec.hash = RequestHash(ask[r]),
             Answer(r, "Ok", rec.event)
      PROVE  AInv'
  <2>1. PICK i \in AllAsks : rec.hash = RequestHash(i) /\ rec.event \in EventsOf(i.asset, i.action)
    BY DEF AInv, TablesInv, Recorded, RecordsOf
  <2>2. rec.event \in EventsOf(ask[r].asset, ask[r].action)
    BY <1>3, <2>1, RequestType, HashTells
  <2>3. rec.event \in Nat
    BY <2>2 DEF EventsOf
  <2> QED
    BY <1>1, <1>3, <2>2, <2>3, ReplayedOk
<1>4. ASSUME Answer(r, "IdempotencyConflict", 0) PROVE AInv'
  BY <1>1, <1>4, RefusedOk DEF Statuses
<1> QED
  BY <1>2, <1>3, <1>4 DEF LoadIdempotency

-----------------------------------------------------------------------------
\* The only transitions of the two actions.
LEMMA ActivationMoves ==
    ASSUME NEW current, NEW previous, NEW target
    PROVE  /\ NextState(current, "ActivateRotateKeys", previous, target) =>
                 current = "Unassigned" /\ target = "RotatingKeys"
           /\ NextState(current, "ActivateEntangle", previous, target) =>
                 current = "RotatingKeys" /\ target = "EntangledPending"
  BY DEF NextState, BusinessTransitions, Verdicts

\* What a request reads of its asset is a state and a state kept by a freeze, or none.
LEMMA FetchedType ==
    ASSUME AInv, NEW a \in Asset, NEW o \in OptState
    PROVE  /\ FetchAsset(a, o).current = assets[a].current
           /\ FetchAsset(a, o).current \in AssetState /\ FetchAsset(a, o).previous \in OptState
           /\ FetchAsset(a, o).at \in Nat
<1>1. assets[a] \in Rows /\ events[a] \in Seq(ActivationEvents)
  BY DEF AInv, ATypeInv, ActivationTypeOK
<1>2. Len(events[a]) \in Nat
  BY <1>1
<1>3. assets[a].current \in AssetState /\ assets[a].previous \in OptState
  BY <1>1 DEF Rows
<1> QED
  BY <1>2, <1>3 DEF FetchAsset

LEMMA JudgeOk ==
    ASSUME AInv, NEW r \in InFlight, NEW o \in OptState,
           NEW next \in {"map", "card"}, Judge(r, FetchAsset(ask[r].asset, o), next),
           next = "map" => Activates(r), next = "card" => Entangles(r),
           UNCHANGED <<tables, deployment, control, faults>>
    PROVE  AInv'
<1> DEFINE got    == FetchAsset(ask[r].asset, o)
           status == IF ~CheckBrandBoundary(ask[r]) THEN "BrandBoundaryViolation"
                     ELSE ApplyStatus(got, ask[r].action, ask[r])
           rec    == [current |-> got.current, previous |-> got.previous,
                      at |-> got.at, card |-> NoCard]
<1>1. r \in Request /\ ask[r].asset \in Asset
  BY RequestType DEF InFlight
<1>2. CASE status # "Ok"
  <2>1. Answer(r, status, 0)
    BY <1>2 DEF Judge
  <2>2. status \in Statuses \ {"None", "Ok", "Database"}
    BY <1>2 DEF ApplyStatus, Statuses
  <2> HIDE DEF status
  <2> QED
    BY <2>1, <2>2, RefusedOk
<1>3. CASE status = "Ok"
  <2>1. Proceed(r, next, rec)
    BY <1>3 DEF Judge
  <2>2. rec \in [current : AssetState, previous : OptState, at : Nat, card : Card]
    BY <1>1, FetchedType DEF NoCard, Card
  <2>3. next = "map" => EventsOf(ask[r].asset, "ActivateRotateKeys") = {}
    <3> SUFFICES ASSUME next = "map" PROVE EventsOf(ask[r].asset, "ActivateRotateKeys") = {}
      OBVIOUS
    <3>1. \E target \in AssetState : NextState(got.current, "ActivateRotateKeys", got.previous, target)
      BY <1>3 DEF ApplyStatus, Activates
    <3>2. assets[ask[r].asset].current = "Unassigned"
      BY <1>1, <3>1, FetchedType, ActivationMoves
    <3> QED
      BY <1>1, <3>2 DEF AInv, TablesInv, Moved
  <2> HIDE DEF rec
  <2> QED
    BY <2>1, <2>2, <2>3, AdvanceOk DEF Proceed
<1> QED
  BY <1>2, <1>3

LEMMA FetchOk ==
    ASSUME AInv, NEW r \in Request, FetchToActivate(r) \/ FetchToEntangle(r) PROVE AInv'
<1>1. r \in InFlight /\ UNCHANGED <<tables, deployment, control, faults>>
  BY DEF FetchToActivate, FetchToEntangle, InFlight
<1>2. None \in OptState /\ ask[r].previous \in OptState
  BY RequestType, AskType DEF OptState
<1>3. CASE FetchToActivate(r)
  BY <1>1, <1>2, <1>3, JudgeOk DEF FetchToActivate, Activates
<1>4. CASE FetchToEntangle(r)
  BY <1>1, <1>2, <1>4, JudgeOk DEF FetchToEntangle, Entangles
<1> QED
  BY <1>3, <1>4

-----------------------------------------------------------------------------
(***************************************************************************)
(* A statement of a handler: it adds to the evidence or to the cards, and  *)
(* the request goes on to the next one.                                    *)
(***************************************************************************)
LEMMA StatementStep ==
    ASSUME AInv, NEW r \in InFlight, NEW st \in Stages \ {"idle", "done"},
           NEW rec \in [current : AssetState, previous : OptState, at : Nat, card : Card],
           stage' = [stage EXCEPT ![r] = st], read' = [read EXCEPT ![r] = rec],
           answer' = answer, UNCHANGED <<storeVars, deployment, control, faults>>,
           ATypeInv', TablesInv', Grows,
           st \in ActivateStages => Activates(r), st \in {"card", "entangle"} => Entangles(r),
           Evidence(r)', CardHeld(r)', Undisturbed(r)',
           Holds(r)' => \A s \in Request \ {r} : Holds(s) => ask[s].asset # ask[r].asset
    PROVE  AInv'
<1>1. /\ events' = events /\ ask' = ask /\ tries' = tries /\ overlap' = overlap /\ faults' = faults
  BY DEF control, storeVars
<1>2. /\ r \in Request /\ stage[r] \notin {"idle", "done"}
      /\ stage'[r] = st /\ ask'[r] = ask[r] /\ answer'[r] = answer[r] /\ tries'[r] = tries[r]
      /\ \A s \in Request \ {r} : Same(s)
  BY <1>1 DEF InFlight, Same, AInv, ATypeInv, ActivationTypeOK
<1>3. Good(r)'
  <2>1. Duty(r)'
    BY <1>2 DEF AInv, Good, Duty, Activates, Entangles
  <2>2. Answered(r)'
    BY <1>2 DEF Answered
  <2>3. Blocked(r) => Blocked(r)'
    BY <1>2, RequestType DEF Blocked, Entangles, Entangled, Grows
  <2>4. tries[r] <= faults + 1 \/ Blocked(r)
    BY DEF AInv, Good, Paid, InFlight
  <2>5. Paid(r)'
    BY <1>1, <1>2, <2>3, <2>4 DEF Paid
  <2> QED
    BY <2>1, <2>2, <2>5 DEF Good
<1>4. \A s \in Request \ {r} :
         EventsOf(ask[s].asset, "ActivateEntangle")' = EventsOf(ask[s].asset, "ActivateEntangle")
  BY <1>1 DEF EventsOf
<1>5. ~overlap' => ~overlap /\ InFlight \subseteq {r}
  BY <1>1, OpenAlone
<1> QED
  BY <1>2, <1>3, <1>4, <1>5, RequestStep

\* What a statement that leaves the log alone keeps.
LEMMA LogKept ==
    ASSUME events' = events
    PROVE  \A a \in Asset : \A x : EventsOf(a, x)' = EventsOf(a, x)
  BY DEF EventsOf

\* The stage a request has reached, when it goes on reading nothing.
LEMMA GotoType ==
    ASSUME AInv, NEW r \in InFlight, NEW st \in Stages, Goto(r, st)
    PROVE  /\ stage' = [stage EXCEPT ![r] = st] /\ read' = [read EXCEPT ![r] = read[r]]
           /\ answer' = answer /\ read' = read /\ r \in Request
           /\ stage'[r] = st /\ stage' \in [Request -> Stages]
           /\ read[r] \in [current : AssetState, previous : OptState, at : Nat, card : Card]
<1>1. r \in Request
  BY DEF InFlight
<1> QED
  BY <1>1, RequestType DEF Goto, AInv, ATypeInv, ActivationTypeOK

LEMMA MapProductOk == ASSUME AInv, NEW r \in Request, MapProduct(r) PROVE AInv'
<1> DEFINE a == ask[r].asset
<1>1. /\ stage[r] = "map" /\ Goto(r, "commit") /\ r \in InFlight
      /\ mapping' = [mapping EXCEPT ![a] = ask[r].product]
      /\ UNCHANGED <<storeVars, deployment, control, faults>>
      /\ UNCHANGED <<assets, origin, events, idempotency, config, rekeyed, ask, tries, overlap>>
      /\ UNCHANGED <<bound, commitments, brandAtts, platAtts, devices, entangled>>
  BY DEF MapProduct, InFlight, storeVars, deployment, control, cards
<1>2. "commit" \in Stages \ {"idle", "done"} /\ Activates(r) /\ a \in Asset /\ ask[r].product \in Product
  BY <1>1, OpenAlone, RequestType DEF Stages, ActivateStages, AInv, Good, Duty
<1>3. /\ stage' = [stage EXCEPT ![r] = "commit"] /\ read' = [read EXCEPT ![r] = read[r]]
      /\ answer' = answer /\ read' = read /\ stage'[r] = "commit" /\ stage' \in [Request -> Stages]
      /\ read[r] \in [current : AssetState, previous : OptState, at : Nat, card : Card]
  BY <1>1, <1>2, GotoType
<1>4. ATypeInv'
  BY <1>1, <1>2, <1>3 DEF AInv, ATypeInv, ActivationTypeOK
<1>5. \A b \in Asset : \A x : EventsOf(b, x)' = EventsOf(b, x)
  BY <1>1, LogKept
<1>6. Grows
  BY <1>1, <1>5 DEF Grows, AInv, ATypeInv, ActivationTypeOK
<1>7. ~overlap => EventsOf(a, "ActivateRotateKeys") = {}
  BY <1>1, <1>2 DEF AInv, Good, Undisturbed, ActivateStages
<1>8. TablesInv'
  <2>1. Signed' /\ BoundStored' /\ CardsCoded' /\ Recorded'
    BY <1>1 DEF AInv, TablesInv, Signed, BoundStored, Tagged, CardsCoded, Recorded, EventsOf
  <2>2. CardOfEvent' /\ Moved' /\ ActivationIsAttested'
    BY <1>1, <1>5 DEF AInv, TablesInv, CardOfEvent, Moved, Entangled, ActivationIsAttested
  <2>3. ASSUME ~overlap, NEW b \in Asset, NEW n \in EventsOf(b, "ActivateRotateKeys")
        PROVE  /\ bound[b] = events[b][n].commitment
               /\ mapping'[b] \in Product /\ Trimmed[mapping'[b]] = bound[b].product
    <3>1. b # a
      BY <1>7, <2>3
    <3>2. mapping'[b] = mapping[b]
      BY <1>1, <3>1 DEF AInv, ATypeInv, ActivationTypeOK
    <3> QED
      BY <2>3, <3>2 DEF AInv, TablesInv, ProductIsCommitted
  <2>4. ProductIsCommitted'
    BY <1>1, <1>5, <2>3 DEF ProductIsCommitted
  <2> QED
    BY <2>1, <2>2, <2>4 DEF TablesInv
<1>9. Evidence(r)' /\ CardHeld(r)' /\ ~Holds(r)'
  BY <1>3 DEF Evidence, CardHeld, Holds
<1>10. Undisturbed(r)'
  <2>1. mapping'[a] = ask[r].product
    BY <1>1, <1>2 DEF AInv, ATypeInv, ActivationTypeOK
  <2> QED
    BY <1>1, <1>3, <1>7, <2>1 DEF Undisturbed, EventsOf
<1> QED
  BY <1>1, <1>2, <1>3, <1>4, <1>6, <1>8, <1>9, <1>10, StatementStep

LEMMA InsertCommitmentOk == ASSUME AInv, NEW r \in Request, InsertCommitment(r) PROVE AInv'
<1> DEFINE a == ask[r].asset
<1>1. /\ stage[r] = "commit" /\ r \in InFlight
      /\ UNCHANGED <<storeVars, deployment, control, faults>>
      /\ UNCHANGED <<assets, origin, events, idempotency, config, rekeyed, ask, tries, overlap>>
      /\ UNCHANGED <<mapping, bound, brandAtts, platAtts, devices, entangled>>
  BY DEF InsertCommitment, InFlight, storeVars, deployment, control, cards
<1>2. "bind" \in Stages \ {"idle", "done"} /\ Activates(r) /\ a \in Asset /\ ask[r].product \in Product
  BY <1>1, OpenAlone, RequestType DEF Stages, ActivateStages, AInv, Good, Duty
<1>3. CASE Columns[a].uid = None
  <2>1. Answer(r, "InvalidInput", 0) /\ UNCHANGED commitments
    BY <1>3 DEF InsertCommitment
  <2>2. UNCHANGED tables
    BY <1>1, <2>1 DEF tables, evidence, cards
  <2> QED
    BY <1>1, <2>1, <2>2, RefusedOk DEF Statuses
<1>4. CASE Columns[a].uid # None
  <2> DEFINE c == Commitment(a, ask[r].product)
  <2>1. commitments' = commitments \cup {c} /\ Goto(r, "bind")
    BY <1>4 DEF InsertCommitment
  <2>2. /\ stage' = [stage EXCEPT ![r] = "bind"] /\ read' = [read EXCEPT ![r] = read[r]]
        /\ answer' = answer /\ read' = read /\ stage'[r] = "bind" /\ stage' \in [Request -> Stages]
        /\ read[r] \in [current : AssetState, previous : OptState, at : Nat, card : Card]
    BY <1>1, <1>2, <2>1, GotoType
  <2>3. ATypeInv'
    <3>1. c \in Commitments
      BY <1>2, <1>4, CommitmentType
    <3> QED
      BY <1>1, <1>2, <2>1, <2>2, <3>1 DEF AInv, ATypeInv, ActivationTypeOK
  <2>4. \A b \in Asset : \A x : EventsOf(b, x)' = EventsOf(b, x)
    BY <1>1, LogKept
  <2>5. Grows
    BY <1>1, <2>1, <2>4 DEF Grows, AInv, ATypeInv, ActivationTypeOK
  <2>6. TablesInv'
    <3>1. Signed' /\ BoundStored' /\ CardsCoded' /\ Recorded'
      BY <1>1, <2>1 DEF AInv, TablesInv, Signed, BoundStored, Tagged, CardsCoded, Recorded, EventsOf
    <3>2. CardOfEvent' /\ Moved'
      BY <1>1, <2>4 DEF AInv, TablesInv, CardOfEvent, Moved, Entangled
    <3>3. ActivationIsAttested' /\ ProductIsCommitted'
      BY <1>1, <2>1, <2>4 DEF AInv, TablesInv, ActivationIsAttested, ProductIsCommitted
    <3> QED
      BY <3>1, <3>2, <3>3 DEF TablesInv
  <2>7. Evidence(r)' /\ CardHeld(r)' /\ ~Holds(r)'
    <3>1. Columns[a].uid # None /\ c \in commitments'
      BY <1>4, <2>1
    <3> QED
      BY <1>1, <2>2, <3>1 DEF Evidence, CardHeld, Holds, CommitmentOf
  <2>8. Undisturbed(r)'
    BY <1>1, <1>2, <2>2 DEF Undisturbed, EventsOf, AInv, Good, Activates, ActivateStages
  <2> QED
    BY <1>1, <1>2, <2>2, <2>3, <2>5, <2>6, <2>7, <2>8, StatementStep
<1> QED
  BY <1>3, <1>4

LEMMA BindCommitmentOk == ASSUME AInv, NEW r \in Request, BindCommitment(r) PROVE AInv'
<1> DEFINE a == ask[r].asset
           c == Commitment(a, ask[r].product)
<1>1. /\ stage[r] = "bind" /\ Goto(r, "brand") /\ r \in InFlight
      /\ bound' = [bound EXCEPT ![a] = c]
      /\ UNCHANGED <<storeVars, deployment, control, faults>>
      /\ UNCHANGED <<assets, origin, events, idempotency, config, rekeyed, ask, tries, overlap>>
      /\ UNCHANGED <<mapping, commitments, brandAtts, platAtts, devices, entangled>>
  BY DEF BindCommitment, InFlight, storeVars, deployment, control, cards
<1>2. "brand" \in Stages \ {"idle", "done"} /\ Activates(r) /\ a \in Asset /\ ask[r].product \in Product
  BY <1>1, OpenAlone, RequestType DEF Stages, ActivateStages, AInv, Good, Duty
<1>3. /\ stage' = [stage EXCEPT ![r] = "brand"] /\ read' = [read EXCEPT ![r] = read[r]]
      /\ answer' = answer /\ read' = read /\ stage'[r] = "brand" /\ stage' \in [Request -> Stages]
      /\ read[r] \in [current : AssetState, previous : OptState, at : Nat, card : Card]
  BY <1>1, <1>2, GotoType
<1>4. Columns[a].uid # None /\ c \in commitments
  BY <1>1, <1>2 DEF AInv, Good, Evidence, CommitmentOf
<1>5. c \in Commitments /\ Tagged(c, a)
  BY <1>2, <1>4, CommitmentType
<1>6. ATypeInv'
  BY <1>1, <1>2, <1>3, <1>5 DEF AInv, ATypeInv, ActivationTypeOK
<1>7. \A b \in Asset : \A x : EventsOf(b, x)' = EventsOf(b, x)
  BY <1>1, LogKept
<1>8. Grows
  BY <1>1, <1>7 DEF Grows, AInv, ATypeInv, ActivationTypeOK
<1>9. ~overlap => EventsOf(a, "ActivateRotateKeys") = {} /\ mapping[a] = ask[r].product
  BY <1>1, <1>2 DEF AInv, Good, Undisturbed, ActivateStages
<1>10. /\ bound'[a] = c /\ \A b \in Asset \ {a} : bound'[b] = bound[b]
  BY <1>1, <1>2 DEF AInv, ATypeInv, ActivationTypeOK
<1>11. TablesInv'
  <2>1. Signed' /\ CardsCoded' /\ Recorded'
    BY <1>1 DEF AInv, TablesInv, Signed, CardsCoded, Recorded, EventsOf
  <2>2. CardOfEvent' /\ Moved' /\ ActivationIsAttested'
    BY <1>1, <1>7 DEF AInv, TablesInv, CardOfEvent, Moved, Entangled, ActivationIsAttested
  <2>3. BoundStored'
    BY <1>1, <1>4, <1>5, <1>10 DEF AInv, TablesInv, BoundStored, Tagged
  <2>4. ASSUME ~overlap, NEW b \in Asset, NEW n \in EventsOf(b, "ActivateRotateKeys")
        PROVE  /\ bound'[b] = events[b][n].commitment
               /\ mapping[b] \in Product /\ Trimmed[mapping[b]] = bound'[b].product
    <3>1. b # a
      BY <1>9, <2>4
    <3> QED
      BY <1>10, <2>4, <3>1 DEF AInv, TablesInv, ProductIsCommitted
  <2>5. ProductIsCommitted'
    BY <1>1, <1>7, <2>4 DEF ProductIsCommitted
  <2> QED
    BY <2>1, <2>2, <2>3, <2>5 DEF TablesInv
<1>12. Evidence(r)' /\ CardHeld(r)' /\ ~Holds(r)'
  BY <1>1, <1>3, <1>4 DEF Evidence, CardHeld, Holds, CommitmentOf
<1>13. Undisturbed(r)'
  BY <1>1, <1>3, <1>9, <1>10 DEF Undisturbed, EventsOf, CommitmentOf
<1> QED
  BY <1>1, <1>2, <1>3, <1>6, <1>8, <1>11, <1>12, <1>13, StatementStep

\* What ON CONFLICT DO NOTHING leaves: the old rows and a row of the commitment.
LEMMA AttestedRows ==
    ASSUME NEW rows, NEW new
    PROVE  /\ rows \subseteq Attested(rows, new)
           /\ \A t \in Attested(rows, new) : t \in rows \/ t = new
           /\ \E t \in Attested(rows, new) :
                 t.commitment = new.commitment /\ (t \in rows \/ t = new)
  BY DEF Attested

LEMMA AttestBrandOk == ASSUME AInv, NEW r \in Request, AttestBrand(r) PROVE AInv'
<1> DEFINE a == ask[r].asset
           c == Commitment(a, ask[r].product)
           new == BrandSigned(c, a)
<1>1. /\ stage[r] = "brand" /\ Goto(r, "platform") /\ r \in InFlight
      /\ brandAtts' = Attested(brandAtts, new)
      /\ UNCHANGED <<storeVars, deployment, control, faults>>
      /\ UNCHANGED <<assets, origin, events, idempotency, config, rekeyed, ask, tries, overlap>>
      /\ UNCHANGED <<mapping, bound, commitments, platAtts, devices, entangled>>
  BY DEF AttestBrand, InFlight, storeVars, deployment, control, cards
<1>2. "platform" \in Stages \ {"idle", "done"} /\ Activates(r) /\ a \in Asset /\ ask[r].product \in Product
  BY <1>1, OpenAlone, RequestType DEF Stages, ActivateStages, AInv, Good, Duty
<1>3. /\ stage' = [stage EXCEPT ![r] = "platform"] /\ read' = [read EXCEPT ![r] = read[r]]
      /\ answer' = answer /\ read' = read /\ stage'[r] = "platform" /\ stage' \in [Request -> Stages]
      /\ read[r] \in [current : AssetState, previous : OptState, at : Nat, card : Card]
  BY <1>1, <1>2, GotoType
<1>4. Columns[a].uid # None /\ c \in commitments
  BY <1>1, <1>2 DEF AInv, Good, Evidence, CommitmentOf
<1>5. c \in Commitments /\ c.brand = Columns[a].brand
  BY <1>2, <1>4, CommitmentType
<1>6. /\ new \in Attestations /\ new.commitment = c /\ new.brand = Columns[a].brand
      /\ new.secret = BrandSecret[config]
  BY <1>2, <1>5, ColumnsType, ActivationAssumption
     DEF BrandSigned, Attestations, AInv, ATypeInv, ActivationTypeOK
<1> HIDE DEF new
<1>7. /\ brandAtts \subseteq brandAtts' /\ \A t \in brandAtts' : t \in brandAtts \/ t = new
      /\ \E t \in brandAtts' : t.commitment = c /\ (t \in brandAtts \/ t = new)
  BY <1>1, <1>6, AttestedRows
<1>8. ATypeInv'
  BY <1>1, <1>2, <1>3, <1>6, <1>7 DEF AInv, ATypeInv, ActivationTypeOK
<1>9. \A b \in Asset : \A x : EventsOf(b, x)' = EventsOf(b, x)
  BY <1>1, LogKept
<1>10. Grows
  BY <1>1, <1>7, <1>9 DEF Grows, AInv, ATypeInv, ActivationTypeOK
<1>11. TablesInv'
  <2>1. BoundStored' /\ CardsCoded' /\ Recorded'
    BY <1>1 DEF AInv, TablesInv, BoundStored, Tagged, CardsCoded, Recorded, EventsOf
  <2>2. CardOfEvent' /\ Moved' /\ ProductIsCommitted'
    BY <1>1, <1>9 DEF AInv, TablesInv, CardOfEvent, Moved, Entangled, ProductIsCommitted
  <2>3. Signed'
    BY <1>1, <1>5, <1>6, <1>7 DEF AInv, TablesInv, Signed
  <2>4. ActivationIsAttested'
    BY <1>1, <1>7, <1>9 DEF AInv, TablesInv, ActivationIsAttested
  <2> QED
    BY <2>1, <2>2, <2>3, <2>4 DEF TablesInv
<1>12. Evidence(r)' /\ CardHeld(r)' /\ ~Holds(r)'
  <2>1. \E t \in brandAtts' : t.commitment = c /\ t.brand = Columns[a].brand
    BY <1>5, <1>6, <1>7 DEF AInv, TablesInv, Signed
  <2> QED
    BY <1>1, <1>3, <1>4, <2>1 DEF Evidence, CardHeld, Holds, CommitmentOf, BrandAttests
<1>13. Undisturbed(r)'
  BY <1>1, <1>2, <1>3 DEF Undisturbed, EventsOf, CommitmentOf, AInv, Good, Activates, ActivateStages
<1> QED
  BY <1>1, <1>2, <1>3, <1>8, <1>10, <1>11, <1>12, <1>13, StatementStep

LEMMA AttestPlatformOk == ASSUME AInv, NEW r \in Request, AttestPlatform(r) PROVE AInv'
<1> DEFINE a == ask[r].asset
           c == Commitment(a, ask[r].product)
           new == PlatformSigned(c)
<1>1. /\ stage[r] = "platform" /\ Goto(r, "persist") /\ r \in InFlight
      /\ platAtts' = Attested(platAtts, new)
      /\ UNCHANGED <<storeVars, deployment, control, faults>>
      /\ UNCHANGED <<assets, origin, events, idempotency, config, rekeyed, ask, tries, overlap>>
      /\ UNCHANGED <<mapping, bound, commitments, brandAtts, devices, entangled>>
  BY DEF AttestPlatform, InFlight, storeVars, deployment, control, cards
<1>2. "persist" \in Stages \ {"idle", "done"} /\ Activates(r) /\ a \in Asset /\ ask[r].product \in Product
  BY <1>1, OpenAlone, RequestType DEF Stages, ActivateStages, AInv, Good, Duty
<1>3. /\ stage' = [stage EXCEPT ![r] = "persist"] /\ read' = [read EXCEPT ![r] = read[r]]
      /\ answer' = answer /\ read' = read /\ stage'[r] = "persist" /\ stage' \in [Request -> Stages]
      /\ read[r] \in [current : AssetState, previous : OptState, at : Nat, card : Card]
  BY <1>1, <1>2, GotoType
<1>4. /\ Columns[a].uid # None /\ c \in commitments
      /\ BrandAttests(c, Columns[a].brand)
  BY <1>1, <1>2 DEF AInv, Good, Evidence, CommitmentOf
<1>5. c \in Commitments
  BY <1>2, <1>4, CommitmentType
<1>6. /\ new \in PlatformAttestations /\ new.commitment = c /\ new.secret = PlatformSecret[config]
  BY <1>5, ActivationAssumption
     DEF PlatformSigned, PlatformAttestations, AInv, ATypeInv, ActivationTypeOK
<1> HIDE DEF new
<1>7. /\ platAtts \subseteq platAtts' /\ \A t \in platAtts' : t \in platAtts \/ t = new
      /\ \E t \in platAtts' : t.commitment = c
  BY <1>1, <1>6, AttestedRows
<1>8. ATypeInv'
  BY <1>1, <1>2, <1>3, <1>6, <1>7 DEF AInv, ATypeInv, ActivationTypeOK
<1>9. \A b \in Asset : \A x : EventsOf(b, x)' = EventsOf(b, x)
  BY <1>1, LogKept
<1>10. Grows
  BY <1>1, <1>7, <1>9 DEF Grows, AInv, ATypeInv, ActivationTypeOK
<1>11. TablesInv'
  <2>1. BoundStored' /\ CardsCoded' /\ Recorded'
    BY <1>1 DEF AInv, TablesInv, BoundStored, Tagged, CardsCoded, Recorded, EventsOf
  <2>2. CardOfEvent' /\ Moved' /\ ProductIsCommitted'
    BY <1>1, <1>9 DEF AInv, TablesInv, CardOfEvent, Moved, Entangled, ProductIsCommitted
  <2>3. Signed'
    BY <1>1, <1>6, <1>7 DEF AInv, TablesInv, Signed
  <2>4. ActivationIsAttested'
    BY <1>1, <1>7, <1>9 DEF AInv, TablesInv, ActivationIsAttested
  <2> QED
    BY <2>1, <2>2, <2>3, <2>4 DEF TablesInv
<1>12. Evidence(r)' /\ CardHeld(r)' /\ ~Holds(r)'
  <2>1. ~Entangles(r)'
    BY <1>1, <1>2 DEF Activates, Entangles
  <2>2. CommitmentOf(r)' = c /\ BrandAttests(c, Columns[a].brand)' /\ PlatformAttests(c)'
    BY <1>1, <1>4, <1>7 DEF CommitmentOf, BrandAttests, PlatformAttests
  <2>3. Evidence(r)'
    BY <1>1, <1>3, <1>4, <2>2 DEF Evidence, CommitmentOf, BrandAttests, PlatformAttests
  <2> QED
    BY <1>3, <2>1, <2>3 DEF CardHeld, Holds
<1>13. Undisturbed(r)'
  BY <1>1, <1>2, <1>3 DEF Undisturbed, EventsOf, CommitmentOf, AInv, Good, Activates, ActivateStages
<1> QED
  BY <1>1, <1>2, <1>3, <1>8, <1>10, <1>11, <1>12, <1>13, StatementStep

LEMMA InsertDeviceOk == ASSUME AInv, NEW r \in Request, InsertDevice(r) PROVE AInv'
<1> DEFINE a == ask[r].asset
           uid == Cardinality(devices) + 1
           rec == [read[r] EXCEPT !.card = uid]
           new == DeviceRow(uid, Columns[a])
<1>1. /\ stage[r] = "card" /\ r \in InFlight
      /\ UNCHANGED <<storeVars, deployment, control, faults>>
      /\ UNCHANGED <<assets, origin, events, idempotency, config, rekeyed, ask, tries, overlap>>
      /\ UNCHANGED <<mapping, bound, commitments, brandAtts, platAtts, entangled>>
  BY DEF InsertDevice, InFlight, storeVars, deployment, control, evidence
<1>2. "entangle" \in Stages \ {"idle", "done"} /\ Entangles(r) /\ a \in Asset
  BY <1>1, RequestType DEF Stages, AInv, Good, Duty
<1>3. CASE Columns[a].uid = None
  <2>1. Answer(r, "InvalidInput", 0) /\ UNCHANGED devices
    BY <1>3 DEF InsertDevice
  <2>2. UNCHANGED tables
    BY <1>1, <2>1 DEF tables, evidence, cards
  <2> QED
    BY <1>1, <2>1, <2>2, RefusedOk DEF Statuses
<1>4. CASE Columns[a].uid # None
  <2>1. devices' = devices \cup {new} /\ Proceed(r, "entangle", rec)
    BY <1>4 DEF InsertDevice
  <2>2. uid \in Nat /\ uid # NoCard
    BY FS_CardinalityType DEF AInv, ATypeInv, NoCard
  <2>3. /\ new.uid = uid /\ new.brand = Columns[a].brand /\ new.epoch = Columns[a].epoch
        /\ new.hash = Credential(new.brand, new.uid, new.epoch)
    BY DEF DeviceRow
  <2> HIDE DEF new, uid
  <2>4. rec \in [current : AssetState, previous : OptState, at : Nat, card : Card] /\ rec.card = uid
    BY <2>2, RequestType DEF Card
  <2> HIDE DEF rec
  <2>5. /\ stage' = [stage EXCEPT ![r] = "entangle"] /\ read' = [read EXCEPT ![r] = rec]
        /\ answer' = answer /\ stage'[r] = "entangle" /\ read'[r] = rec
        /\ stage' \in [Request -> Stages]
        /\ read' \in [Request -> [current : AssetState, previous : OptState, at : Nat, card : Card]]
    BY <1>2, <2>1, <2>4 DEF Proceed, AInv, ATypeInv, ActivationTypeOK
  <2>6. ATypeInv'
    <3>1. IsFiniteSet(devices')
      BY <2>1, FS_AddElement DEF AInv, ATypeInv
    <3>2. \A d \in devices' : d.uid \in Card /\ d.brand \in Brand /\ d.epoch \in Nat
      BY <1>2, <2>1, <2>2, <2>3, ColumnsType DEF AInv, ATypeInv, ActivationTypeOK, Card
    <3> QED
      BY <1>1, <2>5, <3>1, <3>2 DEF AInv, ATypeInv, ActivationTypeOK
  <2>7. \A b \in Asset : \A x : EventsOf(b, x)' = EventsOf(b, x)
    BY <1>1, LogKept
  <2>8. Grows
    BY <1>1, <2>1, <2>7 DEF Grows, AInv, ATypeInv, ActivationTypeOK
  <2>9. TablesInv'
    <3>1. Signed' /\ BoundStored' /\ Recorded'
      BY <1>1 DEF AInv, TablesInv, Signed, BoundStored, Tagged, Recorded, EventsOf
    <3>2. Moved' /\ ActivationIsAttested' /\ ProductIsCommitted'
      BY <1>1, <2>7 DEF AInv, TablesInv, Moved, ActivationIsAttested, ProductIsCommitted
    <3>3. CardsCoded'
      BY <2>1, <2>3 DEF AInv, TablesInv, CardsCoded
    <3>4. CardOfEvent'
      BY <1>1, <2>1, <2>7 DEF AInv, TablesInv, CardOfEvent, Entangled
    <3> QED
      BY <3>1, <3>2, <3>3, <3>4 DEF TablesInv
  <2>10. Evidence(r)' /\ CardHeld(r)' /\ ~Holds(r)' /\ Undisturbed(r)'
    <3>1. rec.card # NoCard /\ \E d \in devices' : d.uid = rec.card
      BY <2>1, <2>2, <2>3, <2>4
    <3> QED
      BY <1>1, <1>2, <2>5, <3>1 DEF Evidence, CardHeld, Holds, Undisturbed, Activates, Entangles
  <2> QED
    BY <1>1, <1>2, <2>4, <2>5, <2>6, <2>8, <2>9, <2>10, StatementStep DEF ActivateStages
<1> QED
  BY <1>3, <1>4

LEMMA InsertEntanglementOk == ASSUME AInv, NEW r \in Request, InsertEntanglement(r) PROVE AInv'
<1> DEFINE a == ask[r].asset
<1>1. /\ stage[r] = "entangle" /\ r \in InFlight
      /\ UNCHANGED <<storeVars, deployment, control, faults>>
      /\ UNCHANGED <<assets, origin, events, idempotency, config, rekeyed, ask, tries, overlap>>
      /\ UNCHANGED <<mapping, bound, commitments, brandAtts, platAtts, devices>>
  BY DEF InsertEntanglement, InFlight, storeVars, deployment, control, evidence
<1>2. "persist" \in Stages \ {"idle", "done"} /\ Entangles(r) /\ a \in Asset
  BY <1>1, RequestType DEF Stages, AInv, Good, Duty
<1>3. CASE entangled[a] # NoCard
  <2>1. Answer(r, "Database", 0) /\ UNCHANGED entangled
    BY <1>3 DEF InsertEntanglement
  <2>2. UNCHANGED tables /\ Blocked(r)
    BY <1>1, <1>2, <1>3, <2>1 DEF tables, evidence, cards, Blocked, Entangled
  <2> QED
    BY <1>1, <2>1, <2>2, RefusedOk DEF Statuses
<1>4. CASE entangled[a] = NoCard
  <2>1. entangled' = [entangled EXCEPT ![a] = read[r].card] /\ Goto(r, "persist")
    BY <1>4 DEF InsertEntanglement
  <2>2. /\ stage' = [stage EXCEPT ![r] = "persist"] /\ read' = [read EXCEPT ![r] = read[r]]
        /\ answer' = answer /\ read' = read /\ stage'[r] = "persist" /\ stage' \in [Request -> Stages]
        /\ read[r] \in [current : AssetState, previous : OptState, at : Nat, card : Card]
    BY <1>1, <1>2, <2>1, GotoType
  <2>3. read[r].card # NoCard /\ (\E d \in devices : d.uid = read[r].card) /\ read[r].card \in Card
    BY <1>1, <2>2 DEF AInv, Good, CardHeld
  <2>4. /\ entangled'[a] = read[r].card /\ \A b \in Asset \ {a} : entangled'[b] = entangled[b]
    BY <1>2, <2>1 DEF AInv, ATypeInv, ActivationTypeOK
  <2>5. ATypeInv'
    BY <1>1, <2>1, <2>2, <2>3 DEF AInv, ATypeInv, ActivationTypeOK
  <2>6. \A b \in Asset : \A x : EventsOf(b, x)' = EventsOf(b, x)
    BY <1>1, LogKept
  <2>7. Grows
    BY <1>1, <1>4, <2>4, <2>6 DEF Grows, AInv, ATypeInv, ActivationTypeOK, Entangled
  <2>8. EventsOf(a, "ActivateEntangle") = {}
    BY <1>2, <1>4 DEF AInv, TablesInv, CardOfEvent, Entangled
  <2>9. TablesInv'
    <3>1. Signed' /\ BoundStored' /\ Recorded' /\ CardsCoded'
      BY <1>1 DEF AInv, TablesInv, Signed, BoundStored, Tagged, Recorded, EventsOf, CardsCoded
    <3>2. Moved' /\ ActivationIsAttested' /\ ProductIsCommitted'
      BY <1>1, <2>6 DEF AInv, TablesInv, Moved, ActivationIsAttested, ProductIsCommitted
    <3>3. CardOfEvent'
      BY <1>1, <2>3, <2>4, <2>6, <2>8 DEF AInv, TablesInv, CardOfEvent, Entangled
    <3> QED
      BY <3>1, <3>2, <3>3 DEF TablesInv
  <2>10. Evidence(r)' /\ CardHeld(r)' /\ Undisturbed(r)'
    <3>1. ~Activates(r)' /\ EventsOf(a, "ActivateEntangle")' = {} /\ ask' = ask
      BY <1>1, <1>2, <2>6, <2>8 DEF Activates, Entangles
    <3>2. CardHeld(r)'
      BY <1>1, <2>2, <2>3, <2>4, <2>8 DEF CardHeld, EventsOf
    <3> QED
      BY <3>1, <3>2 DEF Evidence, Undisturbed
  <2>11. \A s \in Request \ {r} : Holds(s) => ask[s].asset # a
    BY <1>4 DEF AInv, Good, CardHeld
  <2> QED
    BY <1>1, <1>2, <2>2, <2>5, <2>7, <2>9, <2>10, <2>11, StatementStep DEF ActivateStages
<1> QED
  BY <1>3, <1>4

-----------------------------------------------------------------------------
\* What persist_action does to the tables for a request that is due to write.
LEMMA PersistTables ==
    ASSUME AInv, NEW r \in Request, stage[r] = "persist", NEW target \in AssetState,
           NextState(read[r].current, ask[r].action, read[r].previous, target),
           PersistAction(ask[r].asset, EventOf(r, target), RequestHash(ask[r]), None, None)
    PROVE  LET a == ask[r].asset  e == EventOf(r, target) IN
           /\ e \in ActivationEvents /\ e.action = ask[r].action
           /\ Activates(r) => e.commitment = CommitmentOf(r)
           /\ Entangles(r) => e.card = read[r].card
           /\ assets' \in [Asset -> Rows] /\ assets'[a].current # "Unassigned"
           /\ \A b \in Asset \ {a} : assets'[b] = assets[b]
           /\ events' = [events EXCEPT ![a] = Append(@, e)] /\ origin' = origin
           /\ \A rec \in idempotency' :
                 \/ rec \in idempotency
                 \/ /\ rec.key \in Key /\ rec.hash = RequestHash(ask[r])
                    /\ rec.event = Len(events[a]) + 1
<1> DEFINE a == ask[r].asset
           e == EventOf(r, target)
<1>1. /\ a \in Asset /\ ask[r] \in AllAsks /\ ask[r].key \in Key
      /\ ask[r].action \in {"ActivateRotateKeys", "ActivateEntangle"}
      /\ read[r].current \in AssetState /\ read[r].previous \in OptState
      /\ read[r].at \in Nat /\ read[r].card \in Card /\ r \in InFlight
  BY RequestType, AskType DEF InFlight
<1>2. /\ e.action = ask[r].action /\ e.from = read[r].current /\ e.to = target
      /\ e.key = ask[r].key /\ e.by = r /\ e.at = read[r].at
      /\ e.commitment = IF Activates(r) THEN CommitmentOf(r) ELSE NoCommitment
      /\ e.card = IF Entangles(r) THEN read[r].card ELSE NoCard
  BY DEF EventOf, Activates, Entangles, CommitmentOf
<1>3. e \in ActivationEvents
  <2>1. Activates(r) => CommitmentOf(r) \in Commitments
    BY <1>1, OpenAlone, CommitmentType DEF CommitmentOf, AInv, Good, Evidence
  <2>2. e.action \in AssetAction
    BY <1>1, <1>2 DEF AssetAction, BusinessActions
  <2>3. e.commitment \in Commitments \cup {NoCommitment} /\ e.card \in Card
    BY <1>1, <1>2, <2>1 DEF Card, NoCard
  <2>4. e = [action |-> e.action, from |-> e.from, to |-> e.to, key |-> e.key, by |-> e.by,
             at |-> e.at, commitment |-> e.commitment, card |-> e.card]
    BY DEF EventOf
  <2> HIDE DEF e
  <2> QED
    BY <1>1, <1>2, <2>2, <2>3, <2>4 DEF ActivationEvents
<1> HIDE DEF e
<1>4. /\ assets' = [assets EXCEPT ![a] =
                      [current  |-> e.to, previous |-> PreviousAfter(e.from, e.to),
                       owner    |-> OwnerAfter(e.action, @.owner, None, None)]]
      /\ events' = [events EXCEPT ![a] = Append(@, e)] /\ origin' = origin
      /\ idempotency' = IF RecordsOf(e.key) # {} THEN idempotency
                        ELSE idempotency \cup {[key |-> e.key, hash |-> RequestHash(ask[r]),
                                                event |-> Len(events[a]) + 1]}
  BY DEF PersistAction, UpdateAsset, InsertIdempotency, e
<1>5. assets \in [Asset -> Rows]
  BY DEF AInv, ATypeInv, ActivationTypeOK
<1>6. /\ assets' \in [Asset -> Rows] /\ assets'[a].current # "Unassigned"
      /\ \A b \in Asset \ {a} : assets'[b] = assets[b]
  <2> DEFINE new == [current  |-> e.to, previous |-> PreviousAfter(e.from, e.to),
                     owner    |-> OwnerAfter(e.action, assets[a].owner, None, None)]
  <2>1. assets' = [assets EXCEPT ![a] = new]
    BY <1>4
  <2>2. PreviousAfter(e.from, e.to) \in OptState
    BY <1>1, <1>2 DEF PreviousAfter, OptState
  <2>3. assets[a].owner \in User \cup {None}
    BY <1>1, <1>5 DEF Rows
  <2>4. OwnerAfter(e.action, assets[a].owner, None, None) = assets[a].owner
    BY <1>1, <1>2 DEF OwnerAfter
  <2>5. new \in Rows
    BY <1>2, <2>2, <2>3, <2>4 DEF Rows
  <2>6. new.current # "Unassigned"
    BY <1>1, <1>2, ActivationMoves
  <2> HIDE DEF new
  <2> QED
    BY <1>1, <1>5, <2>1, <2>5, <2>6
<1>7. \A rec \in idempotency' :
         \/ rec \in idempotency
         \/ /\ rec.key \in Key /\ rec.hash = RequestHash(ask[r])
            /\ rec.event = Len(events[a]) + 1
  BY <1>1, <1>2, <1>4
<1> QED
  BY <1>2, <1>3, <1>4, <1>6, <1>7 DEF e, Activates, Entangles

LEMMA PersistOk == ASSUME AInv, NEW r \in Request, Persist(r) PROVE AInv'
<1>1. /\ stage[r] = "persist" /\ r \in InFlight
      /\ UNCHANGED <<mapping, bound, commitments, brandAtts, platAtts, devices, entangled>>
      /\ UNCHANGED <<config, rekeyed, ask, tries, overlap>>
  BY DEF Persist, InFlight, evidence, cards, deployment, control
<1>2. PICK a \in Asset : a = ask[r].asset
  BY RequestType
<1>3. /\ ask[r] \in AllAsks /\ ask[r].action \in {"ActivateRotateKeys", "ActivateEntangle"}
      /\ ask'[r].asset = a /\ faults \in Nat /\ tries[r] \in Nat /\ ActivationTypeOK
  BY <1>1, <1>2, RequestType DEF AInv, ATypeInv
<1>4. PICK target \in AssetState :
        /\ NextState(read[r].current, ask[r].action, read[r].previous, target)
        /\ PersistAction(ask[r].asset, EventOf(r, target), RequestHash(ask[r]), None, None)
  BY DEF Persist
<1>5. PICK e :
        /\ e \in ActivationEvents /\ e.action = ask[r].action
        /\ Activates(r) => e.commitment = CommitmentOf(r)
        /\ Entangles(r) => e.card = read[r].card
        /\ assets' \in [Asset -> Rows] /\ assets'[a].current # "Unassigned"
        /\ \A b \in Asset \ {a} : assets'[b] = assets[b]
        /\ events' = [events EXCEPT ![a] = Append(@, e)] /\ origin' = origin
        /\ \A rec \in idempotency' :
              \/ rec \in idempotency
              \/ /\ rec.key \in Key /\ rec.hash = RequestHash(ask[r])
                 /\ rec.event = Len(events[a]) + 1
  BY <1>1, <1>2, <1>4, PersistTables
<1>6. PICK new : new = Len(events[a]) + 1
  OBVIOUS
<1>7. /\ Len(events'[a]) = Len(events[a]) + 1 /\ Len(events[a]) \in Nat
       /\ events'[a][Len(events[a]) + 1] = e /\ events' \in [Asset -> Seq(ActivationEvents)]
  BY <1>3, <1>5, AppendedEvent
<1>8. /\ Len(events'[a]) = new /\ new \in Nat \ {0} /\ events'[a][new] = e
      /\ events' \in [Asset -> Seq(ActivationEvents)]
  BY <1>6, <1>7
<1>9. /\ \A b \in Asset : \A x : EventsOf(b, x) \subseteq EventsOf(b, x)'
      /\ \A b \in Asset \ {a} : \A x : EventsOf(b, x)' = EventsOf(b, x)
      /\ \A x : e.action # x => EventsOf(a, x)' = EventsOf(a, x)
      /\ EventsOf(a, e.action)' = EventsOf(a, e.action) \cup {new}
      /\ \A b \in Asset : \A x : \A n \in EventsOf(b, x) : events'[b][n] = events[b][n]
  BY <1>3, <1>5, <1>6, AppendedKind
\* The answer, or the connection lost after the commit.
<1>10. PICK ans \in {[status |-> "Ok", event |-> new], [status |-> "Database", event |-> 0]} :
        /\ stage' = [stage EXCEPT ![r] = "done"] /\ answer' = [answer EXCEPT ![r] = ans]
        /\ read' = [read EXCEPT ![r] = NoRead]
        /\ ans.status = "Ok" => ans.event = new /\ faults' = faults
        /\ ans.status = "Database" => faults' = faults + 1
  <2>1. \/ Answer(r, "Ok", Len(events'[a])) /\ UNCHANGED faults
        \/ faults' = faults + 1 /\ Answer(r, "Database", 0)
    BY <1>2 DEF Persist
  <2>2. CASE Answer(r, "Ok", Len(events'[a])) /\ UNCHANGED faults
    BY <1>8, <2>2 DEF Answer
  <2>3. CASE faults' = faults + 1 /\ Answer(r, "Database", 0)
    BY <2>3 DEF Answer
  <2> QED
    BY <2>1, <2>2, <2>3
<1>11. /\ faults' \in Nat /\ faults' >= faults /\ ans \in [status : Statuses, event : Nat]
      /\ ans.status \in {"Ok", "Database"}
  BY <1>3, <1>8, <1>10 DEF Statuses
<1>12. /\ stage'[r] = "done" /\ answer'[r] = ans /\ ask'[r] = ask[r] /\ tries'[r] = tries[r]
      /\ \A s \in Request \ {r} : Same(s)
  BY <1>1, <1>10 DEF Same, AInv, ATypeInv, ActivationTypeOK
<1>13. ATypeInv'
  <2>1. NoRead \in [current : AssetState, previous : OptState, at : Nat, card : Card]
    BY DEF NoRead, NoCard, AssetState, LiveStates, PreSaleStates, OptState, Card
  <2>2. /\ stage' \in [Request -> Stages] /\ answer' \in [Request -> [status : Statuses, event : Nat]]
        /\ read' \in [Request -> [current : AssetState, previous : OptState, at : Nat, card : Card]]
    BY <1>10, <1>11, <2>1 DEF Stages, AInv, ATypeInv, ActivationTypeOK
  <2>3. \A rec \in idempotency' : rec.key \in Key /\ rec.event \in Nat
    BY <1>5, <1>6, <1>8 DEF AInv, ATypeInv, ActivationTypeOK
  <2>4. ActivationTypeOK'
    BY <1>1, <1>5, <1>8, <1>11, <2>2, <2>3 DEF AInv, ATypeInv, ActivationTypeOK
  <2> QED
    BY <1>1, <2>4 DEF AInv, ATypeInv
<1>14. Grows
  BY <1>1, <1>3, <1>9, <1>11 DEF Grows, Entangled
<1>15. Holds(r) <=> Entangles(r)
  BY <1>1 DEF Holds
<1>16. Activates(r) =>
         /\ CommitmentOf(r) \in commitments /\ Tagged(CommitmentOf(r), a)
         /\ BrandAttests(CommitmentOf(r), Columns[a].brand) /\ PlatformAttests(CommitmentOf(r))
         /\ ask[r].product \in Product /\ CommitmentOf(r).product = Trimmed[ask[r].product]
         /\ ~overlap => /\ EventsOf(a, "ActivateRotateKeys") = {}
                        /\ mapping[a] = ask[r].product /\ bound[a] = CommitmentOf(r)
  <2> SUFFICES ASSUME Activates(r)
               PROVE  /\ CommitmentOf(r) \in commitments /\ Tagged(CommitmentOf(r), a)
                      /\ BrandAttests(CommitmentOf(r), Columns[a].brand)
                      /\ PlatformAttests(CommitmentOf(r)) /\ ask[r].product \in Product
                      /\ CommitmentOf(r).product = Trimmed[ask[r].product]
                      /\ ~overlap => /\ EventsOf(a, "ActivateRotateKeys") = {}
                                     /\ mapping[a] = ask[r].product /\ bound[a] = CommitmentOf(r)
    OBVIOUS
  <2>1. ask[r].product \in Product
    BY <1>1, OpenAlone
  <2>2. /\ Columns[a].uid # None /\ CommitmentOf(r) \in commitments
        /\ BrandAttests(CommitmentOf(r), Columns[a].brand) /\ PlatformAttests(CommitmentOf(r))
    BY <1>1, <1>2 DEF AInv, Good, Evidence
  <2>3. Tagged(CommitmentOf(r), a) /\ CommitmentOf(r).product = Trimmed[ask[r].product]
    BY <1>2, <2>1, <2>2, CommitmentType DEF CommitmentOf
  <2>4. ~overlap => /\ EventsOf(a, "ActivateRotateKeys") = {}
                    /\ mapping[a] = ask[r].product /\ bound[a] = CommitmentOf(r)
    BY <1>1, <1>2 DEF AInv, Good, Undisturbed
  <2> QED
    BY <2>1, <2>2, <2>3, <2>4
<1>17. Entangles(r) => /\ read[r].card # NoCard /\ entangled[a] = read[r].card
                       /\ EventsOf(a, "ActivateEntangle") = {}
  BY <1>1, <1>2 DEF AInv, Good, CardHeld, Holds
<1>18. TablesInv'
  <2>1. Signed' /\ BoundStored' /\ CardsCoded'
    BY <1>1 DEF AInv, TablesInv, Signed, BoundStored, Tagged, CardsCoded
  <2>2. Moved'
    BY <1>5, <1>9 DEF AInv, TablesInv, Moved
  <2>3. Recorded'
    <3> SUFFICES ASSUME NEW rec \in idempotency'
                 PROVE  \E i \in AllAsks : /\ rec.hash = RequestHash(i)
                                           /\ rec.event \in EventsOf(i.asset, i.action)'
      BY DEF Recorded, EventsOf
    <3>1. CASE rec \in idempotency
      <4>1. PICK i \in AllAsks : rec.hash = RequestHash(i) /\ rec.event \in EventsOf(i.asset, i.action)
        BY <3>1 DEF AInv, TablesInv, Recorded
      <4>2. rec.event \in EventsOf(i.asset, i.action)'
        BY <1>9, <4>1, AskType
      <4> QED
        BY <4>1, <4>2
    <3>2. CASE rec.hash = RequestHash(ask[r]) /\ rec.event = Len(events[a]) + 1
      <4>1. PICK i \in AllAsks : i = ask[r]
        BY <1>3
      <4>2. rec.event \in EventsOf(a, e.action)'
        BY <1>6, <1>9, <3>2
      <4>3. rec.event \in EventsOf(i.asset, i.action)'
        BY <1>1, <1>2, <1>5, <4>1, <4>2 DEF EventsOf
      <4> QED
        BY <3>2, <4>1, <4>3
    <3> QED
      BY <1>5, <3>1, <3>2
  <2>4. CardOfEvent'
    <3> SUFFICES ASSUME NEW b \in Asset
                 PROVE  /\ Entangled(b) => \E d \in devices : d.uid = entangled[b]
                        /\ ~Entangled(b) => EventsOf(b, "ActivateEntangle")' = {}
                        /\ \A n \in EventsOf(b, "ActivateEntangle")' :
                              /\ events'[b][n].card = entangled[b]
                              /\ \A m \in EventsOf(b, "ActivateEntangle")' : m = n
      BY <1>1 DEF CardOfEvent, Entangled
    <3>1. CASE b # a \/ e.action # "ActivateEntangle"
      <4>1. EventsOf(b, "ActivateEntangle")' = EventsOf(b, "ActivateEntangle")
        BY <1>9, <3>1
      <4>2. \A n \in EventsOf(b, "ActivateEntangle") : events'[b][n] = events[b][n]
        BY <1>9
      <4> QED
        BY <4>1, <4>2 DEF AInv, TablesInv, CardOfEvent
    <3>2. CASE b = a /\ e.action = "ActivateEntangle"
      <4>1. Entangles(r)
        BY <1>5, <3>2 DEF Entangles
      <4>2. EventsOf(b, "ActivateEntangle")' = {new}
        BY <1>9, <1>17, <3>2, <4>1
      <4>3. Entangled(b) /\ events'[b][new].card = entangled[b]
        BY <1>5, <1>8, <1>17, <3>2, <4>1 DEF Entangled
      <4> QED
        BY <4>2, <4>3 DEF AInv, TablesInv, CardOfEvent
    <3> QED
      BY <3>1, <3>2
  <2>5. ActivationIsAttested'
    <3> SUFFICES ASSUME NEW b \in Asset, NEW n \in EventsOf(b, "ActivateRotateKeys")'
                 PROVE  LET c == events'[b][n].commitment IN
                        /\ c \in commitments
                        /\ c.brand = Columns[b].brand /\ c.uid = Normalized[Columns[b].uid]
                        /\ \E t \in brandAtts : t.commitment = c /\ t.brand = Columns[b].brand
                        /\ \E t \in platAtts : t.commitment = c
      BY <1>1 DEF ActivationIsAttested
    <3>1. CASE n \in EventsOf(b, "ActivateRotateKeys")
      <4>1. events'[b][n] = events[b][n]
        BY <1>9, <3>1
      <4> QED
        BY <3>1, <4>1 DEF AInv, TablesInv, ActivationIsAttested
    <3>2. CASE n \notin EventsOf(b, "ActivateRotateKeys")
      <4>1. b = a /\ e.action = "ActivateRotateKeys" /\ n = new
        BY <1>9, <3>2
      <4>2. Activates(r) /\ events'[b][n].commitment = CommitmentOf(r)
        BY <1>5, <1>8, <4>1 DEF Activates
      <4> QED
        BY <1>16, <4>1, <4>2 DEF Tagged, BrandAttests, PlatformAttests
    <3> QED
      BY <3>1, <3>2
  <2>6. ProductIsCommitted'
    <3> SUFFICES ASSUME ~overlap, NEW b \in Asset, NEW n \in EventsOf(b, "ActivateRotateKeys")'
                 PROVE  /\ bound[b] = events'[b][n].commitment
                        /\ mapping[b] \in Product /\ Trimmed[mapping[b]] = bound[b].product
      BY <1>1 DEF ProductIsCommitted
    <3>1. CASE n \in EventsOf(b, "ActivateRotateKeys")
      <4>1. events'[b][n] = events[b][n]
        BY <1>9, <3>1
      <4> QED
        BY <3>1, <4>1 DEF AInv, TablesInv, ProductIsCommitted
    <3>2. CASE n \notin EventsOf(b, "ActivateRotateKeys")
      <4>1. b = a /\ e.action = "ActivateRotateKeys" /\ n = new
        BY <1>9, <3>2
      <4>2. Activates(r) /\ events'[b][n].commitment = CommitmentOf(r)
        BY <1>5, <1>8, <4>1 DEF Activates
      <4> QED
        BY <1>16, <4>1, <4>2
    <3> QED
      BY <3>1, <3>2
  <2> QED
    BY <2>1, <2>2, <2>3, <2>4, <2>5, <2>6 DEF TablesInv
<1>19. Good(r)'
  <2>1. Duty(r)'
    BY <1>1, <1>12, OpenAlone DEF Duty, Activates, ActivateStages, AInv, Good
  <2>2. Evidence(r)' /\ CardHeld(r)' /\ Undisturbed(r)'
    BY <1>12 DEF Evidence, CardHeld, Holds, Undisturbed, ActivateStages
  <2>3. new \in EventsOf(a, ask[r].action)'
    BY <1>1, <1>5, <1>9 DEF EventsOf
  <2>4. Answered(r)'
    BY <1>1, <1>2, <1>3, <1>10, <1>12, <2>3 DEF Answered, EventsOf
  <2>5. tries[r] <= faults + 1 \/ Blocked(r)
    BY <1>1 DEF AInv, Good, Paid
  <2>6. Blocked(r)' <=> Blocked(r)
    BY <1>1 DEF Blocked, Entangles, Entangled
  <2>7. Paid(r)'
    BY <1>3, <1>10, <1>12, <2>5, <2>6 DEF Paid, InFlight
  <2> QED
    BY <2>1, <2>2, <2>4, <2>7 DEF Good
<1>20. \A s \in Request \ {r} : Holds(s) =>
          EventsOf(ask[s].asset, "ActivateEntangle")' = EventsOf(ask[s].asset, "ActivateEntangle")
  <2> SUFFICES ASSUME NEW s \in Request \ {r}, Holds(s), NEW b \in Asset, b = ask[s].asset
               PROVE  EventsOf(b, "ActivateEntangle")' = EventsOf(b, "ActivateEntangle")
    BY <1>1, RequestType DEF EventsOf
  <2>1. e.action = "ActivateEntangle" => b # a
    BY <1>2, <1>5, <1>15 DEF AInv, OneHolder, Entangles
  <2> QED
    BY <1>9, <2>1
<1>21. (~overlap' => ~overlap /\ InFlight \subseteq {r}) /\ ~Holds(r)'
  BY <1>1, <1>12, OpenAlone DEF Holds
<1> QED
  BY <1>12, <1>13, <1>14, <1>18, <1>19, <1>20, <1>21, RequestStep

-----------------------------------------------------------------------------
LEMMA RestartOk == ASSUME AInv, Restart PROVE AInv'
<1>1. /\ assets' = assets /\ origin' = origin /\ events' = events /\ idempotency' = idempotency
      /\ mapping' = mapping /\ bound' = bound /\ commitments' = commitments
      /\ brandAtts' = brandAtts /\ platAtts' = platAtts /\ devices' = devices
      /\ entangled' = entangled /\ ask' = ask /\ tries' = tries /\ overlap' = overlap
      /\ faults' = faults + 1 /\ config' \in Config /\ rekeyed' = (rekeyed \/ config' # config)
  BY DEF Restart, tables, storeVars, evidence, cards, control
<1> DEFINE aborted == [status |-> "Database", event |-> 0]
<1>2. /\ stage' = [r \in Request |-> IF r \in InFlight THEN "done" ELSE stage[r]]
      /\ answer' = [r \in Request |-> IF r \in InFlight THEN aborted ELSE answer[r]]
      /\ read' = [r \in Request |-> IF r \in InFlight THEN NoRead ELSE read[r]]
  BY DEF Restart
<1>3. aborted \in [status : Statuses, event : Nat] /\ aborted.status = "Database"
  BY DEF Statuses
<1> HIDE DEF aborted
<1>4. ASSUME NEW r \in Request
      PROVE  /\ stage'[r] \in {stage[r], "done"} /\ stage'[r] \in {"idle", "done"}
             /\ r \in InFlight => stage'[r] = "done" /\ answer'[r] = aborted
             /\ r \notin InFlight => /\ stage'[r] = stage[r] /\ answer'[r] = answer[r]
                                     /\ read'[r] = read[r]
  BY <1>2 DEF InFlight
<1>5. ATypeInv'
  <2>1. NoRead \in [current : AssetState, previous : OptState, at : Nat, card : Card]
    BY DEF NoRead, NoCard, AssetState, LiveStates, PreSaleStates, OptState, Card
  <2>2. /\ stage' \in [Request -> Stages] /\ answer' \in [Request -> [status : Statuses, event : Nat]]
        /\ read' \in [Request -> [current : AssetState, previous : OptState, at : Nat, card : Card]]
    BY <1>2, <1>3, <2>1, RequestType DEF Stages
  <2>3. rekeyed' \in BOOLEAN
    BY <1>1 DEF AInv, ATypeInv, ActivationTypeOK
  <2>4. ActivationTypeOK'
    BY <1>1, <2>2, <2>3 DEF AInv, ATypeInv, ActivationTypeOK
  <2> QED
    BY <1>1, <2>4 DEF AInv, ATypeInv
<1>6. \A a \in Asset : \A x : EventsOf(a, x)' = EventsOf(a, x)
  BY <1>1, LogKept
<1>7. Grows
  BY <1>1, <1>6 DEF Grows, AInv, ATypeInv, ActivationTypeOK
<1>8. TablesInv'
  <2>1. BoundStored' /\ CardsCoded' /\ Recorded'
    BY <1>1 DEF AInv, TablesInv, BoundStored, Tagged, CardsCoded, Recorded, EventsOf
  <2>2. CardOfEvent' /\ Moved'
    BY <1>1, <1>6 DEF AInv, TablesInv, CardOfEvent, Moved, Entangled
  <2>3. ActivationIsAttested' /\ ProductIsCommitted'
    BY <1>1, <1>6 DEF AInv, TablesInv, ActivationIsAttested, ProductIsCommitted
  <2>4. Signed'
    BY <1>1 DEF AInv, TablesInv, Signed
  <2> QED
    BY <2>1, <2>2, <2>3, <2>4 DEF TablesInv
<1>9. OneHolder' /\ Alone'
  BY <1>4 DEF OneHolder, Holds, Alone, InFlight
<1>10. ASSUME NEW r \in Request PROVE Good(r)'
  <2>1. CASE r \in InFlight
    <3>1. /\ stage'[r] = "done" /\ answer'[r] = aborted /\ stage[r] \notin {"idle", "done"}
          /\ faults \in Nat /\ tries[r] \in Nat /\ ask'[r] = ask[r] /\ tries'[r] = tries[r]
      BY <1>1, <1>4, <2>1, RequestType DEF InFlight
    <3>2. Duty(r)'
      BY <3>1 DEF AInv, Good, Duty, Activates, ActivateStages
    <3>3. Evidence(r)' /\ CardHeld(r)' /\ Undisturbed(r)' /\ Answered(r)'
      BY <1>3, <3>1 DEF Evidence, CardHeld, Holds, Undisturbed, ActivateStages, Answered
    <3>4. tries[r] <= faults + 1 \/ Blocked(r)
      BY <2>1 DEF AInv, Good, Paid
    <3>5. Blocked(r)' <=> Blocked(r)
      BY <1>1 DEF Blocked, Entangles, Entangled
    <3>6. Paid(r)'
      BY <1>1, <3>1, <3>4, <3>5 DEF Paid, InFlight
    <3> QED
      BY <3>2, <3>3, <3>6 DEF Good
  <2>2. CASE r \notin InFlight
    <3>1. Same(r)
      BY <1>1, <1>4, <2>2 DEF Same
    <3>2. EventsOf(ask[r].asset, "ActivateEntangle")' = EventsOf(ask[r].asset, "ActivateEntangle")
      BY <1>1 DEF EventsOf
    <3> QED
      BY <1>1, <1>7, <2>2, <3>1, <3>2, OtherKeeps
  <2> QED
    BY <2>1, <2>2
<1> QED
  BY <1>5, <1>8, <1>9, <1>10 DEF AInv

LEMMA StutterAInv == ASSUME AInv, UNCHANGED vars PROVE AInv'
<1>1. /\ assets' = assets /\ origin' = origin /\ events' = events /\ idempotency' = idempotency
      /\ mapping' = mapping /\ bound' = bound /\ commitments' = commitments
      /\ brandAtts' = brandAtts /\ platAtts' = platAtts /\ devices' = devices
      /\ entangled' = entangled /\ config' = config /\ rekeyed' = rekeyed /\ stage' = stage
      /\ ask' = ask /\ tries' = tries /\ overlap' = overlap /\ read' = read
      /\ answer' = answer /\ faults' = faults
  BY DEF vars, tables, storeVars, evidence, cards, deployment, control
<1>2. ATypeInv'
  BY <1>1 DEF AInv, ATypeInv, ActivationTypeOK
<1>3. TablesInv' /\ \A a \in Asset : \A x : EventsOf(a, x)' = EventsOf(a, x)
  <2>1. UNCHANGED <<tables, deployment>>
    BY DEF vars
  <2>2. overlap \in BOOLEAN /\ (~overlap' => ~overlap)
    BY <1>1 DEF AInv, ATypeInv, ActivationTypeOK
  <2> QED
    BY <2>1, <2>2, TablesKeep
<1>4. OneHolder' /\ Alone'
  BY <1>1 DEF AInv, OneHolder, Holds, Entangles, Alone, InFlight
<1>5. ASSUME NEW r \in Request PROVE Good(r)'
  <2>1. Good(r)
    BY DEF AInv
  <2>2. Duty(r)' /\ Evidence(r)' /\ CardHeld(r)'
    BY <1>1, <2>1 DEF Good, Duty, Activates, Entangles, Evidence, CommitmentOf, BrandAttests,
                      PlatformAttests, CardHeld, Holds, EventsOf
  <2>3. Answered(r)' /\ Undisturbed(r)'
    BY <1>1, <2>1 DEF Good, Answered, Undisturbed, EventsOf, Activates, CommitmentOf
  <2>4. Paid(r)'
    BY <1>1, <2>1 DEF Good, Paid, Blocked, Entangles, Entangled, InFlight
  <2> QED
    BY <2>2, <2>3, <2>4 DEF Good
<1> QED
  BY <1>2, <1>3, <1>4, <1>5 DEF AInv

LEMMA NextAInv == ASSUME AInv, [Next]_vars PROVE AInv'
<1>1. ASSUME NEW r \in Request, Step(r) PROVE AInv'
  BY <1>1, ReceiveOk, LoadIdempotencyOk, FetchOk, MapProductOk, InsertCommitmentOk,
     BindCommitmentOk, AttestBrandOk, AttestPlatformOk, InsertDeviceOk, InsertEntanglementOk,
     PersistOk, FailOk, RetryOk DEF Step
<1> QED
  BY <1>1, RestartOk, StutterAInv DEF Next

\* The properties of Activation, read off the invariant.
LEMMA AInvSuffices ==
    ASSUME AInv
    PROVE  ActivationTypeOK /\ ActivationIsAttested /\ EntangledOnce /\ AnsweredCardWorks
           /\ ProductIsCommitted /\ RetriesSettle
<1>1. ActivationTypeOK /\ ActivationIsAttested /\ ProductIsCommitted
  BY DEF AInv, ATypeInv, TablesInv
<1>2. EntangledOnce
  <2> SUFFICES ASSUME NEW a \in Asset
               PROVE  Cardinality(EventsOf(a, "ActivateEntangle")) <= 1
    BY DEF EntangledOnce
  <2>1. CASE EventsOf(a, "ActivateEntangle") = {}
    <3>1. Cardinality({}) = 0
      BY FS_EmptySet
    <3> QED
      BY <2>1, <3>1
  <2>2. CASE EventsOf(a, "ActivateEntangle") # {}
    <3>1. PICK n \in EventsOf(a, "ActivateEntangle") : TRUE
      BY <2>2
    <3>2. \A m \in EventsOf(a, "ActivateEntangle") : m = n
      BY DEF AInv, TablesInv, CardOfEvent
    <3>3. EventsOf(a, "ActivateEntangle") = {n}
      BY <3>2
    <3>4. Cardinality({n}) = 1
      BY FS_Singleton
    <3> QED
      BY <3>3, <3>4
  <2> QED
    BY <2>1, <2>2
<1>3. AnsweredCardWorks
  <2> SUFFICES ASSUME NEW r \in Request, stage[r] = "done", answer[r].status = "Ok",
                      ask[r].action = "ActivateEntangle"
               PROVE  LET e == events[ask[r].asset][answer[r].event] IN
                      /\ e.card = entangled[ask[r].asset]
                      /\ \E d \in devices :
                            d.uid = e.card /\ d.hash = Credential(d.brand, d.uid, d.epoch)
    BY DEF AnsweredCardWorks
  <2>1. answer[r].event \in EventsOf(ask[r].asset, "ActivateEntangle") /\ ask[r].asset \in Asset
    BY RequestType DEF AInv, Good, Answered
  <2>2. events[ask[r].asset][answer[r].event].card = entangled[ask[r].asset]
    BY <2>1 DEF AInv, TablesInv, CardOfEvent
  <2>3. PICK d \in devices : d.uid = entangled[ask[r].asset]
    BY <2>1 DEF AInv, TablesInv, CardOfEvent
  <2>4. d.hash = Credential(d.brand, d.uid, d.epoch)
    BY DEF AInv, TablesInv, CardsCoded
  <2> QED
    BY <2>2, <2>3, <2>4
<1>4. RetriesSettle
  <2> SUFFICES ASSUME NEW r \in Request, stage[r] = "done", answer[r].status = "Database",
                      tries[r] > faults
               PROVE  ask[r].action = "ActivateEntangle" /\ Entangled(ask[r].asset)
    BY DEF RetriesSettle
  <2>1. tries[r] <= faults \/ Blocked(r)
    BY DEF AInv, Good, Paid
  <2>2. tries[r] \in Nat /\ faults \in Nat
    BY RequestType
  <2>3. Blocked(r)
    BY <2>1, <2>2
  <2> QED
    BY <2>3 DEF Blocked, Entangles
<1> QED
  BY <1>1, <1>2, <1>3, <1>4

-----------------------------------------------------------------------------
(***************************************************************************)
(* The inductive invariant of the activation handlers (protocol.rs): what  *)
(* each request has stored by the stage it is at, for any number of        *)
(* requests, assets, tries, faults and environments.                       *)
(***************************************************************************)
THEOREM ActivationInvariance == Spec => []AInv
<1>1. Init => AInv
  BY InitAInv
<1>2. AInv /\ [Next]_vars => AInv'
  BY NextAInv
<1> QED
  BY <1>1, <1>2, PTL DEF Spec

(***************************************************************************)
(* However activations overlap, fail and restart, an event of one is only  *)
(* committed when the commitment it names is stored, of the tag and brand  *)
(* of the asset, and attested by that brand and by the platform.           *)
(***************************************************************************)
THEOREM ActivationsAreAttested == Spec => []ActivationIsAttested
<1>1. AInv => ActivationIsAttested
  BY AInvSuffices
<1> QED
  BY <1>1, ActivationInvariance, PTL

(***************************************************************************)
(* activate-entangle takes effect at most once for an asset, whatever keys *)
(* its requests carry and however they overlap.                            *)
(***************************************************************************)
THEOREM EntanglesOnce == Spec => []EntangledOnce
<1>1. AInv => EntangledOnce
  BY AInvSuffices
<1> QED
  BY <1>1, ActivationInvariance, PTL

(***************************************************************************)
(* The card of every successful answer, a replayed one too, is entangled   *)
(* with the asset, and its credential is the one that verification         *)
(* recomputes from the row of the device.                                  *)
(***************************************************************************)
THEOREM AnsweredCardsWork == Spec => []AnsweredCardWorks
<1>1. AInv => AnsweredCardWorks
  BY AInvSuffices
<1> QED
  BY <1>1, ActivationInvariance, PTL

(***************************************************************************)
(* Without overlap the product mapped to an activated asset is the one its *)
(* bound commitment and its audit event commit to, whatever attempts with  *)
(* other products failed half way before.                                  *)
(***************************************************************************)
THEOREM ProductsAreCommitted == Spec => []ProductIsCommitted
<1>1. AInv => ProductIsCommitted
  BY AInvSuffices
<1> QED
  BY <1>1, ActivationInvariance, PTL

(***************************************************************************)
(* A request sent more often than anything has gone wrong is carried out   *)
(* or refused for a reason, unless it is to entangle an asset that a card  *)
(* is entangled with already.                                              *)
(***************************************************************************)
THEOREM RetriesAreSettled == Spec => []RetriesSettle
<1>1. AInv => RetriesSettle
  BY AInvSuffices
<1> QED
  BY <1>1, ActivationInvariance, PTL

-----------------------------------------------------------------------------
(***************************************************************************)
(* Scans: what each knows of the asset it reads.                           *)
(***************************************************************************)
ScanSteps == {"idle", "row", "ctr", "commitment", "brand", "platform", "card", "done"}
ScanRows == [current : AssetState, product : Product \cup {None},
             bound : Commitments \cup {NoCommitment}]
Finds == [commitment : Commitments \cup {NoCommitment}, brand : Validity,
          platform : Validity, card : Card]

\* Which kind of scan comes to a step.
KindOk(s) ==
    /\ step[s] = "ctr" => tap[s].kind \in {"v1", "v2"}
    /\ step[s] \in {"commitment", "brand", "platform"} => tap[s].kind \in {"v2", "detail"}
    /\ step[s] = "card" => tap[s].kind = "detail"

\* A verification that goes on has a tag of the asset, or none to be checked.
GenuineTap(s) ==
    tap[s].kind = "v2" /\ step[s] \in {"ctr", "commitment", "brand", "platform"} =>
        Columns[tap[s].asset].uid # None /\ (tap[s].tap # "none" => tap[s].tap = "genuine")

RowStored(s) ==
    /\ step[s] \in {"idle", "row"} => row[s] = NoRow /\ ~expected[s]
    /\ row[s].bound # NoCommitment => row[s].bound \in commitments /\ Tagged(row[s].bound, tap[s].asset)

FoundStored(s) ==
    LET c == found[s].commitment  cols == Columns[tap[s].asset] IN
    step[s] \in {"brand", "platform"} /\ tap[s].kind = "v2" =>
        /\ c \in commitments /\ c.uid \in {cols.uid, Normalized[cols.uid]}
        /\ step[s] = "platform" /\ found[s].brand = "valid" => BrandAttests(c, cols.brand)

\* A scan that read the row of an activated asset reads on under its bound commitment.
SeesWhole(s) == expected[s] =>
    /\ row[s].bound \in commitments /\ BrandAttests(row[s].bound, Columns[tap[s].asset].brand)
    /\ PlatformAttests(row[s].bound)
    /\ row[s].product \in Product /\ Trimmed[row[s].product] = row[s].bound.product
    /\ step[s] \in {"brand", "platform", "card"} => found[s].commitment = row[s].bound
    /\ ~rekeyed => /\ step[s] \in {"platform", "card"} => found[s].brand = "valid"
                   /\ step[s] = "card" => found[s].platform = "valid"

\* A scan that has not ended has no result, but perhaps a suspicion.
Pending(s) == step[s] # "done" => result[s] \in {"None", "replay_suspected"}

\* AuthenticIsAttested and ActivationIsSeenWhole of one scan.
Authentic(s) == result[s] = "authentic" =>
    LET c == found[s].commitment  cols == Columns[tap[s].asset] IN
    /\ tap[s].tap = "genuine" /\ EvaluateStatus(row[s].current) = "display_allowed"
    /\ c \in commitments /\ c.brand = cols.brand
    /\ c.uid \in {cols.uid, Normalized[cols.uid]}
    /\ BrandAttests(c, cols.brand) /\ PlatformAttests(c)
SeenWhole(s) == expected[s] /\ ~rekeyed =>
    /\ result[s] # "incomplete_attestation"
    /\ result[s] = "detail" =>
          /\ found[s].brand = "valid" /\ found[s].platform = "valid"
          /\ found[s].commitment.product = Trimmed[row[s].product]

ScanGood(s) ==
    /\ KindOk(s) /\ GenuineTap(s) /\ RowStored(s) /\ FoundStored(s) /\ SeesWhole(s) /\ Pending(s)
    /\ Authentic(s) /\ SeenWhole(s)
ScanInv == AInv /\ ScanTypeOK /\ \A s \in Scan : ScanGood(s)

LEMMA ScanInvSuffices == ASSUME ScanInv PROVE AuthenticIsAttested /\ ActivationIsSeenWhole
  BY DEF ScanInv, ScanGood, Authentic, SeenWhole, AuthenticIsAttested, ActivationIsSeenWhole,
         BrandAttests, PlatformAttests

LEMMA ScanType ==
    ASSUME ScanInv, NEW s \in Scan
    PROVE  /\ step[s] \in ScanSteps /\ tap[s] \in AllTaps /\ row[s] \in ScanRows
           /\ found[s] \in Finds /\ result[s] \in Results /\ expected[s] \in BOOLEAN
           /\ tap[s].asset \in Asset
           /\ tap = [tap EXCEPT ![s] = tap[s]] /\ row = [row EXCEPT ![s] = row[s]]
           /\ found = [found EXCEPT ![s] = found[s]] /\ result = [result EXCEPT ![s] = result[s]]
           /\ expected = [expected EXCEPT ![s] = expected[s]]
<1>1. /\ step \in [Scan -> ScanSteps] /\ tap \in [Scan -> AllTaps] /\ row \in [Scan -> ScanRows]
      /\ found \in [Scan -> Finds] /\ result \in [Scan -> Results] /\ expected \in [Scan -> BOOLEAN]
  BY DEF ScanInv, ScanTypeOK, ScanSteps, ScanRows, Finds
<1>2. tap[s] \in AllTaps
  BY <1>1
<1> QED
  BY <1>1, <1>2 DEF AllTaps

LEMMA EmptyHanded == NoRow \in ScanRows /\ NothingFound \in Finds
  BY DEF NoRow, NothingFound, ScanRows, Finds, AssetState, LiveStates, PreSaleStates, Validity,
         Card, NoCard

SameScan(s) ==
    /\ step'[s] = step[s] /\ tap'[s] = tap[s] /\ row'[s] = row[s]
    /\ found'[s] = found[s] /\ result'[s] = result[s] /\ expected'[s] = expected[s]

\* A scan that does not move keeps what it knows, while the evidence grows.
LEMMA ScanKeeps ==
    ASSUME NEW s \in Scan, ScanGood(s), SameScan(s), commitments \subseteq commitments',
           brandAtts \subseteq brandAtts', platAtts \subseteq platAtts', ~rekeyed' => ~rekeyed
    PROVE  ScanGood(s)'
<1> USE DEF SameScan
<1>1. KindOk(s)' /\ GenuineTap(s)' /\ Pending(s)'
  BY DEF ScanGood, KindOk, GenuineTap, Pending
<1>2. RowStored(s)'
  BY DEF ScanGood, RowStored, Tagged
<1>3. FoundStored(s)'
  BY DEF ScanGood, FoundStored, BrandAttests
<1>4. SeesWhole(s)'
  BY DEF ScanGood, SeesWhole, BrandAttests, PlatformAttests
<1>5. Authentic(s)'
  BY DEF ScanGood, Authentic, BrandAttests, PlatformAttests
<1>6. SeenWhole(s)'
  BY DEF ScanGood, SeenWhole
<1> QED
  BY <1>1, <1>2, <1>3, <1>4, <1>5, <1>6 DEF ScanGood

\* A step of scan s: what it has to show for itself.
LEMMA ScanStep ==
    ASSUME ScanInv, NEW s \in Scan, UNCHANGED vars,
           NEW st \in ScanSteps, step' = [step EXCEPT ![s] = st],
           NEW t \in AllTaps, tap' = [tap EXCEPT ![s] = t],
           NEW w \in ScanRows, row' = [row EXCEPT ![s] = w],
           NEW f \in Finds, found' = [found EXCEPT ![s] = f],
           NEW res \in Results, result' = [result EXCEPT ![s] = res],
           NEW x \in BOOLEAN, expected' = [expected EXCEPT ![s] = x],
           ScanGood(s)'
    PROVE  ScanInv'
<1>1. AInv'
  BY StutterAInv DEF ScanInv
<1>2. ActivationTypeOK'
  BY <1>1 DEF AInv, ATypeInv
<1>3. ScanTypeOK'
  BY <1>2 DEF ScanInv, ScanTypeOK, ScanSteps, ScanRows, Finds
<1>4. /\ commitments' = commitments /\ brandAtts' = brandAtts /\ platAtts' = platAtts
      /\ rekeyed' = rekeyed
  BY DEF vars, tables, evidence, deployment
<1>5. ASSUME NEW z \in Scan \ {s} PROVE ScanGood(z)'
  <2>1. SameScan(z)
    BY DEF SameScan, ScanInv, ScanTypeOK
  <2>2. ScanGood(z)
    BY DEF ScanInv
  <2> QED
    BY <1>4, <2>1, <2>2, ScanKeeps
<1> QED
  BY <1>1, <1>3, <1>5 DEF ScanInv

-----------------------------------------------------------------------------
LEMMA ScanInitInv == ScanInit => ScanInv
<1> SUFFICES ASSUME ScanInit PROVE ScanInv
  OBVIOUS
<1>1. AInv
  BY InitAInv DEF ScanInit
<1>2. PICK t \in AllTaps : tap = [s \in Scan |-> t]
  BY TapsAssumption DEF ScanInit
<1>3. /\ step = [s \in Scan |-> "idle"] /\ row = [s \in Scan |-> NoRow]
      /\ found = [s \in Scan |-> NothingFound] /\ result = [s \in Scan |-> "None"]
      /\ expected = [s \in Scan |-> FALSE]
  BY DEF ScanInit
<1>4. ActivationTypeOK /\ "None" \in Results /\ "idle" \in ScanSteps
  BY <1>1 DEF AInv, ATypeInv, Results, ScanSteps
<1>5. ScanTypeOK
  BY <1>2, <1>3, <1>4, EmptyHanded DEF ScanTypeOK, ScanSteps, ScanRows, Finds
<1>6. ASSUME NEW s \in Scan PROVE ScanGood(s)
  <2>1. /\ step[s] = "idle" /\ row[s] = NoRow /\ NoRow.bound = NoCommitment
        /\ result[s] = "None" /\ expected[s] = FALSE
    BY <1>3 DEF NoRow
  <2> QED
    BY <2>1 DEF ScanGood, KindOk, GenuineTap, RowStored, FoundStored, SeesWhole, Pending,
                Authentic, SeenWhole
<1> QED
  BY <1>1, <1>5, <1>6 DEF ScanInv

\* The evidence only grows, and a process that has lost its secrets never has them again.
LEMMA EvidenceGrows ==
    ASSUME Next
    PROVE  /\ commitments \subseteq commitments' /\ brandAtts \subseteq brandAtts'
           /\ platAtts \subseteq platAtts' /\ (~rekeyed' => ~rekeyed)
<1> USE DEF tables, evidence, deployment
<1>1. ASSUME NEW r \in Request, Step(r)
      PROVE  /\ commitments \subseteq commitments' /\ brandAtts \subseteq brandAtts'
             /\ platAtts \subseteq platAtts' /\ rekeyed' = rekeyed
  <2>1. CASE (\E i \in Asks : Receive(r, i)) \/ LoadIdempotency(r) \/ FetchToActivate(r)
             \/ FetchToEntangle(r) \/ Persist(r) \/ Fail(r) \/ Retry(r)
    BY <2>1 DEF Receive, LoadIdempotency, FetchToActivate, FetchToEntangle, Persist, Fail, Retry
  <2>2. CASE MapProduct(r) \/ InsertCommitment(r) \/ BindCommitment(r)
             \/ InsertDevice(r) \/ InsertEntanglement(r)
    BY <2>2 DEF MapProduct, InsertCommitment, BindCommitment, InsertDevice, InsertEntanglement
  <2>3. CASE AttestBrand(r)
    BY <2>3, AttestedRows DEF AttestBrand
  <2>4. CASE AttestPlatform(r)
    BY <2>4, AttestedRows DEF AttestPlatform
  <2> QED
    BY <1>1, <2>1, <2>2, <2>3, <2>4 DEF Step
<1>2. CASE Restart
  BY <1>2 DEF Restart
<1> QED
  BY <1>1, <1>2 DEF Next

LEMMA TablesMoveOk == ASSUME ScanInv, Next, UNCHANGED scanVars PROVE ScanInv'
<1>1. AInv'
  BY NextAInv DEF ScanInv
<1>2. /\ step' = step /\ tap' = tap /\ row' = row /\ found' = found /\ result' = result
      /\ expected' = expected
  BY DEF scanVars
<1>3. ScanTypeOK'
  BY <1>1, <1>2 DEF AInv, ATypeInv, ScanInv, ScanTypeOK
<1>4. ASSUME NEW s \in Scan PROVE ScanGood(s)'
  <2>1. ScanGood(s) /\ SameScan(s)
    BY <1>2 DEF ScanInv, SameScan
  <2> QED
    BY <2>1, EvidenceGrows, ScanKeeps
<1> QED
  BY <1>1, <1>3, <1>4 DEF ScanInv

-----------------------------------------------------------------------------
LEMMA StartScanOk == ASSUME ScanInv, NEW s \in Scan, NEW t \in Taps, StartScan(s, t) PROVE ScanInv'
<1>1. /\ t \in AllTaps /\ step[s] = "idle" /\ tap' = [tap EXCEPT ![s] = t] /\ UNCHANGED vars
      /\ row' = row /\ found' = found /\ expected' = expected
  BY TapsAssumption DEF StartScan
<1>2. PICK st \in {"row", "done"}, res \in {"error", result[s]} :
        /\ step' = [step EXCEPT ![s] = st] /\ result' = [result EXCEPT ![s] = res]
        /\ st = "row" => res = result[s]
  BY ScanType DEF StartScan, End, Go
<1>3. st \in ScanSteps /\ res \in Results
  BY <1>2, ScanType DEF ScanSteps, Results
<1>4. /\ step'[s] = st /\ tap'[s] = t /\ row'[s] = NoRow /\ result'[s] = res
      /\ expected'[s] = FALSE /\ NoRow.bound = NoCommitment
      /\ res \in {"error", "None", "replay_suspected"} /\ (st # "done" => res # "error")
  BY <1>1, <1>2, <1>3, ScanType DEF ScanInv, ScanTypeOK, ScanGood, RowStored, Pending, NoRow
<1>5. ScanGood(s)'
  BY <1>1, <1>2, <1>4 DEF ScanGood, KindOk, GenuineTap, RowStored, FoundStored, SeesWhole, Pending,
                          Authentic, SeenWhole
<1>6. /\ row[s] \in ScanRows /\ row' = [row EXCEPT ![s] = row[s]]
      /\ found[s] \in Finds /\ found' = [found EXCEPT ![s] = found[s]]
      /\ expected[s] \in BOOLEAN /\ expected' = [expected EXCEPT ![s] = expected[s]]
  BY <1>1, ScanType
<1> QED
  BY <1>1, <1>2, <1>3, <1>5, <1>6, ScanStep

(***************************************************************************)
(* The row a scan reads: the commitment it is bound to is stored, and if   *)
(* the asset was activated it is the one the activation attested.          *)
(***************************************************************************)
LEMMA KeepOk ==
    ASSUME ScanInv, NEW s \in Scan, step[s] = "row", Keep(s), UNCHANGED <<vars, tap, found>>,
           NEW st \in {"ctr", "commitment", "done"}, step' = [step EXCEPT ![s] = st],
           NEW res \in Results \ {"authentic", "incomplete_attestation", "detail"},
           result' = [result EXCEPT ![s] = res],
           st # "done" => res \in {"None", "replay_suspected"},
           st = "ctr" => tap[s].kind \in {"v1", "v2"},
           st = "commitment" => tap[s].kind \in {"v2", "detail"},
           st # "done" /\ tap[s].kind = "v2" =>
              Columns[tap[s].asset].uid # None /\ (tap[s].tap # "none" => tap[s].tap = "genuine")
    PROVE  ScanInv'
<1> DEFINE a == tap[s].asset
           w == [current |-> assets[a].current, product |-> mapping[a], bound |-> bound[a]]
           x == ~overlap /\ EventsOf(a, "ActivateRotateKeys") # {}
<1>1. /\ row' = [row EXCEPT ![s] = w] /\ expected' = [expected EXCEPT ![s] = x]
      /\ tap' = tap /\ found' = found
      /\ commitments' = commitments /\ brandAtts' = brandAtts /\ platAtts' = platAtts
      /\ rekeyed' = rekeyed /\ UNCHANGED vars
  BY DEF Keep, vars, tables, evidence, deployment
<1>2. a \in Asset /\ st \in ScanSteps /\ tap[s] \in AllTaps /\ found[s] \in Finds
      /\ tap' = [tap EXCEPT ![s] = tap[s]] /\ found' = [found EXCEPT ![s] = found[s]]
  BY <1>1, ScanType DEF ScanSteps
<1>3. w \in ScanRows
  BY <1>2 DEF ScanRows, ScanInv, AInv, ATypeInv, ActivationTypeOK, Rows
<1>4. x \in BOOLEAN /\ (x => ~overlap /\ EventsOf(a, "ActivateRotateKeys") # {})
  BY DEF ScanInv, AInv, ATypeInv, ActivationTypeOK
<1>5. w.product = mapping[a] /\ w.bound = bound[a]
  OBVIOUS
<1>6. w.bound # NoCommitment => w.bound \in commitments /\ Tagged(w.bound, a)
  BY <1>2, <1>5 DEF ScanInv, AInv, TablesInv, BoundStored
<1>7. x => /\ w.bound \in commitments /\ BrandAttests(w.bound, Columns[a].brand)
           /\ PlatformAttests(w.bound)
           /\ w.product \in Product /\ Trimmed[w.product] = w.bound.product
  <2> SUFFICES ASSUME ~overlap, NEW n \in EventsOf(a, "ActivateRotateKeys")
               PROVE  /\ bound[a] \in commitments /\ BrandAttests(bound[a], Columns[a].brand)
                      /\ PlatformAttests(bound[a])
                      /\ mapping[a] \in Product /\ Trimmed[mapping[a]] = bound[a].product
    BY <1>4, <1>5
  <2>1. /\ bound[a] = events[a][n].commitment
        /\ mapping[a] \in Product /\ Trimmed[mapping[a]] = bound[a].product
    BY <1>2 DEF ScanInv, AInv, TablesInv, ProductIsCommitted
  <2> QED
    BY <1>2, <2>1 DEF ScanInv, AInv, TablesInv, ActivationIsAttested, BrandAttests, PlatformAttests
<1>8. /\ step'[s] = st /\ tap'[s] = tap[s] /\ row'[s] = w /\ result'[s] = res
      /\ expected'[s] = x
  BY <1>1, ScanType DEF ScanInv, ScanTypeOK
<1> HIDE DEF w, x
<1>9. ScanGood(s)'
  <2>1. KindOk(s)' /\ GenuineTap(s)' /\ Pending(s)' /\ FoundStored(s)'
    BY <1>8 DEF KindOk, GenuineTap, Pending, FoundStored
  <2>2. RowStored(s)'
    BY <1>1, <1>6, <1>8 DEF RowStored, Tagged
  <2>3. SeesWhole(s)'
    BY <1>1, <1>7, <1>8 DEF SeesWhole, BrandAttests, PlatformAttests
  <2>4. Authentic(s)' /\ SeenWhole(s)'
    BY <1>8 DEF Authentic, SeenWhole
  <2> QED
    BY <2>1, <2>2, <2>3, <2>4 DEF ScanGood
<1> QED
  BY <1>1, <1>2, <1>3, <1>4, <1>9, ScanStep

\* Only a tag with the key of the asset answers with a code that verifies.
LEMMA CmacTells ==
    ASSUME NEW t \in AllTaps, CmacValid(t) PROVE t.tap = "genuine"
<1> SUFFICES ASSUME t.tap # "genuine" PROVE FALSE
  OBVIOUS
<1> DEFINE cols == Columns[t.asset]
           key == ChipKey(cols.brand, cols.uid, cols.epoch)
           forged == ChipKey("forger", cols.uid, cols.epoch)
           message == [uid |-> cols.uid, ctr |-> "ctr"]
<1>1. Hmac(key, message) = Hmac(forged, message)
  BY DEF CmacValid, VerifySunMessage, SunCmac, TagKey
<1>2. \A k, m : Hmac(k, m).key = k
  BY DEF Hmac
<1>3. key = forged
  <2> HIDE DEF key, forged, message
  <2>1. Hmac(key, message).key = Hmac(forged, message).key
    BY <1>1
  <2> QED
    BY <1>2, <2>1
<1>4. BrandKey(cols.brand) = BrandKey("forger")
  <2> DEFINE salt == [uid |-> cols.uid, epoch |-> cols.epoch]
  <2>1. Hmac(BrandKey(cols.brand), salt) = Hmac(BrandKey("forger"), salt)
    BY <1>3 DEF ChipKey
  <2>2. Hmac(BrandKey(cols.brand), salt).key = Hmac(BrandKey("forger"), salt).key
    BY <2>1
  <2> HIDE DEF salt
  <2> QED
    BY <1>2, <2>2
<1>5. \A b : BrandKey(b).message = b
  BY DEF BrandKey, Hmac
<1>6. BrandKey(cols.brand).message = BrandKey("forger").message
  BY <1>4
<1>7. cols.brand = "forger"
  BY <1>5, <1>6
<1>8. cols.brand \in Brand
  BY ColumnsType DEF AllTaps
<1> QED
  BY <1>7, <1>8, ForgerAssumption

LEMMA ReadViewOk == ASSUME ScanInv, NEW s \in Scan, ReadView(s) PROVE ScanInv'
<1>1. /\ step[s] = "row" /\ Keep(s) /\ UNCHANGED <<vars, tap, found>>
      /\ step' = [step EXCEPT ![s] = "done"]
      /\ result' = [result EXCEPT ![s] = ViewLabel(assets[tap[s].asset].current)]
  BY DEF ReadView, End
<1>2. \A c : ViewLabel(c) \in {"verified", "restricted", "pending"}
  BY DEF ViewLabel
<1>3. \A c : ViewLabel(c) \in Results \ {"authentic", "incomplete_attestation", "detail"}
  BY <1>2 DEF Results
<1> QED
  BY <1>1, <1>3, KeepOk

LEMMA ReadDetailOk == ASSUME ScanInv, NEW s \in Scan, ReadDetail(s) PROVE ScanInv'
<1>1. /\ step[s] = "row" /\ Keep(s) /\ UNCHANGED <<vars, tap, found>> /\ tap[s].kind = "detail"
      /\ step' = [step EXCEPT ![s] = "commitment"] /\ result' = [result EXCEPT ![s] = result[s]]
  BY ScanType DEF ReadDetail, Go
<1>2. result[s] \in {"None", "replay_suspected"}
  BY <1>1 DEF ScanInv, ScanGood, Pending
<1>3. result[s] \in Results \ {"authentic", "incomplete_attestation", "detail"}
  BY <1>2 DEF Results
<1> QED
  BY <1>1, <1>2, <1>3, KeepOk

LEMMA ReadTagOk == ASSUME ScanInv, NEW s \in Scan, ReadTag(s) PROVE ScanInv'
<1>1. /\ step[s] = "row" /\ Keep(s) /\ UNCHANGED <<vars, tap, found>>
      /\ tap[s].kind \in {"v1", "v2"} /\ Authenticate(s, tap[s])
  BY DEF ReadTag
<1>2. result[s] \in {"None", "replay_suspected"} /\ result = [result EXCEPT ![s] = result[s]]
  BY <1>1, ScanType DEF ScanInv, ScanGood, Pending
<1>3. PICK st \in {"ctr", "commitment", "done"},
           res \in {"unknown_tag", "unverified", "authentication_failed", result[s]} :
        /\ step' = [step EXCEPT ![s] = st] /\ result' = [result EXCEPT ![s] = res]
        /\ st # "done" => res = result[s] /\ Columns[tap[s].asset].uid # None
        /\ st = "commitment" => tap[s].kind = "v2" /\ tap[s].tap = "none"
        /\ st = "ctr" => CmacValid(tap[s])
  <2>1. CASE Columns[tap[s].asset].uid = None
    BY <1>1, <2>1 DEF Authenticate, End
  <2>2. CASE Columns[tap[s].asset].uid # None /\ tap[s].tap = "none"
    BY <1>1, <1>2, <2>2 DEF Authenticate, End, Go, Degraded
  <2>3. CASE Columns[tap[s].asset].uid # None /\ tap[s].tap # "none"
    BY <1>1, <1>2, <2>3 DEF Authenticate, End, Go, Degraded
  <2> QED
    BY <2>1, <2>2, <2>3
<1>4. res \in Results \ {"authentic", "incomplete_attestation", "detail"}
  BY <1>2, <1>3 DEF Results
<1>5. st # "done" /\ tap[s].kind = "v2" =>
         Columns[tap[s].asset].uid # None /\ (tap[s].tap # "none" => tap[s].tap = "genuine")
  BY <1>3, CmacTells, ScanType
<1> QED
  BY <1>1, <1>2, <1>3, <1>4, <1>5, KeepOk

LEMMA CheckCtrOk == ASSUME ScanInv, NEW s \in Scan, CheckCtr(s) PROVE ScanInv'
<1>1. /\ step[s] = "ctr" /\ tap[s].kind \in {"v1", "v2"} /\ UNCHANGED vars
      /\ tap' = tap /\ row' = row /\ found' = found /\ expected' = expected
      /\ commitments' = commitments /\ brandAtts' = brandAtts /\ platAtts' = platAtts
      /\ rekeyed' = rekeyed
  BY DEF CheckCtr, ScanInv, ScanGood, KindOk, vars, tables, evidence, deployment
<1>2. result[s] \in {"None", "replay_suspected"} /\ result = [result EXCEPT ![s] = result[s]]
  BY <1>1, ScanType DEF ScanInv, ScanGood, Pending
<1>3. PICK st \in {"commitment", "done"},
           res \in {"replay_suspected", "restricted", "verified", result[s]} :
        /\ step' = [step EXCEPT ![s] = st] /\ result' = [result EXCEPT ![s] = res]
        /\ st = "commitment" => tap[s].kind = "v2" /\ res \in {"replay_suspected", result[s]}
  <2>1. CASE tap[s].kind = "v1"
    BY <2>1 DEF CheckCtr, End
  <2>2. CASE tap[s].kind = "v2"
    BY <2>2 DEF CheckCtr
  <2> QED
    BY <1>1, <2>1, <2>2
<1>4. st \in ScanSteps /\ res \in Results
  BY <1>2, <1>3 DEF Results, ScanSteps
<1>5. ScanGood(s)'
  <2>1. /\ step'[s] = st /\ tap'[s] = tap[s] /\ row'[s] = row[s] /\ found'[s] = found[s]
        /\ result'[s] = res /\ expected'[s] = expected[s] /\ ScanGood(s)
    BY <1>1, <1>3, <1>4 DEF ScanInv, ScanTypeOK
  <2>2. KindOk(s)' /\ GenuineTap(s)' /\ Pending(s)' /\ FoundStored(s)'
    BY <1>1, <1>2, <1>3, <2>1 DEF ScanGood, KindOk, GenuineTap, Pending, FoundStored
  <2>3. RowStored(s)' /\ SeesWhole(s)'
    BY <1>1, <1>3, <2>1 DEF ScanGood, RowStored, Tagged, SeesWhole, BrandAttests, PlatformAttests
  <2>4. Authentic(s)' /\ SeenWhole(s)'
    BY <1>2, <1>3, <2>1 DEF Authentic, SeenWhole
  <2> QED
    BY <2>2, <2>3, <2>4 DEF ScanGood
<1>6. /\ row[s] \in ScanRows /\ row' = [row EXCEPT ![s] = row[s]]
      /\ found[s] \in Finds /\ found' = [found EXCEPT ![s] = found[s]]
      /\ expected[s] \in BOOLEAN /\ expected' = [expected EXCEPT ![s] = expected[s]]
      /\ tap[s] \in AllTaps /\ tap' = [tap EXCEPT ![s] = tap[s]]
  BY <1>1, ScanType
<1> QED
  BY <1>1, <1>3, <1>4, <1>5, <1>6, ScanStep

\* What FinalStatus may say, and what "authentic" and "incomplete_attestation" stand for.
LEMMA FinalStatusTells ==
    ASSUME NEW s, NEW f
    PROVE  /\ FinalStatus(s, f) \in {"unverified", "replay_suspected", "incomplete_attestation",
                                     "restricted", "authentic"}
           /\ FinalStatus(s, f) = "authentic" =>
                 /\ tap[s].tap # "none" /\ f.brand = "valid" /\ f.platform = "valid"
                 /\ EvaluateStatus(row[s].current) = "display_allowed"
           /\ FinalStatus(s, f) = "incomplete_attestation" =>
                 f.brand # "valid" \/ f.platform # "valid"
  BY DEF FinalStatus, EvaluateStatus, Degraded

(***************************************************************************)
(* Attestations a scan reads: valid ones are there and of the brand, and   *)
(* under the secrets they were signed with what is there is valid.         *)
(***************************************************************************)
LEMMA ValidityTells ==
    ASSUME ScanInv, NEW s \in Scan, tap[s].kind \in {"v2", "detail"}
    PROVE  LET c == found[s].commitment  b == Columns[tap[s].asset].brand IN
           /\ BrandValidity(s) \in Validity /\ PlatformValidity(s) \in Validity
           /\ tap[s].kind = "v2" /\ BrandValidity(s) = "valid" => BrandAttests(c, b)
           /\ PlatformValidity(s) = "valid" => PlatformAttests(c)
           /\ ~rekeyed /\ BrandAttests(c, b) => BrandValidity(s) = "valid"
           /\ ~rekeyed /\ PlatformAttests(c) => PlatformValidity(s) = "valid"
<1> DEFINE c == found[s].commitment
           b == Columns[tap[s].asset].brand
<1>1. BrandValidity(s) \in Validity /\ PlatformValidity(s) \in Validity
  BY DEF BrandValidity, PlatformValidity, Validity
<1>2. tap[s].kind = "v2" /\ BrandValidity(s) = "valid" => BrandAttests(c, b)
  BY DEF BrandValidity, VerifyBrand, BrandAttests
<1>3. PlatformValidity(s) = "valid" => PlatformAttests(c)
  BY DEF PlatformValidity, PlatformAttests
<1>4. ~rekeyed => /\ \A t \in brandAtts : t.secret = BrandSecret[config]
                  /\ \A t \in platAtts : t.secret = PlatformSecret[config]
  BY DEF ScanInv, AInv, TablesInv, Signed
<1>5. ~rekeyed /\ BrandAttests(c, b) => BrandValidity(s) = "valid"
  BY <1>4 DEF BrandValidity, VerifyBrand, BrandAttests
<1>6. ~rekeyed /\ PlatformAttests(c) => PlatformValidity(s) = "valid"
  BY <1>4 DEF PlatformValidity, VerifyPlatform, PlatformAttests
<1> QED
  BY <1>1, <1>2, <1>3, <1>5, <1>6

(***************************************************************************)
(* A scan that has found what it looks for goes on or ends.                *)
(***************************************************************************)
LEMMA FoundOk ==
    ASSUME ScanInv, NEW s \in Scan, step[s] \in {"commitment", "brand", "platform"},
           UNCHANGED <<vars, tap, row, expected>>,
           NEW f \in Finds, found' = [found EXCEPT ![s] = f],
           NEW st \in {"brand", "platform", "card", "done"}, step' = [step EXCEPT ![s] = st],
           NEW res \in Results, result' = [result EXCEPT ![s] = res],
           st # "done" => res \in {"None", "replay_suspected"},
           st = "card" => tap[s].kind = "detail",
           res \notin {"detail"}, FoundStored(s)', SeesWhole(s)', Authentic(s)', SeenWhole(s)'
    PROVE  ScanInv'
<1>1. /\ tap' = tap /\ row' = row /\ expected' = expected /\ UNCHANGED vars
      /\ commitments' = commitments /\ brandAtts' = brandAtts /\ platAtts' = platAtts
      /\ rekeyed' = rekeyed
  BY DEF vars, tables, evidence, deployment
<1>2. st \in ScanSteps
  BY DEF ScanSteps
<1>3. /\ step'[s] = st /\ tap'[s] = tap[s] /\ row'[s] = row[s] /\ found'[s] = f
      /\ result'[s] = res /\ expected'[s] = expected[s] /\ ScanGood(s)
  BY <1>1, <1>2 DEF ScanInv, ScanTypeOK
<1>4. KindOk(s)' /\ GenuineTap(s)' /\ Pending(s)' /\ RowStored(s)'
  BY <1>1, <1>3 DEF ScanGood, KindOk, GenuineTap, Pending, RowStored, Tagged
<1>5. ScanGood(s)'
  BY <1>4 DEF ScanGood
<1>6. /\ row[s] \in ScanRows /\ row' = [row EXCEPT ![s] = row[s]]
      /\ expected[s] \in BOOLEAN /\ expected' = [expected EXCEPT ![s] = expected[s]]
      /\ tap[s] \in AllTaps /\ tap' = [tap EXCEPT ![s] = tap[s]]
  BY <1>1, ScanType
<1> QED
  BY <1>1, <1>2, <1>5, <1>6, ScanStep

\* Where Collected leads to.
LEMMA CollectedTells ==
    ASSUME ScanInv, NEW s \in Scan, step[s] # "done", NEW f, Collected(s, f)
    PROVE  \E st \in {"card", "done"}, res \in Results \ {"detail"} :
              /\ found' = [found EXCEPT ![s] = f]
              /\ step' = [step EXCEPT ![s] = st] /\ result' = [result EXCEPT ![s] = res]
              /\ st = "card" => tap[s].kind = "detail" /\ res \in {"None", "replay_suspected"}
              /\ st = "done" => tap[s].kind # "detail" /\ res = FinalStatus(s, f)
<1>1. result[s] \in {"None", "replay_suspected"} /\ result = [result EXCEPT ![s] = result[s]]
  BY ScanType DEF ScanInv, ScanGood, Pending
<1>2. CASE tap[s].kind = "detail"
  <2>1. /\ found' = [found EXCEPT ![s] = f] /\ step' = [step EXCEPT ![s] = "card"]
        /\ result' = [result EXCEPT ![s] = result[s]]
    BY <1>1, <1>2 DEF Collected, Go
  <2>2. result[s] \in Results \ {"detail"}
    BY <1>1 DEF Results
  <2> QED
    BY <1>1, <1>2, <2>1, <2>2
<1>3. CASE tap[s].kind # "detail"
  <2>1. /\ found' = [found EXCEPT ![s] = f] /\ step' = [step EXCEPT ![s] = "done"]
        /\ result' = [result EXCEPT ![s] = FinalStatus(s, f)]
    BY <1>3 DEF Collected, End
  <2>2. FinalStatus(s, f) \in Results \ {"detail"}
    BY FinalStatusTells DEF Results
  <2> QED
    BY <1>3, <2>1, <2>2
<1> QED
  BY <1>2, <1>3

LEMMA ResolveCommitmentOk ==
    ASSUME ScanInv, NEW s \in Scan, ResolveCommitment(s) PROVE ScanInv'
<1>1. /\ step[s] = "commitment" /\ UNCHANGED <<vars, tap, row, expected>>
      /\ tap' = tap /\ row' = row /\ expected' = expected
      /\ commitments' = commitments /\ brandAtts' = brandAtts /\ platAtts' = platAtts
      /\ rekeyed' = rekeyed
  BY DEF ResolveCommitment, vars, tables, evidence, deployment
<1>2. PICK c \in commitments \cup {NoCommitment, row[s].bound} :
         /\ Resolve(s, c)
         /\ IF c = NoCommitment
            THEN Collected(s, [found[s] EXCEPT !.brand = "missing", !.platform = "missing"])
            ELSE found' = [found EXCEPT ![s].commitment = c] /\ Go(s, "brand")
  BY DEF ResolveCommitment
<1>3. /\ ScanGood(s) /\ found[s] \in Finds /\ row[s] \in ScanRows /\ tap[s] \in AllTaps
      /\ tap[s].asset \in Asset /\ commitments \subseteq Commitments
      /\ tap[s].kind \in {"v2", "detail"}
  BY <1>1, ScanType DEF ScanInv, ScanGood, KindOk, AInv, ATypeInv, ActivationTypeOK
<1>4. CASE c = NoCommitment
  <2> DEFINE f == [found[s] EXCEPT !.brand = "missing", !.platform = "missing"]
  <2>1. f \in Finds /\ f.brand = "missing" /\ f.platform = "missing"
    BY <1>3 DEF Finds, Validity
  <2>2. PICK st \in {"card", "done"}, res \in Results \ {"detail"} :
           /\ found' = [found EXCEPT ![s] = f]
           /\ step' = [step EXCEPT ![s] = st] /\ result' = [result EXCEPT ![s] = res]
           /\ st = "card" => tap[s].kind = "detail" /\ res \in {"None", "replay_suspected"}
           /\ st = "done" => tap[s].kind # "detail" /\ res = FinalStatus(s, f)
    BY <1>1, <1>2, <1>4, CollectedTells
  <2> HIDE DEF f
  <2>3. ~expected[s]
    BY <1>2, <1>3, <1>4, NoCommitmentIsNone DEF ScanGood, SeesWhole, Resolve
  <2>4. res # "authentic"
    BY <2>1, <2>2, FinalStatusTells
  <2>5. /\ step'[s] = st /\ found'[s] = f /\ result'[s] = res /\ expected'[s] = expected[s]
    BY <1>1, <2>1, <2>2 DEF ScanInv, ScanTypeOK
  <2>6. FoundStored(s)' /\ SeesWhole(s)' /\ Authentic(s)' /\ SeenWhole(s)'
    BY <2>3, <2>4, <2>5 DEF FoundStored, SeesWhole, Authentic, SeenWhole
  <2> QED
    BY <1>1, <2>1, <2>2, <2>6, FoundOk
<1>5. CASE c # NoCommitment
  <2> DEFINE f == [found[s] EXCEPT !.commitment = c]
  <2>1. c \in commitments
    BY <1>2, <1>3, <1>5 DEF Resolve, ScanGood, RowStored
  <2>2. f \in Finds /\ f.commitment = c
    BY <1>3, <2>1 DEF Finds
  <2>3. found' = [found EXCEPT ![s] = f] /\ step' = [step EXCEPT ![s] = "brand"] /\ result' = result
    BY <1>2, <1>5 DEF Go
  <2> HIDE DEF f
  <2>4. result[s] \in {"None", "replay_suspected"} /\ result[s] \in Results
        /\ result' = [result EXCEPT ![s] = result[s]] /\ result[s] # "detail"
    BY <1>1, <2>3, ScanType DEF ScanInv, ScanGood, Pending
  <2>5. /\ step'[s] = "brand" /\ found'[s] = f /\ result'[s] = result[s]
        /\ expected'[s] = expected[s] /\ row'[s] = row[s] /\ tap'[s] = tap[s]
    BY <1>1, <2>2, <2>3 DEF ScanInv, ScanTypeOK
  <2>6. tap[s].kind = "v2" => c.uid \in {Columns[tap[s].asset].uid,
                                         Normalized[Columns[tap[s].asset].uid]}
    BY <1>2, <1>3, <1>5 DEF Resolve, StoredFor, ScanGood, RowStored, Tagged
  <2>7. FoundStored(s)'
    BY <1>1, <2>1, <2>2, <2>5, <2>6 DEF FoundStored
  <2>8. SeesWhole(s)'
    <3>1. expected[s] => c = row[s].bound
      BY <1>2, <1>3, NoCommitmentIsNone DEF ScanGood, SeesWhole, Resolve
    <3> QED
      BY <1>1, <1>3, <2>2, <2>5, <3>1 DEF ScanGood, SeesWhole, BrandAttests, PlatformAttests
  <2>9. Authentic(s)' /\ SeenWhole(s)'
    BY <2>4, <2>5 DEF Authentic, SeenWhole
  <2> QED
    BY <1>1, <2>2, <2>3, <2>4, <2>7, <2>8, <2>9, FoundOk
<1> QED
  BY <1>4, <1>5

LEMMA ReadBrandOk == ASSUME ScanInv, NEW s \in Scan, ReadBrand(s) PROVE ScanInv'
<1> DEFINE f == [found[s] EXCEPT !.brand = BrandValidity(s)]
<1>1. /\ step[s] = "brand" /\ UNCHANGED <<vars, tap, row, expected>>
      /\ tap' = tap /\ row' = row /\ expected' = expected
      /\ commitments' = commitments /\ brandAtts' = brandAtts /\ platAtts' = platAtts
      /\ rekeyed' = rekeyed
      /\ found' = [found EXCEPT ![s] = f] /\ step' = [step EXCEPT ![s] = "platform"]
      /\ result' = result
  BY DEF ReadBrand, Go, vars, tables, evidence, deployment
<1>2. /\ ScanGood(s) /\ found[s] \in Finds /\ tap[s].kind \in {"v2", "detail"}
  BY <1>1, ScanType DEF ScanInv, ScanGood, KindOk
<1>3. /\ BrandValidity(s) \in Validity
      /\ tap[s].kind = "v2" /\ BrandValidity(s) = "valid" =>
            BrandAttests(found[s].commitment, Columns[tap[s].asset].brand)
      /\ ~rekeyed /\ BrandAttests(found[s].commitment, Columns[tap[s].asset].brand) =>
            BrandValidity(s) = "valid"
  BY <1>2, ValidityTells
<1>4. /\ f \in Finds /\ f.commitment = found[s].commitment /\ f.brand = BrandValidity(s)
  BY <1>2, <1>3 DEF Finds
<1> HIDE DEF f
<1>5. result[s] \in {"None", "replay_suspected"} /\ result[s] \in Results
      /\ result' = [result EXCEPT ![s] = result[s]] /\ result[s] # "detail"
  BY <1>1, ScanType DEF ScanInv, ScanGood, Pending
<1>6. /\ step'[s] = "platform" /\ found'[s] = f /\ result'[s] = result[s]
      /\ expected'[s] = expected[s] /\ row'[s] = row[s] /\ tap'[s] = tap[s]
  BY <1>1, <1>4 DEF ScanInv, ScanTypeOK
<1>7. FoundStored(s)'
  <2> DEFINE cols == Columns[tap[s].asset]
  <2>1. tap[s].kind = "v2" =>
           f.commitment \in commitments /\ f.commitment.uid \in {cols.uid, Normalized[cols.uid]}
    BY <1>1, <1>2, <1>4 DEF ScanGood, FoundStored
  <2>2. tap[s].kind = "v2" /\ f.brand = "valid" => BrandAttests(f.commitment, cols.brand)
    BY <1>3, <1>4
  <2> QED
    BY <1>1, <1>6, <2>1, <2>2 DEF FoundStored, BrandAttests
<1>8. SeesWhole(s)'
  <2>1. expected[s] /\ ~rekeyed => f.brand = "valid"
    BY <1>1, <1>2, <1>3, <1>4 DEF ScanGood, SeesWhole
  <2> QED
    BY <1>1, <1>2, <1>4, <1>6, <2>1 DEF ScanGood, SeesWhole, BrandAttests, PlatformAttests
<1>9. Authentic(s)' /\ SeenWhole(s)'
  BY <1>5, <1>6 DEF Authentic, SeenWhole
<1> QED
  BY <1>1, <1>4, <1>5, <1>7, <1>8, <1>9, FoundOk

LEMMA ReadPlatformOk == ASSUME ScanInv, NEW s \in Scan, ReadPlatform(s) PROVE ScanInv'
<1> DEFINE f == [found[s] EXCEPT !.platform = PlatformValidity(s)]
           cols == Columns[tap[s].asset]
<1>1. /\ step[s] = "platform" /\ UNCHANGED <<vars, tap, row, expected>>
      /\ tap' = tap /\ row' = row /\ expected' = expected
      /\ commitments' = commitments /\ brandAtts' = brandAtts /\ platAtts' = platAtts
      /\ rekeyed' = rekeyed /\ Collected(s, f)
  BY DEF ReadPlatform, vars, tables, evidence, deployment
<1>2. /\ ScanGood(s) /\ found[s] \in Finds /\ tap[s].kind \in {"v2", "detail"}
  BY <1>1, ScanType DEF ScanInv, ScanGood, KindOk
<1>3. /\ PlatformValidity(s) \in Validity
      /\ PlatformValidity(s) = "valid" => PlatformAttests(found[s].commitment)
      /\ ~rekeyed /\ PlatformAttests(found[s].commitment) => PlatformValidity(s) = "valid"
  BY <1>2, ValidityTells
<1>4. /\ f \in Finds /\ f.commitment = found[s].commitment /\ f.brand = found[s].brand
      /\ f.platform = PlatformValidity(s)
  BY <1>2, <1>3 DEF Finds
<1>5. PICK st \in {"card", "done"}, res \in Results \ {"detail"} :
         /\ found' = [found EXCEPT ![s] = f]
         /\ step' = [step EXCEPT ![s] = st] /\ result' = [result EXCEPT ![s] = res]
         /\ st = "card" => tap[s].kind = "detail" /\ res \in {"None", "replay_suspected"}
         /\ st = "done" => tap[s].kind # "detail" /\ res = FinalStatus(s, f)
  BY <1>1, CollectedTells
<1> HIDE DEF f
<1>6. /\ step'[s] = st /\ found'[s] = f /\ result'[s] = res
      /\ expected'[s] = expected[s] /\ row'[s] = row[s] /\ tap'[s] = tap[s]
  BY <1>1, <1>4, <1>5 DEF ScanInv, ScanTypeOK
<1>7. expected[s] /\ ~rekeyed => f.brand = "valid" /\ f.platform = "valid"
  BY <1>1, <1>2, <1>3, <1>4 DEF ScanGood, SeesWhole
<1>8. FoundStored(s)'
  BY <1>5, <1>6 DEF FoundStored
<1>9. SeesWhole(s)'
  BY <1>1, <1>2, <1>4, <1>6, <1>7 DEF ScanGood, SeesWhole, BrandAttests, PlatformAttests
<1>10. Authentic(s)'
  <2> SUFFICES ASSUME res = "authentic"
               PROVE  /\ tap[s].tap = "genuine" /\ EvaluateStatus(row[s].current) = "display_allowed"
                      /\ f.commitment \in commitments /\ f.commitment.brand = cols.brand
                      /\ f.commitment.uid \in {cols.uid, Normalized[cols.uid]}
                      /\ BrandAttests(f.commitment, cols.brand) /\ PlatformAttests(f.commitment)
    BY <1>1, <1>6 DEF Authentic, BrandAttests, PlatformAttests
  <2>1. st = "done" /\ tap[s].kind = "v2" /\ res = FinalStatus(s, f)
    BY <1>2, <1>5
  <2>2. /\ tap[s].tap # "none" /\ f.brand = "valid" /\ f.platform = "valid"
        /\ EvaluateStatus(row[s].current) = "display_allowed"
    BY <2>1, FinalStatusTells
  <2>3. tap[s].tap = "genuine"
    BY <1>1, <1>2, <2>1, <2>2 DEF ScanGood, GenuineTap
  <2>4. /\ f.commitment \in commitments /\ f.commitment.uid \in {cols.uid, Normalized[cols.uid]}
        /\ BrandAttests(f.commitment, cols.brand)
    BY <1>1, <1>2, <1>4, <2>1, <2>2 DEF ScanGood, FoundStored
  <2>5. PlatformAttests(f.commitment)
    BY <1>3, <1>4, <2>2
  <2>6. f.commitment.brand = cols.brand
    BY <2>4 DEF BrandAttests, ScanInv, AInv, TablesInv, Signed
  <2> QED
    BY <2>2, <2>3, <2>4, <2>5, <2>6
<1>11. SeenWhole(s)'
  <2>1. expected[s] /\ ~rekeyed => res # "incomplete_attestation"
    BY <1>5, <1>7, FinalStatusTells
  <2> QED
    BY <1>1, <1>5, <1>6, <2>1 DEF SeenWhole
<1> QED
  BY <1>1, <1>4, <1>5, <1>8, <1>9, <1>10, <1>11, FoundOk

LEMMA ReadCardOk == ASSUME ScanInv, NEW s \in Scan, ReadCard(s) PROVE ScanInv'
<1> DEFINE f == [found[s] EXCEPT !.card = entangled[tap[s].asset]]
<1>1. /\ step[s] = "card" /\ UNCHANGED vars
      /\ tap' = tap /\ row' = row /\ expected' = expected
      /\ commitments' = commitments /\ brandAtts' = brandAtts /\ platAtts' = platAtts
      /\ rekeyed' = rekeyed
      /\ found' = [found EXCEPT ![s] = f] /\ step' = [step EXCEPT ![s] = "done"]
  BY DEF ReadCard, End, vars, tables, evidence, deployment
<1>2. PICK res \in {"detail", "BrandBoundaryViolation"} : result' = [result EXCEPT ![s] = res]
  BY DEF ReadCard, End
<1>3. /\ ScanGood(s) /\ found[s] \in Finds /\ tap[s].asset \in Asset
  BY ScanType DEF ScanInv
<1>4. entangled[tap[s].asset] \in Card
  BY <1>3 DEF ScanInv, AInv, ATypeInv, ActivationTypeOK
<1>5. /\ f \in Finds /\ f.commitment = found[s].commitment /\ f.brand = found[s].brand
      /\ f.platform = found[s].platform
  BY <1>3, <1>4 DEF Finds
<1> HIDE DEF f
<1>6. res \in Results /\ "done" \in ScanSteps
  BY DEF Results, ScanSteps
<1>7. /\ step'[s] = "done" /\ found'[s] = f /\ result'[s] = res
      /\ expected'[s] = expected[s] /\ row'[s] = row[s] /\ tap'[s] = tap[s]
  BY <1>1, <1>2, <1>5, <1>6 DEF ScanInv, ScanTypeOK
<1>8. KindOk(s)' /\ GenuineTap(s)' /\ FoundStored(s)' /\ Pending(s)' /\ Authentic(s)'
  BY <1>7 DEF KindOk, GenuineTap, FoundStored, Pending, Authentic
<1>9. RowStored(s)' /\ SeesWhole(s)'
  BY <1>1, <1>3, <1>7 DEF ScanGood, RowStored, Tagged, SeesWhole, BrandAttests, PlatformAttests
<1>10. SeenWhole(s)'
  BY <1>1, <1>3, <1>5, <1>7 DEF ScanGood, SeesWhole, SeenWhole
<1>11. ScanGood(s)'
  BY <1>8, <1>9, <1>10 DEF ScanGood
<1>12. /\ row[s] \in ScanRows /\ row' = [row EXCEPT ![s] = row[s]]
       /\ expected[s] \in BOOLEAN /\ expected' = [expected EXCEPT ![s] = expected[s]]
       /\ tap[s] \in AllTaps /\ tap' = [tap EXCEPT ![s] = tap[s]]
  BY <1>1, ScanType
<1> QED
  BY <1>1, <1>2, <1>5, <1>6, <1>11, <1>12, ScanStep

LEMMA FailScanOk == ASSUME ScanInv, NEW s \in Scan, FailScan(s) PROVE ScanInv'
<1>1. /\ UNCHANGED vars /\ tap' = tap /\ row' = [row EXCEPT ![s] = NoRow]
      /\ found' = [found EXCEPT ![s] = NothingFound]
      /\ expected' = [expected EXCEPT ![s] = FALSE] /\ step' = [step EXCEPT ![s] = "done"]
      /\ result' = [result EXCEPT ![s] = "error"]
  BY DEF FailScan, End
<1>2. NoRow \in ScanRows /\ NothingFound \in Finds /\ "error" \in Results /\ "done" \in ScanSteps
  BY EmptyHanded DEF Results, ScanSteps
<1>3. /\ step'[s] = "done" /\ row'[s] = NoRow /\ NoRow.bound = NoCommitment
      /\ result'[s] = "error" /\ expected'[s] = FALSE
  BY <1>1, <1>2 DEF ScanInv, ScanTypeOK, NoRow
<1>4. ScanGood(s)'
  BY <1>3 DEF ScanGood, KindOk, GenuineTap, RowStored, FoundStored, SeesWhole, Pending,
              Authentic, SeenWhole
<1>5. tap[s] \in AllTaps /\ tap' = [tap EXCEPT ![s] = tap[s]]
  BY <1>1, ScanType
<1> QED
  BY <1>1, <1>2, <1>4, <1>5, ScanStep

LEMMA ScanNextInv == ASSUME ScanInv, [ScanNext]_allVars PROVE ScanInv'
<1>1. CASE Next /\ UNCHANGED scanVars
  BY <1>1, TablesMoveOk
<1>2. ASSUME NEW s \in Scan,
             \/ \E t \in Taps : StartScan(s, t)
             \/ ReadView(s) \/ ReadTag(s) \/ ReadDetail(s)
             \/ CheckCtr(s) \/ ResolveCommitment(s)
             \/ ReadBrand(s) \/ ReadPlatform(s) \/ ReadCard(s) \/ FailScan(s)
      PROVE  ScanInv'
  BY <1>2, StartScanOk, ReadViewOk, ReadTagOk, ReadDetailOk, CheckCtrOk, ResolveCommitmentOk,
     ReadBrandOk, ReadPlatformOk, ReadCardOk, FailScanOk
<1>3. CASE UNCHANGED allVars
  <2>1. /\ UNCHANGED vars /\ step' = step /\ tap' = tap /\ row' = row /\ found' = found
        /\ result' = result /\ expected' = expected
    BY <1>3 DEF allVars, scanVars
  <2>2. /\ commitments' = commitments /\ brandAtts' = brandAtts /\ platAtts' = platAtts
        /\ rekeyed' = rekeyed
    BY <2>1 DEF vars, tables, evidence, deployment
  <2>3. AInv' /\ ScanTypeOK'
    BY <2>1, StutterAInv DEF ScanInv, ScanTypeOK, AInv, ATypeInv
  <2>4. ASSUME NEW s \in Scan PROVE ScanGood(s)'
    BY <2>1, <2>2, ScanKeeps DEF SameScan, ScanInv
  <2> QED
    BY <2>3, <2>4 DEF ScanInv
<1> QED
  BY <1>1, <1>2, <1>3 DEF ScanNext

-----------------------------------------------------------------------------
(***************************************************************************)
(* The inductive invariant of the scans (verify.rs, assets.rs): what each  *)
(* knows of the asset between two of its reads, while activations go on.   *)
(***************************************************************************)
THEOREM ScanInvariance == ScanSpec => []ScanInv
<1>1. ScanInit => ScanInv
  BY ScanInitInv
<1>2. ScanInv /\ [ScanNext]_allVars => ScanInv'
  BY ScanNextInv
<1> QED
  BY <1>1, <1>2, PTL DEF ScanSpec

(***************************************************************************)
(* Verifications and detail reads only read: with any number of them going *)
(* on, the tables and the activations behave as they would without, and    *)
(* every theorem of Spec above holds of ScanSpec too.                      *)
(***************************************************************************)
THEOREM ScansOnlyRead == ScanSpec => Spec
<1>1. ScanInit => Init
  BY DEF ScanInit
<1>2. [ScanNext]_allVars => [Next]_vars
  <2>1. \A s \in Scan :
           \/ \E t \in Taps : StartScan(s, t)
           \/ ReadView(s) \/ ReadTag(s) \/ ReadDetail(s)
           \/ CheckCtr(s) \/ ResolveCommitment(s)
           \/ ReadBrand(s) \/ ReadPlatform(s) \/ ReadCard(s) \/ FailScan(s)
           => UNCHANGED vars
    BY DEF StartScan, ReadView, ReadTag, ReadDetail, CheckCtr, ResolveCommitment, ReadBrand,
           ReadPlatform, ReadCard, FailScan
  <2>2. UNCHANGED allVars => UNCHANGED vars
    BY DEF allVars
  <2> QED
    BY <2>1, <2>2 DEF ScanNext
<1> QED
  BY <1>1, <1>2, PTL DEF ScanSpec, Spec

\* Tables, requests and scans keep their types.
THEOREM ScanTypes == ScanSpec => []ScanTypeOK
<1>1. ScanInv => ScanTypeOK
  BY DEF ScanInv
<1> QED
  BY <1>1, ScanInvariance, PTL

(***************************************************************************)
(* "authentic" is never a mix of two moments: the commitment that a scan   *)
(* ending so has found is stored, of the brand and tag of the asset and    *)
(* attested by both, and its tag is genuine.                               *)
(***************************************************************************)
THEOREM AuthenticsAreAttested == ScanSpec => []AuthenticIsAttested
<1>1. ScanInv => AuthenticIsAttested
  BY ScanInvSuffices
<1> QED
  BY <1>1, ScanInvariance, PTL

(***************************************************************************)
(* An activation that nobody overlaps is seen whole while the secrets of   *)
(* the environment stay: no scan of it finds its attestations incomplete,  *)
(* and the detail shows the product its commitment commits to.             *)
(***************************************************************************)
THEOREM ActivationsAreSeenWhole == ScanSpec => []ActivationIsSeenWhole
<1>1. ScanInv => ActivationIsSeenWhole
  BY ScanInvSuffices
<1> QED
  BY <1>1, ScanInvariance, PTL
=============================================================================
