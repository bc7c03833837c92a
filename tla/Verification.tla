---------------------------- MODULE Verification ----------------------------
(***************************************************************************)
(* The read side next to the activations that feed it: GET /verify and     *)
(* /verify/v2 in full and in degraded mode (rust/rc-api/src/routes/        *)
(* verify.rs), the protocol view of an asset (routes/protocol.rs) and the  *)
(* asset detail (routes/assets.rs, db/assets.rs).  A scan reads the row of *)
(* the asset first and its commitment, attestations and card in later      *)
(* statements, with activations going on in between.  The replay check is  *)
(* that of CtrCache; here its outcome is a choice.                         *)
(***************************************************************************)
EXTENDS Activation

CONSTANTS Scan,   \* one element per read request
          Taps    \* what scans may ask

AllTaps == [kind : {"view", "detail", "v1", "v2"}, asset : Asset,
            tap : {"none", "genuine", "forged", "malformed"},
            role : ActorRole, brand : Brand \cup {None}]

ASSUME TapsAssumption == Taps \subseteq AllTaps /\ Taps # {}

\* A forger holds the key of no brand.
ASSUME ForgerAssumption == "forger" \notin Brand

VARIABLES step,     \* where each scan stands
          tap,      \* what it asks
          row,      \* the row it read: state, product, bound commitment
          found,    \* the commitment, attestations and card it found
          result,   \* its verification_status, or how it ended
          expected  \* ghost: the asset was activated, undisturbed, when its row was read

scanVars == <<step, tap, row, found, result, expected>>
allVars == <<vars, scanVars>>

Validity == {"valid", "missing", "invalid", "unknown"}
Results == {"None", "error", "unknown_tag", "unverified", "authentication_failed",
            "replay_suspected", "incomplete_attestation", "restricted", "authentic",
            "verified", "pending", "detail", "BrandBoundaryViolation"}

ScanTypeOK ==
    /\ ActivationTypeOK
    /\ step \in [Scan -> {"idle", "row", "ctr", "commitment", "brand", "platform",
                          "card", "done"}]
    /\ tap \in [Scan -> AllTaps]
    /\ row \in [Scan -> [current : AssetState, product : Product \cup {None},
                         bound : Commitments \cup {NoCommitment}]]
    /\ found \in [Scan -> [commitment : Commitments \cup {NoCommitment}, brand : Validity,
                           platform : Validity, card : Card]]
    /\ result \in [Scan -> Results]
    /\ expected \in [Scan -> BOOLEAN]

NoRow == [current |-> "PreMinted", product |-> None, bound |-> NoCommitment]
NothingFound == [commitment |-> NoCommitment, brand |-> "unknown", platform |-> "unknown",
                 card |-> NoCard]

ScanInit ==
    /\ Init
    /\ step = [s \in Scan |-> "idle"]
    /\ tap = [s \in Scan |-> CHOOSE t \in Taps : TRUE]
    /\ row = [s \in Scan |-> NoRow]
    /\ found = [s \in Scan |-> NothingFound]
    /\ result = [s \in Scan |-> "None"]
    /\ expected = [s \in Scan |-> FALSE]

Go(s, to) == step' = [step EXCEPT ![s] = to] /\ UNCHANGED result
\* The answer of the handler.  What insert_verification_event(_v2) records before it is
\* sent is read by nobody, and a failure to record it is ignored.
End(s, res) ==
    /\ step' = [step EXCEPT ![s] = "done"]
    /\ result' = [result EXCEPT ![s] = res]

-----------------------------------------------------------------------------
\* evaluate_status
EvaluateStatus(current) ==
    IF current \in {Frozen, "Tampered", "Compromised", "Destructed"}
    THEN "restricted" ELSE "display_allowed"

\* Mutant of ViewLabel: the label is that of evaluate_status.
ViewLabelEvaluated(current) == EvaluateStatus(current)

\* verification_result_label of the protocol view.
ViewLabel(current) ==
    CASE current \in {"Activated", "LegallySold", "Transferred"} -> "verified"
      [] EvaluateStatus(current) = "restricted" -> "restricted"
      [] OTHER -> "pending"

\* The key a genuine tag of the asset was written with, and any other.
TagKey(t) == IF t.tap = "genuine"
             THEN ChipKey(Columns[t.asset].brand, Columns[t.asset].uid, Columns[t.asset].epoch)
             ELSE ChipKey("forger", Columns[t.asset].uid, Columns[t.asset].epoch)

CmacValid(t) ==
    LET cols == Columns[t.asset] IN
    VerifySunMessage(ChipKey(cols.brand, cols.uid, cols.epoch), cols.uid, "ctr",
                     SunCmac(TagKey(t), cols.uid, "ctr"))

\* parse_sun_params: counter and code are hex of the right length.
ParseSunParams(t) == t.tap # "malformed"

\* Uid but neither counter nor code: degraded mode.
Degraded(t) == t.tap = "none"

StartScan(s, t) ==
    /\ step[s] = "idle"
    /\ tap' = [tap EXCEPT ![s] = t]
    /\ IF t.kind \in {"v1", "v2"} /\ ~ParseSunParams(t)
       THEN End(s, "error") ELSE Go(s, "row")
    /\ UNCHANGED <<vars, row, found, expected>>

\* What follows the row: an asset without uid stands for a tag nobody knows.
Authenticate(s, t) ==
    IF Columns[t.asset].uid = None THEN End(s, "unknown_tag")
    ELSE IF Degraded(t)
    THEN IF t.kind = "v1" THEN End(s, "unverified") ELSE Go(s, "commitment")
    ELSE IF CmacValid(t) THEN Go(s, "ctr") ELSE End(s, "authentication_failed")

(***************************************************************************)
(* The first SELECT of a scan, and what is decided on the row alone.       *)
(***************************************************************************)
Keep(s) ==
    LET a == tap[s].asset IN
    /\ row' = [row EXCEPT ![s] = [current |-> assets[a].current,
                                  product |-> mapping[a], bound |-> bound[a]]]
    /\ expected' = [expected EXCEPT ![s] =
                       ~overlap /\ EventsOf(a, "ActivateRotateKeys") # {}]

\* fetch_verify_view
ReadView(s) ==
    /\ step[s] = "row" /\ tap[s].kind = "view"
    /\ Keep(s) /\ End(s, ViewLabel(assets[tap[s].asset].current))
    /\ UNCHANGED <<vars, tap, found>>

\* fetch_asset_by_uid
ReadTag(s) ==
    /\ step[s] = "row" /\ tap[s].kind \in {"v1", "v2"}
    /\ Keep(s) /\ Authenticate(s, tap[s])
    /\ UNCHANGED <<vars, tap, found>>

\* The SELECT of fetch_asset_detail.
ReadDetail(s) ==
    /\ step[s] = "row" /\ tap[s].kind = "detail"
    /\ Keep(s) /\ Go(s, "commitment")
    /\ UNCHANGED <<vars, tap, found>>

\* get_ctr, the replay check and update_asset_ctr; see CtrCache.
CheckCtr(s) ==
    /\ step[s] = "ctr"
    /\ \E replay \in BOOLEAN :
          CASE tap[s].kind = "v1" ->
                 End(s, IF replay THEN "replay_suspected"
                        ELSE IF EvaluateStatus(row[s].current) = "restricted"
                        THEN "restricted" ELSE "verified")
            [] tap[s].kind = "v2" ->
                 /\ step' = [step EXCEPT ![s] = "commitment"]
                 /\ result' = [result EXCEPT ![s] = IF replay THEN "replay_suspected" ELSE @]
    /\ UNCHANGED <<vars, tap, row, found, expected>>

\* Mutant of Resolve: any commitment of the tag will do.
ResolveStored(s, c) ==
    LET stored == {d \in commitments : d.uid = Columns[tap[s].asset].uid}
    IN IF stored = {} THEN c = NoCommitment ELSE c \in stored

\* fetch_asset_commitment_by_uid_epoch
StoredFor(cols) == {d \in commitments : d.uid = cols.uid /\ d.epoch = cols.epoch}

\* resolve_asset_commitment_id: the bound one, or one of the uid as it is stored in
\* the row and of the column epoch, where activate commits to the normalized uid and
\* to key_epoch.  Only the bound one counts for the asset detail.
Resolve(s, c) ==
    LET stored == StoredFor(Columns[tap[s].asset]) IN
    IF row[s].bound # NoCommitment THEN c = row[s].bound
    ELSE IF tap[s].kind = "detail" \/ stored = {} THEN c = NoCommitment
    ELSE c \in stored

\* Mutant of FinalStatus: one of the two attestations is enough.
FinalStatusAny(s, f) ==
    CASE Degraded(tap[s]) -> "unverified"
      [] ~Degraded(tap[s]) /\ result[s] = "replay_suspected" -> "replay_suspected"
      [] OTHER -> IF f.brand # "valid" /\ f.platform # "valid" THEN "incomplete_attestation"
                  ELSE IF EvaluateStatus(row[s].current) = "restricted" THEN "restricted"
                  ELSE "authentic"

\* The status of a v2 verification, in the order of the code.
FinalStatus(s, f) ==
    CASE Degraded(tap[s]) -> "unverified"
      [] ~Degraded(tap[s]) /\ result[s] = "replay_suspected" -> "replay_suspected"
      [] OTHER -> IF f.brand # "valid" \/ f.platform # "valid" THEN "incomplete_attestation"
                  ELSE IF EvaluateStatus(row[s].current) = "restricted" THEN "restricted"
                  ELSE "authentic"

\* The evidence is collected: a verification answers, the detail goes on to the card.
Collected(s, f) ==
    /\ found' = [found EXCEPT ![s] = f]
    /\ IF tap[s].kind = "detail" THEN Go(s, "card") ELSE End(s, FinalStatus(s, f))

ResolveCommitment(s) ==
    /\ step[s] = "commitment"
    /\ \E c \in commitments \cup {NoCommitment, row[s].bound} :
          /\ Resolve(s, c)
          /\ IF c = NoCommitment
             THEN Collected(s, [found[s] EXCEPT !.brand = "missing", !.platform = "missing"])
             ELSE found' = [found EXCEPT ![s].commitment = c] /\ Go(s, "brand")
    /\ UNCHANGED <<vars, tap, row, expected>>

\* verify_brand_attestation and verify_platform_attestation: the secret of the
\* environment made the signature, over the payload of the brand.
VerifyBrand(t, a) == t.secret = BrandSecret[config] /\ t.brand = Columns[a].brand
VerifyPlatform(t) == t.secret = PlatformSecret[config]

\* validate_brand_attestation; the detail only counts rows.
BrandValidity(s) ==
    LET rows == {t \in brandAtts : t.commitment = found[s].commitment} IN
    IF rows = {} THEN "missing"
    ELSE IF tap[s].kind = "detail" \/ \E t \in rows : VerifyBrand(t, tap[s].asset)
    THEN "valid" ELSE "invalid"

\* validate_platform_attestation
PlatformValidity(s) ==
    LET rows == {t \in platAtts : t.commitment = found[s].commitment} IN
    IF rows = {} THEN "missing"
    ELSE IF tap[s].kind = "detail" \/ \E t \in rows : VerifyPlatform(t)
    THEN "valid" ELSE "invalid"

ReadBrand(s) ==
    /\ step[s] = "brand"
    /\ found' = [found EXCEPT ![s].brand = BrandValidity(s)]
    /\ Go(s, "platform")
    /\ UNCHANGED <<vars, tap, row, expected>>

ReadPlatform(s) ==
    /\ step[s] = "platform"
    /\ Collected(s, [found[s] EXCEPT !.platform = PlatformValidity(s)])
    /\ UNCHANGED <<vars, tap, row, expected>>

\* fetch_mother_card_detail, and the brand check that get_asset makes last of all.
ReadCard(s) ==
    /\ step[s] = "card"
    /\ found' = [found EXCEPT ![s].card = entangled[tap[s].asset]]
    /\ End(s, IF CheckBrandBoundary(tap[s]) THEN "detail" ELSE "BrandBoundaryViolation")
    /\ UNCHANGED <<vars, tap, row, expected>>

\* A read fails.
FailScan(s) ==
    /\ step[s] \in {"row", "ctr", "commitment", "brand", "platform", "card"}
    /\ End(s, "error")
    /\ row' = [row EXCEPT ![s] = NoRow] /\ found' = [found EXCEPT ![s] = NothingFound]
    /\ expected' = [expected EXCEPT ![s] = FALSE]
    /\ UNCHANGED <<vars, tap>>

ScanNext ==
    \/ Next /\ UNCHANGED scanVars
    \/ \E s \in Scan :
          \/ \E t \in Taps : StartScan(s, t)
          \/ ReadView(s) \/ ReadTag(s) \/ ReadDetail(s)
          \/ CheckCtr(s) \/ ResolveCommitment(s)
          \/ ReadBrand(s) \/ ReadPlatform(s) \/ ReadCard(s) \/ FailScan(s)

ScanSpec == ScanInit /\ [][ScanNext]_allVars

-----------------------------------------------------------------------------
(***************************************************************************)
(* "authentic" is never a mix of two moments that are each harmless: a     *)
(* scan that ends so, while activations write the evidence one statement   *)
(* at a time and fail half way, has found a commitment that is stored, of  *)
(* the brand and the tag of the asset, and attested by both parties, on a  *)
(* genuine tag and a row that was not restricted.                          *)
(***************************************************************************)
AuthenticIsAttested ==
    \A s \in Scan : result[s] = "authentic" =>
        LET c    == found[s].commitment
            cols == Columns[tap[s].asset]
        IN /\ tap[s].tap = "genuine"
           /\ EvaluateStatus(row[s].current) = "display_allowed"
           /\ c \in commitments /\ c.brand = cols.brand
           /\ c.uid \in {cols.uid, Normalized[cols.uid]}
           /\ \E t \in brandAtts : t.commitment = c /\ t.brand = cols.brand
           /\ \E t \in platAtts : t.commitment = c

(***************************************************************************)
(* Once an activation has gone through, with no other one overlapping it   *)
(* and the signing secrets kept over restarts, everybody sees it whole: no *)
(* verification finds its attestations incomplete, and the asset detail    *)
(* shows the product its commitment commits to, both attestations issued.  *)
(***************************************************************************)
ActivationIsSeenWhole ==
    \A s \in Scan : expected[s] /\ ~rekeyed =>
        /\ result[s] # "incomplete_attestation"
        /\ result[s] = "detail" =>
              /\ found[s].brand = "valid" /\ found[s].platform = "valid"
              /\ found[s].commitment.product = Trimmed[row[s].product]
=============================================================================
