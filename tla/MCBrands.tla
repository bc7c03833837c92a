------------------------------ MODULE MCBrands ------------------------------
(***************************************************************************)
(* A small instance of Brands for TLC: one seeded brand, two addresses     *)
(* that differ by a blank, and the requests of the platform, of both       *)
(* brands with and without a key, and of a consumer.                       *)
(***************************************************************************)
EXTENDS Brands

CONSTANTS plain, blank, other

MCEmail == {plain, blank, other}
MCTrimmed == [e \in MCEmail |-> IF e = blank THEN plain ELSE e]

Token(role, brand) == [role |-> role, brand |-> brand]
Platform == Token("Platform", None)

MCAsk(op, via, claims, target, email, valid) ==
    [op |-> op, via |-> via, claims |-> claims, target |-> target, email |-> email,
     valid |-> valid]
ByToken(op, claims, target) == MCAsk(op, None, claims, target, plain, TRUE)
ByKey(op, via, target) == MCAsk(op, via, NoActor, target, plain, TRUE)

\* A batch is closed by the brand that made it, or by one that must not.
Writes ==
    {MCAsk("register", None, Platform, None, e, TRUE) : e \in {plain, blank}}
    \cup {ByToken("rotate", Platform, b) : b \in {0, 1}}
    \cup {ByKey("rotate", 1, 0), ByKey("create_batch", 0, 0), ByKey("close_batch", 0, 1),
          ByToken("close_batch", Token("Brand", 1), 1)}

\* One read of each kind: of somebody else's brand or batch, of the asset there is,
\* with a key, and with a token that is not known.
Reads ==
    {ByToken(op, Token("Factory", 0), 1) : op \in {"brand", "names", "batch", "batches", "assets"}}
    \cup {ByToken("asset", Token("Factory", 0), 0), ByToken("update", Token("Brand", 0), 1),
          ByKey("keys", 0, 0), ByToken("brands", Token("Brand", None), None)}

MCAsks == Writes \cup Reads
=============================================================================
