--------------------------- MODULE MCVerification ---------------------------
(***************************************************************************)
(* A small instance of Activation and Verification for TLC.                *)
(***************************************************************************)
EXTENDS Verification, TLC

CONSTANTS a1, a2   \* an asset with a tag, and one without
CONSTANTS u1, t1

\* The uid is stored as it is committed to, so that a scan can find a commitment that is
\* not bound yet; one product id has blanks around it.
TwoAssets == {a1, a2}
OneUser == {u1}
OneTrace == {t1}
Found == (a1 :> {"Unassigned", "RotatingKeys"}) @@ (a2 :> {"Unassigned"})
Uids == {"uid", "UID"}
Products == {"p1", " p1", "p2"}
UpperCase == [x \in Uids |-> "UID"]
NoBlanks == [p \in Products |-> IF p = " p1" THEN "p1" ELSE p]
TwoColumns == (a1 :> [brand |-> "b1", uid |-> "UID", epoch |-> 0, key_epoch |-> 0]) @@
              (a2 :> [brand |-> "b1", uid |-> None, epoch |-> 0, key_epoch |-> 0])

\* A restart may find another signing secret of the brand.
OfBrand == ("prod" :> "s1") @@ ("rekeyed" :> "s2")
OfPlatform == ("prod" :> "s3") @@ ("rekeyed" :> "s3")

\* Every virtual card begins with vauth-: the worst case is a common head.
Heads == [c \in 1..8 |-> "vauth-x"]

\* The request that arrives first is the one that is sent again.
FirstTwice == [r \in {1, 2} |-> IF r = 1 THEN 2 ELSE 1]

Activate(a, p, k, role, b) ==
    [asset |-> a, action |-> "ActivateRotateKeys", role |-> role, brand |-> b,
     approval |-> FALSE, previous |-> None, product |-> p, key |-> k, trace |-> t1,
     headers |-> TRUE]
Entangle(a, k) == [Activate(a, None, k, "Brand", "b1") EXCEPT !.action = "ActivateEntangle"]

\* Rivals with and without a common key, a foreign brand and an asset without a tag.
SmallAsks ==
    { Activate(a1, " p1", "k1", "Brand", "b1"), Activate(a1, "p2", "k2", "Brand", "b1"),
      Entangle(a1, "k2"), Activate(a1, "p2", "k2", "Factory", "b2"),
      Activate(a2, "p2", "k1", "Brand", "b1") }

Read(kind, a, tag, role) ==
    [kind |-> kind, asset |-> a, tap |-> tag, role |-> role, brand |-> "b1"]
SmallTaps == { Read("v2", a1, "genuine", "Consumer"), Read("detail", a1, "none", "Brand"),
               Read("v1", a1, "genuine", "Consumer"), Read("view", a1, "none", "Consumer") }
=============================================================================
