----------------------------- MODULE MCTransfer -----------------------------
(***************************************************************************)
(* A small instance of Transfer for TLC.                                   *)
(***************************************************************************)
EXTENDS Transfer, TLC

CONSTANTS t1   \* the value of Trace

\* The asset actions transfers race with: the end of use and a freeze.
RivalInputs ==
    {[asset |-> a, action |-> x, role |-> "Platform", approval |-> TRUE, actor |-> u,
      buyer |-> None, previous |-> None, key |-> k, trace |-> t1] :
        a \in Asset, x \in {"Consume", "Freeze", "Recover"},
        u \in {CHOOSE u \in User : TRUE}, k \in Key}

\* Somebody asks for a transfer to another, by a tap or by the credential of a
\* virtual card.
SmallMoves == {m \in AllMoves : m.to # m.actor /\ (m.proof = "VIRTUAL_APP" => m.ctr = 0)}

Traces == {t1}
RequestSymmetry == Permutations(Request)
=============================================================================
