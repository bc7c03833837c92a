--------------------------- MODULE AssetLifecycle ---------------------------
(***************************************************************************)
(* What the protocol promises about one set of assets: an asset walks the  *)
(* business path, may be frozen and come back where it was, may be         *)
(* condemned, and has an owner exactly while it is sold.  Every step is    *)
(* atomic and nobody is refused: who asked, with which approval and over   *)
(* how many database calls is the business of the handlers.                *)
(***************************************************************************)
EXTENDS AssetProtocol

CONSTANTS Asset,    \* the assets
          User      \* the people an asset can belong to

VARIABLE record     \* record[a]: current state, remembered state and owner

vars == <<record>>

Records == [current : AssetState, previous : AssetState \cup {None},
            owner : User \cup {None}]

(***************************************************************************)
(* The state an asset counts as: a frozen asset counts as the state the    *)
(* freeze interrupted.                                                     *)
(***************************************************************************)
Standing(r) == IF r.current = Frozen THEN r.previous ELSE r.current

\* A row a correct history can have reached.
Coherent(r) ==
    /\ IF r.current = Frozen THEN r.previous \in LiveStates ELSE r.previous = None
    /\ Standing(r) \in SoldStates => r.owner \in User
    /\ Standing(r) \in PreSaleStates \cup {"Consumed", "Legacy"} => r.owner = None

\* The owner recorded by a step: a sale hands the asset to its buyer, a transfer
\* to the new holder, consumption and legacy end ownership.
OwnerAfter(action, owner, receiver) ==
    CASE action \in {"LegalSell", "Transfer"} -> receiver
      [] action \in {"Consume", "Legacy"}     -> None
      [] OTHER                                -> owner

-----------------------------------------------------------------------------
Init == record \in [Asset -> {r \in Records : Coherent(r)}]

\* A step along the business path.
Advance(a) ==
    \E move \in BusinessTransitions, receiver \in User :
        /\ record[a].current = move[1]
        /\ record' = [record EXCEPT ![a] =
              [current  |-> move[3], previous |-> None,
               owner    |-> OwnerAfter(move[2], @.owner, receiver)]]

Freeze(a) ==
    /\ record[a].current \in LiveStates
    /\ record' = [record EXCEPT ![a].current = Frozen,
                                ![a].previous = record[a].current]

Recover(a) ==
    /\ record[a].current = Frozen
    /\ record' = [record EXCEPT ![a].current = record[a].previous,
                                ![a].previous = None]

Condemn(a) ==
    /\ record[a].current \notin TerminalStates
    /\ \E verdict \in Verdicts :
          record' = [record EXCEPT ![a].current = verdict[2],
                                   ![a].previous = None]

Next == \E a \in Asset : Advance(a) \/ Freeze(a) \/ Recover(a) \/ Condemn(a)

Spec == Init /\ [][Next]_vars

-----------------------------------------------------------------------------
TypeOK == record \in [Asset -> Records]

(***************************************************************************)
(* A sold asset has an owner, an asset not yet sold or already consumed    *)
(* has none, and this survives any number of freezes and recoveries: what  *)
(* persist_action's two UPDATEs of assets are to keep.                     *)
(***************************************************************************)
OwnershipCoherent == \A a \in Asset : Coherent(record[a])

(***************************************************************************)
(* A terminal state is final (docs/foundation/state-machine.md 5.1, the    *)
(* first check of apply_action).                                           *)
(***************************************************************************)
TerminalIsFinal ==
    [][\A a \in Asset : record[a].current \in TerminalStates =>
                            record'[a] = record[a]]_vars

(***************************************************************************)
(* A frozen asset leaves the freeze only to the very state and the very    *)
(* owner it had before it, or condemned: no business step passes a freeze  *)
(* (docs/foundation/state-machine.md 5.3).                                 *)
(***************************************************************************)
FreezeHolds ==
    [][\A a \in Asset :
          record[a].current = Frozen =>
             \/ record'[a] = record[a]
             \/ /\ record'[a].current \in
                      {record[a].previous, "Tampered", "Compromised", "Destructed"}
                /\ record'[a].owner = record[a].owner]_vars
=============================================================================
