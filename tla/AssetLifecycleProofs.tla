------------------------ MODULE AssetLifecycleProofs ------------------------
(***************************************************************************)
(* Proofs about AssetLifecycle, for any set of assets and users.           *)
(***************************************************************************)
EXTENDS AssetLifecycle, TLAPS

USE DEF AssetState, LiveStates, PreSaleStates, SoldStates, TerminalStates, Frozen, None

(***************************************************************************)
(* The constants: no user is called "None" (AssetStore assumes the same).  *)
(***************************************************************************)
NoneIsNobody == None \notin User

(***************************************************************************)
(* Every step of the lifecycle leads a coherent row to a coherent row.     *)
(***************************************************************************)
LEMMA CoherentStep ==
    ASSUME NoneIsNobody, TypeOK, OwnershipCoherent, Next
    PROVE  TypeOK' /\ OwnershipCoherent'
<1>1. PICK a \in Asset : Advance(a) \/ Freeze(a) \/ Recover(a) \/ Condemn(a)
  BY DEF Next
<1>2. record[a] \in Records /\ Coherent(record[a])
  BY DEF TypeOK, OwnershipCoherent
<1>3. ASSUME NEW row \in Records, Coherent(row), record' = [record EXCEPT ![a] = row]
      PROVE  TypeOK' /\ OwnershipCoherent'
  BY <1>3 DEF TypeOK, OwnershipCoherent
<1>4. CASE Advance(a)
  <2>1. PICK move \in BusinessTransitions, receiver \in User :
           /\ record[a].current = move[1]
           /\ record' = [record EXCEPT ![a] =
                 [current |-> move[3], previous |-> None,
                  owner   |-> OwnerAfter(move[2], @.owner, receiver)]]
    BY <1>4 DEF Advance
  <2> DEFINE row == [current |-> move[3], previous |-> None,
                     owner   |-> OwnerAfter(move[2], record[a].owner, receiver)]
  <2>2. record' = [record EXCEPT ![a] = row]
    BY <2>1 DEF TypeOK
  <2>3. OwnerAfter(move[2], record[a].owner, receiver) \in User \cup {None}
    BY <1>2 DEF OwnerAfter, Records
  <2>4. row \in Records
    BY <2>3 DEF BusinessTransitions, Records
  <2>5. Coherent(row)
    BY <1>2, <2>1 DEF Coherent, Standing, OwnerAfter, BusinessTransitions, NoneIsNobody
  <2> QED
    BY <1>3, <2>2, <2>4, <2>5
<1>5. CASE Freeze(a)
  <2> DEFINE row == [record[a] EXCEPT !.current = Frozen, !.previous = record[a].current]
  <2>1. record' = [record EXCEPT ![a] = row]
    BY <1>5 DEF Freeze, TypeOK, Records
  <2>2. row \in Records /\ Coherent(row)
    BY <1>2, <1>5 DEF Freeze, Records, Coherent, Standing
  <2> QED
    BY <1>3, <2>1, <2>2
<1>6. CASE Recover(a)
  <2> DEFINE row == [record[a] EXCEPT !.current = record[a].previous, !.previous = None]
  <2>1. record' = [record EXCEPT ![a] = row]
    BY <1>6 DEF Recover, TypeOK, Records
  <2>2. row \in Records /\ Coherent(row)
    BY <1>2, <1>6 DEF Recover, Records, Coherent, Standing
  <2> QED
    BY <1>3, <2>1, <2>2
<1>7. CASE Condemn(a)
  <2>1. PICK verdict \in Verdicts :
           record' = [record EXCEPT ![a].current = verdict[2], ![a].previous = None]
    BY <1>7 DEF Condemn
  <2> DEFINE row == [record[a] EXCEPT !.current = verdict[2], !.previous = None]
  <2>2. record' = [record EXCEPT ![a] = row]
    BY <2>1 DEF TypeOK, Records
  <2>3. verdict[2] \in {"Tampered", "Compromised", "Destructed"}
    BY DEF Verdicts
  <2>4. row.current = verdict[2] /\ row.previous = None /\ row.owner = record[a].owner
    BY <1>2 DEF Records
  <2>5. row \in Records
    BY <1>2, <2>3 DEF Records
  <2>6. Coherent(row)
    BY <2>3, <2>4 DEF Coherent, Standing
  <2> QED
    BY <1>3, <2>2, <2>5, <2>6
<1> QED
  BY <1>1, <1>4, <1>5, <1>6, <1>7

(***************************************************************************)
(* Ownership fits the state in every history of the atomic lifecycle.      *)
(***************************************************************************)
THEOREM LifecycleCoherent ==
    ASSUME NoneIsNobody PROVE Spec => [](TypeOK /\ OwnershipCoherent)
<1>1. Init => TypeOK /\ OwnershipCoherent
  BY DEF Init, TypeOK, OwnershipCoherent
<1>2. TypeOK /\ OwnershipCoherent /\ [Next]_vars => (TypeOK /\ OwnershipCoherent)'
  <2> SUFFICES ASSUME TypeOK, OwnershipCoherent, [Next]_vars
               PROVE  (TypeOK /\ OwnershipCoherent)'
    OBVIOUS
  <2>1. CASE Next
    BY <2>1, CoherentStep
  <2>2. CASE UNCHANGED vars
    BY <2>2 DEF vars, TypeOK, OwnershipCoherent
  <2> QED
    BY <2>1, <2>2
<1> QED
  BY <1>1, <1>2, PTL DEF Spec

(***************************************************************************)
(* A terminal state is final in the atomic lifecycle.                      *)
(***************************************************************************)
THEOREM LifecycleTerminal == ASSUME NoneIsNobody PROVE Spec => TerminalIsFinal
<1>1. TypeOK /\ OwnershipCoherent /\ [Next]_vars =>
        [\A a \in Asset : record[a].current \in TerminalStates => record'[a] = record[a]]_vars
  <2> SUFFICES ASSUME TypeOK, OwnershipCoherent, Next,
                      NEW a \in Asset, record[a].current \in TerminalStates
               PROVE  record'[a] = record[a]
    OBVIOUS
  <2>1. PICK b \in Asset : Advance(b) \/ Freeze(b) \/ Recover(b) \/ Condemn(b)
    BY DEF Next
  <2>2. ASSUME b = a PROVE FALSE
    BY <2>1, <2>2 DEF Advance, Freeze, Recover, Condemn, BusinessTransitions
  <2> QED
    BY <2>1, <2>2 DEF TypeOK, Advance, Freeze, Recover, Condemn
<1> QED
  BY <1>1, LifecycleCoherent, PTL DEF Spec, TerminalIsFinal

(***************************************************************************)
(* A freeze holds in the atomic lifecycle: no business step passes it and  *)
(* recovery returns to the interrupted state and owner.                    *)
(***************************************************************************)
THEOREM LifecycleFreeze == ASSUME NoneIsNobody PROVE Spec => FreezeHolds
<1> DEFINE Holds(a) ==
      record[a].current = Frozen =>
         \/ record'[a] = record[a]
         \/ /\ record'[a].current \in
                  {record[a].previous, "Tampered", "Compromised", "Destructed"}
            /\ record'[a].owner = record[a].owner
<1>1. TypeOK /\ OwnershipCoherent /\ [Next]_vars => [\A a \in Asset : Holds(a)]_vars
  <2> SUFFICES ASSUME TypeOK, OwnershipCoherent, Next,
                      NEW a \in Asset, record[a].current = Frozen
               PROVE  Holds(a)
    OBVIOUS
  <2>1. PICK b \in Asset : Advance(b) \/ Freeze(b) \/ Recover(b) \/ Condemn(b)
    BY DEF Next
  <2>2. CASE b # a
    BY <2>1, <2>2 DEF TypeOK, Advance, Freeze, Recover, Condemn
  <2>3. CASE b = a /\ Recover(a)
    BY <2>3 DEF Recover, TypeOK, Records
  <2>4. CASE b = a /\ Condemn(a)
    BY <2>4 DEF Condemn, TypeOK, Records, Verdicts
  <2>5. ~ Advance(a) /\ ~ Freeze(a)
    BY DEF Advance, Freeze, BusinessTransitions
  <2> QED
    BY <2>1, <2>2, <2>3, <2>4, <2>5
<1> QED
  BY <1>1, LifecycleCoherent, PTL DEF Spec, FreezeHolds
=============================================================================
