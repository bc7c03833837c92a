--------------------------- MODULE AssetProtocol ---------------------------
(***************************************************************************)
(* The pure protocol core: the state table, the role table and the order   *)
(* of checks of apply_action (rust/rc-core, with the types of              *)
(* rust/rc-common).  No variables: the modules of the handlers and of the  *)
(* store are written over these operators.                                 *)
(***************************************************************************)

(***************************************************************************)
(* AssetState, ActorRole and AssetAction are Rust enums; an Option is a    *)
(* value of the enum or None.                                              *)
(***************************************************************************)
None == "None"

PreSaleStates == {"PreMinted", "FactoryLogged", "Unassigned", "RotatingKeys",
                  "EntangledPending", "Activated"}
SoldStates     == {"LegallySold", "Transferred"}
TerminalStates == {"Consumed", "Legacy", "Tampered", "Compromised", "Destructed"}
Frozen         == "Disputed"

LiveStates == PreSaleStates \cup SoldStates
AssetState == LiveStates \cup TerminalStates \cup {Frozen}

ActorRole == {"Platform", "Factory", "Brand", "Consumer", "Moderator"}

BusinessActions == {"BlindLog", "StockIn", "ActivateRotateKeys",
                    "ActivateEntangle", "ActivateConfirm", "LegalSell",
                    "Transfer", "Consume", "Legacy"}
GovernanceActions == {"Freeze", "Recover", "MarkTampered", "MarkCompromised",
                      "MarkDestructed"}
AssetAction == BusinessActions \cup GovernanceActions

-----------------------------------------------------------------------------
(***************************************************************************)
(* The state machine.                                                      *)
(***************************************************************************)
BusinessTransitions ==
    { <<"PreMinted",        "BlindLog",           "FactoryLogged">>,
      <<"FactoryLogged",    "StockIn",            "Unassigned">>,
      <<"Unassigned",       "ActivateRotateKeys", "RotatingKeys">>,
      <<"RotatingKeys",     "ActivateEntangle",   "EntangledPending">>,
      <<"EntangledPending", "ActivateConfirm",    "Activated">>,
      <<"Activated",        "LegalSell",          "LegallySold">>,
      <<"LegallySold",      "Transfer",           "Transferred">>,
      <<"Transferred",      "Transfer",           "Transferred">>,
      <<"LegallySold",      "Consume",            "Consumed">>,
      <<"Transferred",      "Consume",            "Consumed">>,
      <<"LegallySold",      "Legacy",             "Legacy">>,
      <<"Transferred",      "Legacy",             "Legacy">> }

\* The verdicts a moderator can give on an asset that is not terminal.
Verdicts == { <<"MarkTampered",    "Tampered">>,
              <<"MarkCompromised", "Compromised">>,
              <<"MarkDestructed",  "Destructed">> }

\* Mutant of NextState: an asset that is frozen already can be frozen again.
NextStateRefreeze(current, action, previous, target) ==
    \/ <<current, action, target>> \in BusinessTransitions
    \/ action = "Freeze" /\ current \notin TerminalStates /\ target = Frozen
    \/ /\ action = "Recover"
       /\ current = Frozen
       /\ previous \in AssetState \ (TerminalStates \cup {Frozen})
       /\ target = previous
    \/ current \notin TerminalStates /\ <<action, target>> \in Verdicts

\* next_state_for_action_with_previous(current, action, previous) = Some(target)
NextState(current, action, previous, target) ==
    \/ <<current, action, target>> \in BusinessTransitions
    \/ /\ action = "Freeze"
       /\ current \notin TerminalStates \cup {Frozen}
       /\ target = Frozen
    \/ /\ action = "Recover"
       /\ current = Frozen
       /\ previous \in AssetState \ (TerminalStates \cup {Frozen})
       /\ target = previous
    \/ /\ current \notin TerminalStates
       /\ <<action, target>> \in Verdicts

-----------------------------------------------------------------------------
(***************************************************************************)
(* The role table.                                                         *)
(***************************************************************************)
RoleMoves ==
    [ Factory  |-> { <<"PreMinted", "BlindLog">>, <<"FactoryLogged", "StockIn">> },
      Brand    |-> { <<"Unassigned", "ActivateRotateKeys">>,
                     <<"RotatingKeys", "ActivateEntangle">>,
                     <<"EntangledPending", "ActivateConfirm">>,
                     <<"Activated", "LegalSell">> },
      Consumer |-> SoldStates \X {"Transfer", "Consume", "Legacy"} ]

CanRoleInitiate(role, current, action) ==
    \/ role = "Platform"
    \/ role = "Moderator" /\ action \in GovernanceActions
    \/ role \in DOMAIN RoleMoves /\ <<current, action>> \in RoleMoves[role]

-----------------------------------------------------------------------------
(***************************************************************************)
(* apply_action(record, action, context): the error of the first check     *)
(* that fails, in the order of the code, or "Ok".  record has the fields   *)
(* current and previous, context the fields role, approval (is an          *)
(* approval id present) and buyer.                                         *)
(***************************************************************************)
ApplyStatus(record, action, context) ==
    IF record.current \in TerminalStates
    THEN "TerminalState"
    ELSE IF record.current = Frozen /\ action \in BusinessActions
    THEN "FrozenAsset"
    ELSE IF \/ /\ context.role = "Platform"
               /\ action \in BusinessActions
               /\ ~context.approval
            \/ ~CanRoleInitiate(context.role, record.current, action)
    THEN "PermissionDenied"
    ELSE IF action = "LegalSell" /\ context.buyer = None
    THEN "InvalidInput"
    ELSE IF ~\E target \in AssetState :
                NextState(record.current, action, record.previous, target)
    THEN "InvalidStateTransition"
    ELSE "Ok"

\* Mutants of PreviousAfter: a verdict keeps the state too; nothing is kept; an
\* empty text stands for no state.
PreviousAfterKept(current, target) ==
    IF target \in TerminalStates \cup {Frozen} THEN current ELSE None
PreviousAfterForgotten(current, target) == None
PreviousAfterEmpty(current, target) == IF target = Frozen THEN current ELSE ""

\* The previous_state apply_action puts in the new record: a freeze keeps the
\* state it interrupts, every other step forgets it.
PreviousAfter(current, target) == IF target = Frozen THEN current ELSE None
=============================================================================
