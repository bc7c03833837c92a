--------------------------- MODULE MCActionHandler ---------------------------
(***************************************************************************)
(* Small instances of ActionHandler for TLC.                               *)
(***************************************************************************)
EXTENDS ActionHandler, TLC

CONSTANTS t1, t2   \* the values of Trace

\* The role whose duty an action is.
DutyRole(action) ==
    CASE action \in GovernanceActions             -> "Moderator"
      [] action \in {"BlindLog", "StockIn"}       -> "Factory"
      [] action \in {"ActivateConfirm", "LegalSell"} -> "Brand"
      [] OTHER                                    -> "Consumer"

Actor == CHOOSE u \in User : TRUE

\* A request as the clients of the platform send it.
Ask(action, buyer, key) ==
    [asset |-> CHOOSE a \in Asset : TRUE, action |-> action,
     role |-> DutyRole(action), actor |-> Actor, approval |-> FALSE,
     buyer |-> buyer, previous |-> None, key |-> key, trace |-> t1]

Routine == {Ask(action, None, k) : action \in HandledActions \ {"LegalSell"}, k \in Key}
           \cup {Ask("LegalSell", u, k) : u \in User, k \in Key}

\* Only a sale, the end of use and governance.
Few == {i \in Routine : i.action \in {"LegalSell", "Consume", "Freeze", "Recover",
                                      "MarkTampered"}}

\* Requests that meet the refusals: a platform action with and without approval,
\* a role that may not, a sale without buyer.
Refused ==
    {[Ask("Consume", None, k) EXCEPT !.role = "Platform", !.approval = b] :
        k \in Key, b \in BOOLEAN}
    \cup {[Ask("Freeze", None, k) EXCEPT !.role = "Brand"] : k \in Key}
    \cup {Ask("LegalSell", None, k) : k \in Key}

\* Recoveries that name the state to go back to.
Named == {[Ask("Recover", None, k) EXCEPT !.previous = s] :
             k \in Key, s \in {"Transferred", "Consumed", Frozen}}

\* A retry under another trace id.
Retraced == {[i EXCEPT !.trace = t2] : i \in Few}

ConcurrentInputs == Routine \cup Refused \cup Named \cup Retraced
FewInputs        == Few
RecoverInputs    == Named \cup {Ask("Freeze", None, k) : k \in Key}
\* One verdict stands for the three.
SerialInputs     == {i \in Routine : i.action \notin {"MarkCompromised", "MarkDestructed"}}

Traces == {t1, t2}
RequestSymmetry == Permutations(Request)
=============================================================================
