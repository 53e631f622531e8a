----------------------------- MODULE StatusLedger -----------------------------
(***************************************************************************)
(* What the transition engine promises about statuses, with nothing of how *)
(* it keeps the promise: once a thing exists its status changes only by an *)
(* entry in the ledger, an entry leaves the status the thing really had,   *)
(* and a grant, the verdict that lets a gated move happen, makes one move. *)
(***************************************************************************)
EXTENDS Sequences

CONSTANTS Thing, Text, Grant, NoGrant

VARIABLES
    exists,     \* the things created so far
    status,     \* the status of each
    ledger,     \* the moves made, in order
    spent       \* the grants that have made theirs

ledgerVars == <<exists, status, ledger, spent>>

LedgerInit ==
    /\ exists \subseteq Thing
    /\ status \in [Thing -> Text]
    /\ ledger = <<>>
    /\ spent = {}

Create(e, s) ==
    /\ e \notin exists
    /\ exists' = exists \cup {e}
    /\ status' = [status EXCEPT ![e] = s]
    /\ UNCHANGED <<ledger, spent>>

Move(e, s, g) ==
    /\ e \in exists
    /\ g \notin spent
    /\ status' = [status EXCEPT ![e] = s]
    /\ ledger' = Append(ledger, [e |-> e, from |-> status[e], to |-> s, grant |-> g])
    /\ spent' = spent \cup ({g} \ {NoGrant})
    /\ UNCHANGED exists

LedgerNext ==
    \E e \in Thing, s \in Text :
        \/ Create(e, s)
        \/ \E g \in Grant \cup {NoGrant} : Move(e, s, g)

LedgerSpec == LedgerInit /\ [][LedgerNext]_ledgerVars
===============================================================================
