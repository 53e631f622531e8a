---------------------------- MODULE MCTransitions ----------------------------
(***************************************************************************)
(* Small instances of Transitions: a workflow of three states, in which    *)
(* the move into done needs an approval and the reopen unassigns.          *)
(***************************************************************************)
EXTENDS TransitionProps, TLC

CONSTANTS h1, h2, a1, a2, a3    \* model values, interchangeable in safety runs

Interchangeable == Permutations({h1, h2}) \cup Permutations({a1, a2, a3})

MCUser == {"ann", "bob"}
MCTeam == {"leads"}
MCStatus == {"open", "in_progress", "resolved"}

\* sProg2 is the state an administrator creates to replace a deleted sProg.
MCStateId == {"sOpen", "sProg", "sDone", "sProg2"}
MCStateName == [s \in MCStateId |->
    CASE s = "sOpen" -> "open" [] s = "sDone" -> "resolved" [] OTHER -> "in_progress"]

\* The last two edges are never live at the start: a second edge into done,
\* and an edge from a state to itself.
MCEdgeId == {"start", "finish", "reopen", "finish2", "loop"}
MCEdgeFrom == [t \in MCEdgeId |->
    CASE t = "start" -> "sOpen" [] t = "reopen" -> "sDone" [] OTHER -> "sProg"]
MCEdgeTo == [t \in MCEdgeId |->
    CASE t = "start" -> "sProg" [] t = "reopen" -> "sOpen"
      [] t = "loop" -> "sProg" [] OTHER -> "sDone"]

\* tickets.validTransitions, without the moves of the closed status.
MCLegalMove == {<<"open", "in_progress">>, <<"in_progress", "resolved">>,
                <<"in_progress", "open">>, <<"resolved", "open">>,
                <<"resolved", "in_progress">>}

NoGuard == [t \in MCEdgeId |-> {}]
LiveEdgeIds == {"start", "finish", "reopen"}
LiveStateIds == {"sOpen", "sProg", "sDone"}

Gated == [t \in MCEdgeId |-> IF t = "finish" THEN {"leads"} ELSE {}]
Leads == [t \in MCTeam |-> {"bob"}]

Guarded == [t \in MCEdgeId |->
    CASE t = "start" -> {[class |-> "condition", kind |-> "actor_is_assignee", team |-> Nil]}
      [] t = "finish" -> {[class |-> "validator", kind |-> "field_required", team |-> Nil]}
      [] OTHER -> {}]

Assign(u) == [kind |-> "assign_to", assignee |-> u, due |-> FALSE]
SetDue(d) == [kind |-> "set_due", assignee |-> Nil, due |-> d]
Effectful == [t \in MCEdgeId |->
    CASE t = "start" -> <<Assign("ann"), SetDue(TRUE), Assign("bob")>>
      [] t = "reopen" -> <<Assign(Nil)>>
      [] OTHER -> <<>>]
NoEffects == [t \in MCEdgeId |-> <<>>]

Placed(status, s, assignee) ==
    [life |-> "live", status |-> status, stateId |-> s,
     assignee |-> assignee, due |-> FALSE, resolved |-> FALSE]
Unborn == [Placed("open", Nil, Nil) EXCEPT !.life = "unborn"]

AtOpen == [e \in {"t1"} |-> Placed("open", "sOpen", "ann")]
AtProg == [e \in {"t1"} |-> Placed("in_progress", "sProg", Nil)]
Unplaced == [e \in {"t1", "i1"} |->
    IF e = "t1" THEN Placed("open", Nil, "ann") ELSE Unborn]
==============================================================================
