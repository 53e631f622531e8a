------------------------------- MODULE Boards -------------------------------
(***************************************************************************)
(* A space's board: internal/core/projects/board.go, with                  *)
(* internal/db/adapters/board_config.go and the handlers of                *)
(* internal/core/api/projects/board_handler.go.                            *)
(*                                                                         *)
(* A board that was never saved is derived from the workflow; a saved one  *)
(* is rows of two tables, the columns and, for each status, its column.    *)
(***************************************************************************)
EXTENDS Items

CONSTANTS ColumnId, Status,
          WorkflowStates,      \* the states of the workflow spaces are given
          DefaultColumnNames   \* the statuses of a space without one

VARIABLES cols, cmap

boardVars == <<cols, cmap>>

BoardInit ==
  /\ cols = {}
  /\ cmap = [sp \in Space |-> [st \in Status |-> Nil]]

ListColumns(sp) == {c \in cols : c.sp = sp}
ColumnIds(sp) == {c.id : c \in ListColumns(sp)}
ListBoardColumnStatuses(sp) == {st \in Status : cmap[sp][st] # Nil}

statusVocabulary(sp) == IF space[sp].wf THEN WorkflowStates ELSE DefaultColumnNames

-----------------------------------------------------------------------------
(* A configuration is saved whole.  Names differ, no status has two        *)
(* columns, and every status of the vocabulary has one.                    *)

validateColumns(columns, vocabulary) ==
  /\ columns # {}
  /\ \A c, d \in columns : c # d => c.name # d.name /\ c.statuses \cap d.statuses = {}
  /\ vocabulary \subseteq UNION {c.statuses : c \in columns}

SaveConfigBegin(h) ==
  /\ Ready(h, "saveboard")
  /\ \E u \in Work.callers, sp \in Space, columns \in Work.boards :
       /\ Can(u, "manage_space", sp)
       /\ validateColumns(columns, statusVocabulary(sp))
       /\ Begin(h, [op |-> "replace", pc |-> "list", sp |-> sp, columns |-> columns])
       /\ UNCHANGED <<groundVars, itemVars, boardVars>>

ResetConfigBegin(h) ==
  /\ Ready(h, "resetboard")
  /\ \E u \in Work.callers, sp \in Space :
       /\ Can(u, "manage_space", sp)
       /\ Begin(h, [op |-> "replace", pc |-> "list", sp |-> sp, columns |-> {}])
       /\ UNCHANGED <<groundVars, itemVars, boardVars>>

(* clearConfig reads the statuses that are mapped, and unmaps those.       *)
ReplaceConfigList(h) ==
  /\ At(h, "replace", "list")
  /\ Go(h, With([req[h] EXCEPT !.pc = "write"], [old |-> ListBoardColumnStatuses(req[h].sp), seen |-> ListColumns(req[h].sp)]))
  /\ UNCHANGED <<groundVars, itemVars, boardVars>>

ReferencesUnchecked(colset, m) == TRUE   \* mutant: column_id references nothing
(* board_column_statuses.column_id, ON DELETE RESTRICT.                    *)
ReferencesHold(colset, m) ==
  \A sp \in Space, st \in Status : m[sp][st] # Nil => \E c \in colset : c.id = m[sp][st]

(* Whatever another request mapped in the meantime keeps its column from   *)
(* being deleted, and a column's id is one row of the whole table: then    *)
(* the transaction fails.  It also fails when it was made to wait for the  *)
(* rows of another replacement.                                            *)
ReplaceConfig(h) ==
  LET r == req[h]
      cleared == [st \in Status |-> IF st \in r.old THEN Nil ELSE cmap[r.sp][st]]
      others == {c \in cols : c.sp # r.sp}
      mapped == [st \in Status |-> IF \E c \in r.columns : st \in c.statuses
                                   THEN (CHOOSE c \in r.columns : st \in c.statuses).id ELSE cleared[st]]
  IN
  /\ At(h, "replace", "write")
  /\ \/ /\ ReferencesHold(others, [cmap EXCEPT ![r.sp] = cleared])
        /\ \A c \in r.columns, d \in others : c.id # d.id
        /\ cols' = others \cup {[id |-> c.id, sp |-> r.sp, name |-> c.name] : c \in r.columns}
        /\ cmap' = [cmap EXCEPT ![r.sp] = mapped]
     \/ /\ \/ ~ReferencesHold(others, [cmap EXCEPT ![r.sp] = cleared])
           \/ \E c \in r.columns, d \in others : c.id = d.id
           \/ ListColumns(r.sp) # r.seen
        /\ UNCHANGED boardVars
  /\ End(h)
  /\ UNCHANGED <<groundVars, itemVars>>

-----------------------------------------------------------------------------
(* One column is deleted; its statuses go to another.                      *)

checkDeletable(ids, id, remapTo) == id # remapTo /\ Cardinality(ids) > 1 /\ {id, remapTo} \subseteq ids

DeleteColumnBegin(h) ==
  /\ Ready(h, "deletecolumn")
  /\ \E u \in Work.callers, sp \in Space, id, remapTo \in ColumnId :
       /\ Can(u, "manage_space", sp)
       /\ checkDeletable(ColumnIds(sp), id, remapTo)
       /\ Begin(h, [op |-> "deletecolumn", pc |-> "tx", sp |-> sp, id |-> id, to |-> remapTo])
       /\ UNCHANGED <<groundVars, itemVars, boardVars>>

ReassignBoardColumnStatuses(m, sp, id, to) == [m EXCEPT ![sp] = [st \in Status |-> IF @[st] = id THEN to ELSE @[st]]]

DeleteColumn(h) ==
  LET r == req[h]
      left == {c \in cols : c.id # r.id}
      m == ReassignBoardColumnStatuses(cmap, r.sp, r.id, r.to)
  IN
  /\ At(h, "deletecolumn", "tx")
  /\ IF ReferencesHold(left, m) THEN cols' = left /\ cmap' = m ELSE UNCHANGED boardVars
  /\ End(h)
  /\ UNCHANGED <<groundVars, itemVars>>

-----------------------------------------------------------------------------
(* Reading: the columns, and in a second statement outside any transaction *)
(* the statuses, each shown in the column that was read.  A space without  *)
(* columns is answered what is derived from the vocabulary.                *)
GetConfigBegin(h) ==
  /\ Ready(h, "readboard")
  /\ \E u \in Work.callers, sp \in Space :
       /\ CanReadSpace(u, sp)
       /\ IF ListColumns(sp) = {} THEN Serve
          ELSE Begin(h, [op |-> "readboard", pc |-> "statuses", sp |-> sp, ids |-> ColumnIds(sp)])
       /\ UNCHANGED <<groundVars, itemVars, boardVars>>

GetConfig(h) ==
  /\ At(h, "readboard", "statuses")
  /\ End(h)
  /\ UNCHANGED <<groundVars, itemVars, boardVars>>

BoardsStep(h) ==
  \/ SaveConfigBegin(h) \/ ResetConfigBegin(h) \/ ReplaceConfigList(h) \/ ReplaceConfig(h)
  \/ DeleteColumnBegin(h) \/ DeleteColumn(h)
  \/ GetConfigBegin(h) \/ GetConfig(h)
=============================================================================
