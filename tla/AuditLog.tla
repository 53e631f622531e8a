------------------------------ MODULE AuditLog ------------------------------
(***************************************************************************)
(* The audit trail: internal/core/audit, the batch events of the bulk      *)
(* grants and the administrator's viewer.  A row is stamped with the time  *)
(* its transaction began and is seen once it commits, so rows appear       *)
(* behind others that are newer; ids are random and do not follow time.    *)
(* The viewer shows a batch as one line and is read a page at a time.      *)
(***************************************************************************)
EXTENDS Access

CONSTANTS AuditId,           \* the ids audit_log rows may get
          MaxAuditPage,      \* the largest page a reader may ask for (100)
          DefaultAuditPage   \* what he is given otherwise (50)

VARIABLES trail,   \* the rows of audit_log
          clock,   \* now()
          began    \* when the transaction a handler has open began

auditVars == <<trail, clock, began>>

AuditRow == [id : AuditId, o : Org, action : STRING, batch : Nat \cup {Nil}, at : Nat]

(* A workload that reads the trail starts with some of it and keeps it;    *)
(* the others write none.                                                  *)
Kept == "walk" \in Work.ops

AuditInit ==
  /\ trail = IF Kept THEN Work.trail ELSE {}
  /\ clock = 0
  /\ began = [h \in Handler |-> 0]

FreeAuditIds == AuditId \ {r.id : r \in trail}

CreateAuditEvent(id, o, action, batch, at) == [id |-> id, o |-> o, action |-> action, batch |-> batch, at |-> at]

Tick ==
  /\ Kept /\ "tick" \in Work.ops
  /\ clock < Work.until
  /\ clock' = clock + 1
  /\ UNCHANGED <<serverVars, orgVars, space, trail, began>>

-----------------------------------------------------------------------------
(* Any handler that has done what it was asked to comes to its audit line: *)
(* a transaction of its own, which may fail and then leaves no row and no  *)
(* trace in the answer.                                                    *)
Log(h) ==
  /\ Ready(h, "log")
  /\ \E o \in Org, a \in Work.actions : Begin(h, [op |-> "log", pc |-> "insert", o |-> o, action |-> a])
  /\ began' = [began EXCEPT ![h] = clock]
  /\ UNCHANGED <<orgVars, space, trail, clock>>

logged(h) ==
  /\ At(h, "log", "insert")
  /\ \/ \E id \in FreeAuditIds :
          trail' = trail \cup {CreateAuditEvent(id, req[h].o, req[h].action, Nil, began[h])}
     \/ trail' = trail
  /\ End(h)
  /\ began' = [began EXCEPT ![h] = 0]
  /\ UNCHANGED <<orgVars, space, clock>>

(* A bulk apply writes an event for every line of its diff that is not a   *)
(* noop, all of one batch and in the transaction of the grants.            *)
eventType == [create |-> "grant.created", update |-> "grant.updated", revoke |-> "grant.revoked"]

writeBulkAuditEvents(o, actions, batch, at) ==
  {{CreateAuditEvent(ids[a], o, eventType[a.do], batch, at) : a \in actions} :
     ids \in Injection(actions, FreeAuditIds)}

Batches == {r.batch : r \in trail} \ {Nil}

Audited(h) ==
  LET actions == {a \in req[h].diff : a.do # "noop"} IN
  IF Kept /\ At(h, "bulk", "execute") /\ ~BulkFails(grants, req[h].diff)
  THEN trail' \in {trail \cup rows :
         rows \in writeBulkAuditEvents(req[h].o, actions, Cardinality(Batches) + 1, began[h])}
  ELSE trail' = trail

AuditedAccessStep(h) ==
  /\ AccessStep(h)
  /\ Audited(h)
  /\ began' = [began EXCEPT ![h] = IF ~Kept \/ req'[h] = Idle THEN 0 ELSE IF req[h] = Idle THEN clock ELSE @]
  /\ UNCHANGED clock

-----------------------------------------------------------------------------
(* The viewer.  created_at descending, then id descending.                 *)
NewerByTime(r, s) == r.at > s.at   \* mutant: the id is left out of the cursor
Newer(r, s) == r.at > s.at \/ (r.at = s.at /\ r.id > s.id)

Matches(f, r) ==
  /\ f.action # Nil => r.action = f.action
  /\ f.from # Nil => r.at >= f.from
  /\ f.to # Nil => r.at <= f.to

(* PARTITION BY COALESCE(batch_id, id). *)
Together(r, s) == r.id = s.id \/ (r.batch # Nil /\ r.batch = s.batch)

(* One line for each group of rows that match: its newest, and how many.   *)
Lines(o, f) ==
  LET rows == {r \in trail : r.o = o /\ Matches(f, r)}
      Group(r) == {s \in rows : Together(r, s)}
  IN  {[id |-> r.id, at |-> r.at, size |-> Cardinality(Group(r))] :
         r \in {x \in rows : \A y \in Group(x) \ {x} : Newer(x, y)}}

ListAuditLogEntries(o, f, cursor, limit) ==
  LET rest == SetToSortSeq({l \in Lines(o, f) : cursor # Nil => Newer(cursor, l)}, Newer)
  IN  SubSeq(rest, 1, Min({limit, Len(rest)}))

requestedLimit(n) == IF n <= 0 \/ n > MaxAuditPage THEN DefaultAuditPage ELSE n

(* A line's batch opened: its events, the oldest first.                    *)
ListAuditLogBatchEvents(o, b) == {r \in trail : r.o = o /\ b # Nil /\ r.batch = b}
AuditLogBatch(o, b) == SetToSortSeq(ListAuditLogBatchEvents(o, b), LAMBDA r, s : Newer(s, r))

(* An administrator asks for the first page and, as long as he is given a  *)
(* cursor, for the next.  then is what the log held when he began.         *)
parseAuditFilter(h) ==
  /\ Ready(h, "walk")
  /\ \E o \in Org, f \in Work.filters, n \in Work.limits :
       /\ AdminGate(o)
       /\ Begin(h, [op |-> "walk", pc |-> "page", o |-> o, f |-> f, n |-> n, cursor |-> Nil, seen |-> <<>>,
                    then |-> {r \in trail : r.o = o /\ Matches(f, r)}])
  /\ UNCHANGED <<orgVars, space, auditVars>>

ListAuditLog(h) ==
  LET q == req[h]
      requested == requestedLimit(q.n)
      entries == ListAuditLogEntries(q.o, q.f, q.cursor, requested)
      full == Len(entries) = requested
  IN
  /\ At(h, "walk", "page")
  /\ Go(h, [q EXCEPT !.seen = @ \o entries,
                     !.cursor = IF full THEN Last(entries) ELSE Nil,
                     !.pc = IF full THEN "page" ELSE "read"])
  /\ UNCHANGED <<orgVars, space, auditVars>>

walked(h) ==
  /\ At(h, "walk", "read")
  /\ End(h)
  /\ UNCHANGED <<orgVars, space, auditVars>>

AuditStep(h) == Log(h) \/ logged(h) \/ parseAuditFilter(h) \/ ListAuditLog(h) \/ walked(h)
=============================================================================
