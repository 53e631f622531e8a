------------------------------- MODULE Server -------------------------------
(***************************************************************************)
(* The frame every request-handling module below is written in: a process  *)
(* of the web server takes a request, runs the statements of its handler   *)
(* one after the other against PostgreSQL at READ COMMITTED, and answers.  *)
(*                                                                         *)
(* req[h] is what the handler h holds in its local variables: the          *)
(* operation, the statement it is at and what it has read so far.          *)
(* held[h] is the set of rows its open transaction has locked with         *)
(* SELECT ... FOR UPDATE; they are released when the transaction ends,     *)
(* which here is when the handler goes idle.  A transaction's writes are   *)
(* one step at its commit, since no other statement sees them earlier.     *)
(*                                                                         *)
(* One run explores several small workloads.  mix is the workload, one of  *)
(* Mixes, chosen in the initial state and never changed: its name, which   *)
(* operations are offered, how many handlers may be busy at once, and how  *)
(* many requests are made.  Casts says what there is when they begin.      *)
(***************************************************************************)
EXTENDS Integers, FiniteSets, Sequences, TLC

CONSTANTS Handler, Mixes, Casts, Nil

VARIABLES req, held, mix, served

ASSUME EveryMixHasACast == DOMAIN Mixes \subseteq DOMAIN Casts

serverVars == <<req, held, mix, served>>

(* r with the fields of s that it has not itself: TLC's r @@ s, which TLAPS *)
(* does not know.                                                          *)
With(r, s) == [f \in DOMAIN r \cup DOMAIN s |-> IF f \in DOMAIN r THEN r[f] ELSE s[f]]

Idle == [op |-> "idle"]

ServerInit ==
  /\ \E n \in DOMAIN Mixes : mix = With([name |-> n], Mixes[n])
  /\ req = [h \in Handler |-> Idle]
  /\ held = [h \in Handler |-> {}]
  /\ served = 0

Busy == {h \in Handler : req[h].op # "idle"}

(* h holds the request of operation op at statement pc.                    *)
At(h, op, pc) == req[h].op = op /\ req[h].pc = pc

(* The workload: what it offers, and whether h may take a request for op.  *)
Work == mix
Cast == Casts[mix.name]

Ready(h, op) ==
  /\ op \in Work.ops
  /\ req[h].op = "idle"
  /\ served < Work.budget
  /\ Cardinality(Busy) < Work.width

(* A request arrives at an idle handler, which holds r from then on.       *)
Begin(h, r) ==
  /\ req' = [req EXCEPT ![h] = r]
  /\ served' = served + 1
  /\ UNCHANGED <<held, mix>>

(* A request whose handler is one statement comes and goes in one step.    *)
Serve ==
  /\ served' = served + 1
  /\ UNCHANGED <<req, held, mix>>

(* The handler goes on to its next statement with the locals r.            *)
Go(h, r) ==
  /\ req' = [req EXCEPT ![h] = r]
  /\ UNCHANGED <<held, mix, served>>

(* The handler answers; its transaction is over and its locks released.    *)
End(h) ==
  /\ req' = [req EXCEPT ![h] = Idle]
  /\ held' = [held EXCEPT ![h] = {}]
  /\ UNCHANGED <<mix, served>>

(* One transaction of the handler is over and it goes on to the next.      *)
Commit(h, r) ==
  /\ req' = [req EXCEPT ![h] = r]
  /\ held' = [held EXCEPT ![h] = {}]
  /\ UNCHANGED <<mix, served>>

Free(h, rows) == \A k \in Handler \ {h} : held[k] \cap rows = {}

(* The rows a SELECT ... FOR UPDATE chose from the snapshot it started     *)
(* with, and is still waiting for.                                         *)
Wanted(h) == IF "want" \in DOMAIN req[h] THEN req[h].want ELSE {}

(* The statement has its rows: it locks those of them it still matches     *)
(* and the handler goes on with r.                                         *)
GoLocked(h, rows, r) ==
  /\ Free(h, Wanted(h) \cup rows)
  /\ held' = [held EXCEPT ![h] = @ \cup rows]
  /\ req' = [req EXCEPT ![h] = r]
  /\ UNCHANGED <<mix, served>>

(* Two transactions wait for each other: PostgreSQL aborts one of them.    *)
Victim(h) ==
  /\ \E k \in Handler \ {h} : /\ Wanted(h) \cap held[k] # {}
                              /\ Wanted(k) \cap held[h] # {}
  /\ End(h)
=============================================================================
