------------------------------- MODULE Fields -------------------------------
(***************************************************************************)
(* Custom fields: internal/core/customfields, with                         *)
(* internal/db/adapters/custom_fields.go and the handlers of               *)
(* internal/core/api/projects and internal/core/api/tickets.               *)
(*                                                                         *)
(* An organization defines fields; a scope puts a field on the form of the *)
(* items or the tickets of a space; an item's value is kept by the field's *)
(* slug and outlives the definition.                                       *)
(***************************************************************************)
EXTENDS Items

CONSTANTS FieldSlug

VARIABLES fdef, scope, fval

fieldVars == <<fdef, scope, fval>>

NoDef == [st |-> "none", id |-> 0, type |-> Nil, options |-> {}]

(* A value: what it can be read as, or the option it names, and the id of  *)
(* the definition it was accepted under, which the row does not keep.      *)
NoValue == [v |-> Nil, under |-> 0]

FieldInit ==
  /\ fdef = [o \in Org |-> [s \in FieldSlug |-> IF s \in DOMAIN Cast.fields THEN Cast.fields[s] ELSE NoDef]]
  /\ scope = Cast.scopes
  /\ fval = [i \in Item |-> [s \in FieldSlug |-> NoValue]]

-----------------------------------------------------------------------------
(* Definitions.  The slug and the type never change.                       *)

DefRow(o, s, id) == fdef[o][s].st # "none" /\ fdef[o][s].id = id

normalizeOptions(type, options) == IF type = "single_select" THEN options ELSE {}

CreateDefBegin(h) ==
  /\ Ready(h, "createfield")
  /\ \E o \in Org, s \in FieldSlug, t \in Work.fieldTypes, opts \in Work.options :
       /\ AdminGate(o)
       /\ t = "single_select" => opts # {}
       /\ fdef[o][s].st = "none"
       /\ Begin(h, [op |-> "createfield", pc |-> "count", o |-> o, s |-> s, t |-> t, opts |-> normalizeOptions(t, opts)])
       /\ UNCHANGED <<groundVars, itemVars, fieldVars>>

CountEntityFieldValuesByOrgSlug(o, s) ==
  {i \in Item : ItemLive(i) /\ SpaceOrg[item[i].sp] = o /\ fval[i][s] # NoValue}

(* A slug under which live entities still hold values is not free.         *)
slugIsFree(h) ==
  /\ At(h, "createfield", "count")
  /\ IF CountEntityFieldValuesByOrgSlug(req[h].o, req[h].s) = {}
     THEN Go(h, [req[h] EXCEPT !.pc = "insert"]) ELSE End(h)
  /\ UNCHANGED <<groundVars, itemVars, fieldVars>>

CreateCustomFieldDef(h) ==
  LET r == req[h] IN
  /\ At(h, "createfield", "insert")
  /\ fdef' = IF fdef[r.o][r.s].st = "none"
             THEN [fdef EXCEPT ![r.o][r.s] = [st |-> "active", id |-> @.id + 1, type |-> r.t, options |-> r.opts]]
             ELSE fdef
  /\ End(h)
  /\ UNCHANGED <<groundVars, itemVars, scope, fval>>

(* getOwned, and then the statement, by id.                                *)
OwnedDef(o, s) == AdminGate(o) /\ fdef[o][s].st # "none"

UpdateDefBegin(h) ==
  /\ Ready(h, "updatefield")
  /\ \E o \in Org, s \in FieldSlug, opts \in Work.options :
       /\ OwnedDef(o, s)
       /\ fdef[o][s].type = "single_select" => opts # {}
       /\ Begin(h, [op |-> "updatefield", pc |-> "write", o |-> o, s |-> s, id |-> fdef[o][s].id,
                    opts |-> normalizeOptions(fdef[o][s].type, opts)])
       /\ UNCHANGED <<groundVars, itemVars, fieldVars>>

UpdateCustomFieldDef(h) ==
  LET r == req[h] IN
  /\ At(h, "updatefield", "write")
  /\ fdef' = IF DefRow(r.o, r.s, r.id) THEN [fdef EXCEPT ![r.o][r.s].options = r.opts] ELSE fdef
  /\ End(h)
  /\ UNCHANGED <<groundVars, itemVars, scope, fval>>

SetDefArchivedBegin(h) ==
  /\ Ready(h, "archivefield")
  /\ \E o \in Org, s \in FieldSlug, st \in {"active", "archived"} :
       /\ OwnedDef(o, s)
       /\ Begin(h, [op |-> "archivefield", pc |-> "write", o |-> o, s |-> s, id |-> fdef[o][s].id, to |-> st])
       /\ UNCHANGED <<groundVars, itemVars, fieldVars>>

SetCustomFieldDefArchived(h) ==
  LET r == req[h] IN
  /\ At(h, "archivefield", "write")
  /\ fdef' = IF DefRow(r.o, r.s, r.id) THEN [fdef EXCEPT ![r.o][r.s].st = r.to] ELSE fdef
  /\ End(h)
  /\ UNCHANGED <<groundVars, itemVars, scope, fval>>

DeleteDefBegin(h) ==
  /\ Ready(h, "deletefield")
  /\ \E o \in Org, s \in FieldSlug :
       /\ OwnedDef(o, s)
       /\ Begin(h, [op |-> "deletefield", pc |-> "delete", o |-> o, s |-> s, id |-> fdef[o][s].id])
       /\ UNCHANGED <<groundVars, itemVars, fieldVars>>

(* The scopes cascade with the definition; the values stay.                *)
DeleteCustomFieldDef(h) ==
  LET r == req[h] IN
  /\ At(h, "deletefield", "delete")
  /\ fdef' = IF DefRow(r.o, r.s, r.id) THEN [fdef EXCEPT ![r.o][r.s].st = "none"] ELSE fdef
  /\ scope' = {c \in scope : c.s # r.s \/ c.id # r.id \/ SpaceOrg[c.sp] # r.o}
  /\ End(h)
  /\ UNCHANGED <<groundVars, itemVars, fval>>

-----------------------------------------------------------------------------
(* Scopes: the form of one kind of entity in one space                     *)

scopeHostSpaceType == [item |-> "vector", ticket |-> "beacon"]
resolveFormSpace(o, sp, et) == SpaceLive(sp) /\ SpaceOrg[sp] = o /\ SpaceType[sp] = scopeHostSpaceType[et]

FormScopes(sp, et) == {c \in scope : c.sp = sp /\ c.et = et}
SameScope(c, r) == c.s = r.s /\ c.id = r.id /\ c.sp = r.sp /\ c.et = r.et

SetScopeBegin(h) ==
  /\ Ready(h, "setscope")
  /\ \E o \in Org, s \in FieldSlug, sp \in Space, et \in DOMAIN scopeHostSpaceType, required \in BOOLEAN :
       /\ OwnedDef(o, s)
       /\ resolveFormSpace(o, sp, et)
       /\ Begin(h, [op |-> "setscope", pc |-> "upsert", o |-> o, s |-> s, id |-> fdef[o][s].id, sp |-> sp, et |-> et,
                    required |-> required])
       /\ UNCHANGED <<groundVars, itemVars, fieldVars>>

(* A new scope stands where its definition does in the organization, one   *)
(* that is there already keeps its place; the definition must still exist. *)
UpsertCustomFieldScope(h) ==
  LET r == req[h]
      old == {c \in scope : SameScope(c, r)}
      at == IF old = {} THEN 0 ELSE (CHOOSE c \in old : TRUE).at
  IN
  /\ At(h, "setscope", "upsert")
  /\ scope' = IF SpaceLive(r.sp) /\ DefRow(r.o, r.s, r.id)
              THEN (scope \ old) \cup {[s |-> r.s, id |-> r.id, sp |-> r.sp, et |-> r.et, required |-> r.required, at |-> at]}
              ELSE scope
  /\ End(h)
  /\ UNCHANGED <<groundVars, itemVars, fdef, fval>>

RemoveScopeBegin(h) ==
  /\ Ready(h, "removescope")
  /\ \E o \in Org, c \in scope :
       /\ SpaceOrg[c.sp] = o
       /\ OwnedDef(o, c.s)
       /\ Begin(h, [op |-> "removescope", pc |-> "delete", c |-> c])
       /\ UNCHANGED <<groundVars, itemVars, fieldVars>>

DeleteCustomFieldScope(h) ==
  /\ At(h, "removescope", "delete")
  /\ scope' = {c \in scope : ~SameScope(c, req[h].c)}
  /\ End(h)
  /\ UNCHANGED <<groundVars, itemVars, fdef, fval>>

(* The request names the fields of the form, each once, in their new       *)
(* order; what has been attached or detached since is left as it is.       *)
ReorderFormBegin(h) ==
  /\ Ready(h, "reorder")
  /\ \E o \in Org, sp \in Space, et \in DOMAIN scopeHostSpaceType :
       /\ AdminGate(o)
       /\ resolveFormSpace(o, sp, et)
       /\ \E order \in SetToSeqs({c.s : c \in FormScopes(sp, et)}) :
            Begin(h, [op |-> "reorder", pc |-> "write", sp |-> sp, et |-> et, order |-> order])
       /\ UNCHANGED <<groundVars, itemVars, fieldVars>>

ReorderCustomFieldScopes(h) ==
  LET r == req[h]
      place(s) == CHOOSE n \in DOMAIN r.order : r.order[n] = s
  IN
  /\ At(h, "reorder", "write")
  /\ scope' = IF SpaceLive(r.sp)
              THEN {IF c \in FormScopes(r.sp, r.et) /\ c.s \in Range(r.order) THEN [c EXCEPT !.at = place(c.s)] ELSE c : c \in scope}
              ELSE scope
  /\ End(h)
  /\ UNCHANGED <<groundVars, itemVars, fdef, fval>>

-----------------------------------------------------------------------------
(* Values *)

(* What a value can be read as: any value is text.                         *)
validateValue(def, v) ==
  CASE def.type = "text"          -> TRUE
    [] def.type = "single_select" -> v \in def.options
    [] OTHER                      -> v = def.type

SetFieldBegin(h, op, et) ==
  /\ Ready(h, op)
  /\ \E u \in Work.callers, i \in Item, s \in FieldSlug, v \in Work.values \cup {Nil} :
       /\ ItemLive(i) /\ item[i].et = et
       /\ CanEditEntity(u, item[i].sp, item[i].by)
       /\ Begin(h, [op |-> "setvalue", pc |-> "def", i |-> i, s |-> s, v |-> v])
       /\ UNCHANGED <<groundVars, itemVars, fieldVars>>

SetItemField(h)   == SetFieldBegin(h, "setitemfield", "item")
SetTicketField(h) == SetFieldBegin(h, "setticketfield", "ticket")

(* writableField: a definition, not archived, and then its scope.          *)
ReadFieldDef(h) ==
  LET r == req[h]
      field == fdef[SpaceOrg[item[r.i].sp]][r.s]
  IN
  /\ At(h, "setvalue", "def")
  /\ IF field.st = "active"
     THEN Go(h, [op |-> "setvalue", pc |-> "scope", i |-> r.i, s |-> r.s, v |-> r.v, def |-> field])
     ELSE End(h)
  /\ UNCHANGED <<groundVars, itemVars, fieldVars>>

writableField(h) ==
  LET r == req[h]
      on == {c \in FormScopes(item[r.i].sp, item[r.i].et) : c.s = r.s /\ c.id = r.def.id}
  IN
  /\ At(h, "setvalue", "scope")
  /\ IF on # {} /\ (IF r.v = Nil THEN \A c \in on : ~c.required ELSE validateValue(r.def, r.v))
     THEN Go(h, [op |-> "setvalue", pc |-> "write", i |-> r.i, s |-> r.s, v |-> r.v, under |-> r.def.id])
     ELSE End(h)
  /\ UNCHANGED <<groundVars, itemVars, fieldVars>>

(* The write is guarded once more by the entity being there.               *)
UpsertEntityFieldValue(h) ==
  LET r == req[h] IN
  /\ At(h, "setvalue", "write")
  /\ r.v # Nil
  /\ fval' = IF ItemLive(r.i) THEN [fval EXCEPT ![r.i][r.s] = [v |-> r.v, under |-> r.under]] ELSE fval
  /\ End(h)
  /\ UNCHANGED <<groundVars, itemVars, fdef, scope>>

clearValue(h) ==
  LET r == req[h] IN
  /\ At(h, "setvalue", "write")
  /\ r.v = Nil
  /\ fval' = IF ItemLive(r.i) THEN [fval EXCEPT ![r.i][r.s] = NoValue] ELSE fval
  /\ End(h)
  /\ UNCHANGED <<groundVars, itemVars, fdef, scope>>

-----------------------------------------------------------------------------
(* The form as it is shown: the fields attached to it, in their order, and *)
(* then every other value the entity has, to be read only.                 *)

ListActiveCustomFieldDefsByOrg(o) == {s \in FieldSlug : fdef[o][s].st = "active"}
ListEntityFieldValues(i) == IF ItemLive(i) THEN {s \in FieldSlug : fval[i][s] # NoValue} ELSE {}

composeRendered(active, scopes, stored) ==
  LET form == {c.s : c \in scopes} \cap active IN [form |-> form, legacy |-> stored \ form]

RenderForEntity(i) ==
  LET sp == item[i].sp IN
  composeRendered(ListActiveCustomFieldDefsByOrg(SpaceOrg[sp]), FormScopes(sp, item[i].et), ListEntityFieldValues(i))

FieldsStep(h) ==
  \/ CreateDefBegin(h) \/ slugIsFree(h) \/ CreateCustomFieldDef(h)
  \/ UpdateDefBegin(h) \/ UpdateCustomFieldDef(h) \/ SetDefArchivedBegin(h) \/ SetCustomFieldDefArchived(h)
  \/ DeleteDefBegin(h) \/ DeleteCustomFieldDef(h)
  \/ SetScopeBegin(h) \/ UpsertCustomFieldScope(h) \/ RemoveScopeBegin(h) \/ DeleteCustomFieldScope(h)
  \/ ReorderFormBegin(h) \/ ReorderCustomFieldScopes(h)
  \/ SetItemField(h) \/ SetTicketField(h) \/ ReadFieldDef(h) \/ writableField(h)
  \/ UpsertEntityFieldValue(h) \/ clearValue(h)
=============================================================================
