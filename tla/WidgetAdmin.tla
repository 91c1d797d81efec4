----------------------------- MODULE WidgetAdmin -----------------------------
(***************************************************************************)
(* The owners' side of the widgets table: create, read, PATCH and DELETE   *)
(* of app/api/widgets.py, run concurrently by the threads of the server.   *)
(*                                                                         *)
(* A handler reads the widget in one statement and writes it in a later    *)
(* one; no lock is held in between.  The session writes back the columns   *)
(* whose value differs from the one it read, and finds the row again by    *)
(* its id alone.                                                           *)
(***************************************************************************)
EXTENDS Naturals, FiniteSets

CONSTANTS
    Calls,      \* calls of the management API with a valid token
    Owners,     \* the tenants
    Widgets,    \* widget ids; a uuid, so never used again once deleted
    NoWidget,
    NoOwner,
    NoBody,
    Bodies      \* the PATCH bodies sent: each a function from the columns it
                \* names to the values it gives them

\* Four kinds of column, by what a null does to them: "title" (and type) has
\* NOT NULL, "button" (button_text, and styles) is given its default,
\* "description" may be null, "fields" is refused.
Columns == {"title", "button", "description", "fields"}

\* "invalid" is whatever the schema refuses, "null" is None, "empty" is [],
\* "default" what the handler puts for a null button.
Values == {"a", "b", "null", "empty", "default"}

\* What WidgetUpdate makes of a body.
Sent == {"a", "b", "null", "empty", "invalid"}

ASSUME BodiesAssumption ==
    Bodies \subseteq UNION {[D -> Sent] : D \in SUBSET Columns}

ASSUME NothingAssumption ==
    /\ NoWidget \notin Widgets
    /\ NoOwner \notin Owners
    /\ NoBody \notin Bodies

VARIABLES
    widgets,    \* ids of the rows of the widgets table
    column,     \* their columns
    owner_id,   \* whose they are; NoOwner for an id not yet given out
    made,       \* the columns a widget was created with (history)
    patched,    \* PATCH calls whose commit went through (history)
    pc,         \* where each call's handler is
    op,         \* "create", "get", "patch" or "delete"
    by,         \* the owner each call is authenticated as
    target,     \* the widget_id of its path
    body,       \* the body of a PATCH
    loaded,     \* the columns a PATCH has read
    status      \* the status each call was answered with; 0 for none yet

table == <<widgets, column, owner_id, made>>
request == <<op, by, body>>
vars == <<table, patched, pc, request, target, loaded, status>>

Rows == [Columns -> Values]

BlankRow == [c \in Columns |-> "null"]

\* What a valid WidgetCreate becomes: the button has its default unless it is
\* given.
NewRows ==
    {row \in Rows : /\ row["title"] = "a"
                    /\ row["button"] \in {"a", "default"}
                    /\ row["description"] \in {"a", "null"}
                    /\ row["fields"] \in {"a", "empty"}}

Init ==
    /\ widgets = {}
    /\ column = [w \in Widgets |-> BlankRow]
    /\ owner_id = [w \in Widgets |-> NoOwner]
    /\ made = [w \in Widgets |-> BlankRow]
    /\ patched = {}
    /\ pc = [r \in Calls |-> "idle"]
    /\ op = [r \in Calls |-> "get"]
    /\ by \in [Calls -> Owners]
    /\ target = [r \in Calls |-> NoWidget]
    /\ body = [r \in Calls |-> NoBody]
    /\ loaded = [r \in Calls |-> BlankRow]
    /\ status = [r \in Calls |-> 0]

Answer(r, s) ==
    /\ status' = [status EXCEPT ![r] = s]
    /\ pc' = [pc EXCEPT ![r] = "done"]

Goto(r, step) == pc' = [pc EXCEPT ![r] = step] /\ UNCHANGED status

\* Variant: the schema accepts any string.
Refused_Never(b) == FALSE

\* The schema refuses a body, whoever's widget the path names.
Refused(b) == \E c \in DOMAIN b : b[c] = "invalid"

\* A call arrives, is authenticated (get_current_owner) and validated.
ReceiveCreate(r) ==
    /\ pc[r] = "idle"
    /\ op' = [op EXCEPT ![r] = "create"]
    /\ Goto(r, "insert")
    /\ UNCHANGED <<table, patched, by, target, body, loaded>>

ReceiveOther(r) ==
    /\ pc[r] = "idle"
    /\ \E o \in {"get", "delete"}, w \in Widgets :
          /\ op' = [op EXCEPT ![r] = o]
          /\ target' = [target EXCEPT ![r] = w]
    /\ Goto(r, "load")
    /\ UNCHANGED <<table, patched, by, body, loaded>>

ReceivePatch(r) ==
    /\ pc[r] = "idle"
    /\ op' = [op EXCEPT ![r] = "patch"]
    /\ \E w \in Widgets, b \in Bodies :
          /\ target' = [target EXCEPT ![r] = w]
          /\ body' = [body EXCEPT ![r] = b]
          /\ IF Refused(b) THEN Answer(r, 422) ELSE Goto(r, "load")
    /\ UNCHANGED <<table, patched, by, loaded>>

\* create_widget up to its commit.
Insert(r) ==
    /\ pc[r] = "insert"
    /\ \E w \in Widgets, row \in NewRows :
          /\ owner_id[w] = NoOwner
          /\ owner_id' = [owner_id EXCEPT ![w] = by[r]]
          /\ widgets' = widgets \union {w}
          /\ column' = [column EXCEPT ![w] = row]
          /\ made' = [made EXCEPT ![w] = row]
          /\ target' = [target EXCEPT ![r] = w]
    /\ Goto(r, "refresh")
    /\ UNCHANGED <<patched, request, loaded>>

\* Variant: the query forgets the owner.
owned_AnyOwner(r) == target[r] \in widgets

\* _get_owned_widget: the query is scoped to the owner of the token.
owned(r) == target[r] \in widgets /\ owner_id[target[r]] = by[r]

\* "fields" in updates is None, or not empty: then f.model_dump() is asked of
\* a dict, since payload.model_dump() has already taken the fields apart.
NullFields(b) == "fields" \in DOMAIN b /\ b["fields"] = "null"
NestedDump(b) == "fields" \in DOMAIN b /\ b["fields"] \in {"a", "b"}

\* The head of the three handlers, and all of get_widget.
LoadMissing(r) ==
    /\ pc[r] = "load"
    /\ ~owned(r)
    /\ Answer(r, 404)
    /\ UNCHANGED <<table, patched, request, target, loaded>>

LoadGet(r) ==
    /\ pc[r] = "load"
    /\ owned(r)
    /\ op[r] = "get"
    /\ Answer(r, 200)
    /\ UNCHANGED <<table, patched, request, target, loaded>>

LoadDelete(r) ==
    /\ pc[r] = "load"
    /\ owned(r)
    /\ op[r] = "delete"
    /\ Goto(r, "remove")
    /\ UNCHANGED <<table, patched, request, target, loaded>>

LoadPatch(r) ==
    /\ pc[r] = "load"
    /\ owned(r)
    /\ op[r] = "patch"
    /\ \/ NullFields(body[r]) /\ Answer(r, 422) /\ UNCHANGED loaded
       \/ NestedDump(body[r]) /\ Answer(r, 500) /\ UNCHANGED loaded
       \/ /\ ~NullFields(body[r])
          /\ ~NestedDump(body[r])
          /\ loaded' = [loaded EXCEPT ![r] = column[target[r]]]
          /\ Goto(r, "write")
    /\ UNCHANGED <<table, patched, request, target>>

\* The value a body gives the column c.
Stored(b, c) == IF c = "button" /\ b[c] = "null" THEN "default" ELSE b[c]

\* Variant: every column is written back, as read if the body is silent.
written_WholeRow(r) ==
    [c \in Columns |-> IF c \in DOMAIN body[r] THEN Stored(body[r], c)
                                               ELSE loaded[r][c]]

\* The columns setattr has changed, with their new values.
written(r) ==
    [c \in {d \in DOMAIN body[r] : Stored(body[r], d) # loaded[r][d]} |->
        Stored(body[r], c)]

Overwrite(row, new) ==
    [c \in Columns |-> IF c \in DOMAIN new THEN new[c] ELSE row[c]]

\* Variant: a row that is gone is inserted again (merge for commit).
Write_Upsert(r) ==
    /\ pc[r] = "write"
    /\ column' = [column EXCEPT ![target[r]] = Overwrite(@, written(r))]
    /\ widgets' = widgets \union {target[r]}
    /\ patched' = patched \union {r}
    /\ Goto(r, "refresh")
    /\ UNCHANGED <<owner_id, made, request, target, loaded>>

\* The commit of update_widget.  An UPDATE that meets no row is a
\* StaleDataError, a null title an IntegrityError: both go uncaught.  With
\* nothing to write there is no UPDATE at all.
Write(r) ==
    LET new == written(r)
        fails == \/ DOMAIN new # {} /\ target[r] \notin widgets
                 \/ "title" \in DOMAIN new /\ new["title"] = "null"
    IN  /\ pc[r] = "write"
        /\ \/ fails /\ Answer(r, 500) /\ UNCHANGED <<column, patched>>
           \/ /\ ~fails
              /\ column' = [column EXCEPT ![target[r]] = Overwrite(@, new)]
              /\ patched' = patched \union {r}
              /\ Goto(r, "refresh")
        /\ UNCHANGED <<widgets, owner_id, made, request, target, loaded>>

\* db.refresh after a create or a PATCH; the row may have been deleted.
Refresh(r) ==
    /\ pc[r] = "refresh"
    /\ \/ /\ target[r] \in widgets
          /\ Answer(r, IF op[r] = "create" THEN 201 ELSE 200)
       \/ target[r] \notin widgets /\ Answer(r, 500)
    /\ UNCHANGED <<table, patched, request, target, loaded>>

\* The commit of delete_widget: a row already gone is only warned about.
Remove(r) ==
    /\ pc[r] = "remove"
    /\ widgets' = widgets \ {target[r]}
    /\ Answer(r, 204)
    /\ UNCHANGED <<column, owner_id, made, patched, request, target, loaded>>

Next ==
    \E r \in Calls :
        \/ ReceiveCreate(r) \/ ReceiveOther(r) \/ ReceivePatch(r)
        \/ Insert(r)
        \/ LoadMissing(r) \/ LoadGet(r) \/ LoadDelete(r) \/ LoadPatch(r)
        \/ Write(r) \/ Refresh(r) \/ Remove(r)

Spec == Init /\ [][Next]_vars

-----------------------------------------------------------------------------
(* Properties.                                                             *)

TypeOK ==
    /\ widgets \in SUBSET Widgets
    /\ column \in [Widgets -> Rows]
    /\ owner_id \in [Widgets -> Owners \union {NoOwner}]
    /\ made \in [Widgets -> Rows]
    /\ patched \in SUBSET Calls
    /\ pc \in [Calls -> {"idle", "insert", "load", "write", "remove",
                         "refresh", "done"}]
    /\ op \in [Calls -> {"create", "get", "patch", "delete"}]
    /\ by \in [Calls -> Owners]
    /\ target \in [Calls -> Widgets \union {NoWidget}]
    /\ body \in [Calls -> Bodies \union {NoBody}]
    /\ loaded \in [Calls -> Rows]
    /\ status \in [Calls -> {0, 200, 201, 204, 404, 422, 500}]

\* The committed PATCH calls that name column c of widget w.
Naming(w, c) ==
    {q \in patched : target[q] = w /\ c \in DOMAIN body[q]}

\* Concurrent PATCH calls compose: a column holds what one of the committed
\* calls that name it gave it, and what it was created with if none does.  So
\* no call undoes another's change of a column it does not itself name,
\* however stale the row it has read.
PatchesCompose ==
    \A w \in Widgets, c \in Columns :
        IF Naming(w, c) = {}
        THEN column[w][c] = made[w][c]
        ELSE \E q \in Naming(w, c) : column[w][c] = Stored(body[q], c)

\* A widget answered as deleted stays deleted: no PATCH that read it before
\* brings it back.
DeletedStaysDeleted ==
    \A r \in Calls : status[r] = 204 => target[r] \notin widgets

\* Cross-tenant access is impossible (docstring of widgets.py): whatever a
\* call is told or has changed is its own owner's.
TenantsApart ==
    \A r \in Calls :
        \/ status[r] \in {200, 201, 204}
        \/ r \in patched
        => owner_id[target[r]] = by[r]

-----------------------------------------------------------------------------
(* What the documentation says and the code does not do.                   *)

\* README.md: "bad payload -> 4xx JSON, never 500".  A PATCH is answered with
\* a 500 at most because its widget was deleted under it.
BadPatchIsRefused ==
    \A r \in Calls : op[r] = "patch" /\ status[r] = 500
                        => target[r] \notin widgets

=============================================================================
