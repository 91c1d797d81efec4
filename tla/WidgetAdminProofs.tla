-------------------------- MODULE WidgetAdminProofs --------------------------
(***************************************************************************)
(* Proofs about WidgetAdmin for any number of calls, owners, widgets and   *)
(* PATCH bodies.  The inductive invariant adds to the properties what the  *)
(* handlers carry from the statement that read the row to the one that     *)
(* writes it: whose widget it is, that the body has been validated, and    *)
(* that a column nobody has patched was read as it was created.            *)
(***************************************************************************)
EXTENDS WidgetAdmin, TLAPS

\* Before a handler has a widget it has answered and committed nothing.
FreshInv ==
    \A r \in Calls :
        /\ pc[r] \in {"idle", "insert"} => status[r] = 0 /\ r \notin patched
        /\ pc[r] # "done" => status[r] = 0

\* A handler that has read the row of a widget goes on with a validated body.
BodyInv ==
    \A r \in Calls :
        \/ pc[r] = "write"
        \/ pc[r] = "load" /\ op[r] = "patch"
        \/ r \in patched
        => body[r] \in Bodies /\ ~Refused(body[r])

\* Whoever is past the scoped query, or answered, or has committed, works on a
\* widget of its own; rows exist only for ids given out.
OwnInv ==
    /\ \A r \in Calls :
          \/ pc[r] \in {"write", "remove", "refresh"}
          \/ status[r] \in {200, 201, 204}
          \/ r \in patched
          => target[r] \in Widgets /\ owner_id[target[r]] = by[r]
    /\ \A r \in Calls : pc[r] = "load" => target[r] \in Widgets
    /\ \A w \in widgets : owner_id[w] # NoOwner

\* A column no committed PATCH names was read as it was created.
ReadInv ==
    \A r \in Calls : pc[r] = "write" =>
        \A c \in Columns : Naming(target[r], c) = {}
            => loaded[r][c] = made[target[r]][c]

IInv == TypeOK /\ FreshInv /\ BodyInv /\ OwnInv /\ ReadInv
          /\ PatchesCompose /\ DeletedStaysDeleted

LEMMA InitInv == Init => IInv
<1> SUFFICES ASSUME Init PROVE IInv
  OBVIOUS
<1>1. TypeOK
  BY DEF Init, TypeOK, Rows, BlankRow, Values
<1>2. FreshInv /\ BodyInv /\ OwnInv /\ ReadInv /\ DeletedStaysDeleted
  BY DEF Init, FreshInv, BodyInv, OwnInv, ReadInv, DeletedStaysDeleted
<1>3. PatchesCompose
  BY DEF Init, PatchesCompose, Naming
<1> QED
  BY <1>1, <1>2, <1>3 DEF IInv

\* The values a validated body stores are values of a column.
LEMMA StoredIsValue ==
    ASSUME NEW b \in Bodies, ~Refused(b), NEW c \in DOMAIN b
    PROVE  c \in Columns /\ Stored(b, c) \in Values
<1>1. PICK D \in SUBSET Columns : b \in [D -> Sent]
  BY BodiesAssumption
<1>2. b[c] \in Sent /\ b[c] # "invalid" /\ c \in Columns
  BY <1>1 DEF Refused
<1> QED
  BY <1>2 DEF Stored, Sent, Values

\* What the session writes, column by column.
LEMMA OverwriteColumn ==
    ASSUME NEW r, NEW row, NEW c \in Columns
    PROVE  Overwrite(row, written(r))[c] =
               IF c \in DOMAIN body[r] /\ Stored(body[r], c) # loaded[r][c]
               THEN Stored(body[r], c) ELSE row[c]
  BY DEF Overwrite, written

\* The steps before a handler has a widget.
LEMMA ReceiveKeeps ==
    ASSUME IInv, NEW r \in Calls,
           ReceiveCreate(r) \/ ReceiveOther(r) \/ ReceivePatch(r)
    PROVE  IInv'
<1> USE DEF table, request
<1>1. pc[r] = "idle" /\ r \notin patched /\ status[r] = 0
  BY DEF IInv, FreshInv, ReceiveCreate, ReceiveOther, ReceivePatch
<1>2. UNCHANGED <<table, patched, by, loaded>>
  BY DEF ReceiveCreate, ReceiveOther, ReceivePatch
<1>3. /\ pc' \in [Calls -> {"idle", "insert", "load", "done", "write",
                            "remove", "refresh"}]
      /\ \A q \in Calls \ {r} : /\ pc'[q] = pc[q] /\ op'[q] = op[q]
                                /\ target'[q] = target[q]
                                /\ body'[q] = body[q]
                                /\ status'[q] = status[q]
      /\ pc'[r] \in {"insert", "load", "done"}
      /\ status'[r] \in {0, 422}
      /\ pc'[r] # "done" => status'[r] = 0
      /\ op' \in [Calls -> {"create", "get", "patch", "delete"}]
      /\ target' \in [Calls -> Widgets \union {NoWidget}]
      /\ body' \in [Calls -> Bodies \union {NoBody}]
      /\ status' \in [Calls -> {0, 200, 201, 204, 404, 422, 500}]
      /\ pc'[r] = "load" => target'[r] \in Widgets
      /\ pc'[r] = "load" /\ op'[r] = "patch" =>
            body'[r] \in Bodies /\ ~Refused(body'[r])
  BY <1>1 DEF IInv, TypeOK, ReceiveCreate, ReceiveOther, ReceivePatch, Goto,
              Answer
<1>4. TypeOK'
  BY <1>2, <1>3 DEF IInv, TypeOK
<1>5. FreshInv' /\ BodyInv' /\ OwnInv' /\ DeletedStaysDeleted'
  BY <1>1, <1>2, <1>3
     DEF IInv, TypeOK, FreshInv, BodyInv, OwnInv, DeletedStaysDeleted, Refused
<1>6. \A w \in Widgets, c \in Columns : Naming(w, c)' = Naming(w, c)
  BY <1>1, <1>2, <1>3 DEF IInv, TypeOK, Naming
<1>7. PatchesCompose'
  BY <1>1, <1>2, <1>3, <1>6 DEF IInv, TypeOK, PatchesCompose, Naming, Stored
<1>8. ReadInv'
  BY <1>1, <1>2, <1>3, <1>6 DEF IInv, TypeOK, OwnInv, ReadInv
<1> QED
  BY <1>4, <1>5, <1>7, <1>8 DEF IInv

\* The steps that leave the table and all that was read alone.
LEMMA AnswerKeeps ==
    ASSUME IInv, NEW r \in Calls,
           LoadMissing(r) \/ LoadGet(r) \/ LoadDelete(r) \/ Refresh(r)
    PROVE  IInv'
<1> USE DEF table, request
<1>1. UNCHANGED <<table, patched, request, target, loaded>>
  BY DEF LoadMissing, LoadGet, LoadDelete, Refresh
<1>2. pc[r] \in {"load", "refresh"} /\ status[r] = 0
  BY DEF IInv, FreshInv, LoadMissing, LoadGet, LoadDelete, Refresh
<1>3. /\ pc' = [pc EXCEPT ![r] = pc'[r]]
      /\ status' = [status EXCEPT ![r] = status'[r]]
      /\ \/ pc'[r] = "remove" /\ status'[r] = 0
         \/ pc'[r] = "done"
      /\ status'[r] \in {0, 200, 201, 404, 500}
      /\ pc'[r] = "remove" \/ status'[r] \in {200, 201} =>
            target[r] \in Widgets /\ owner_id[target[r]] = by[r]
  BY <1>2 DEF IInv, TypeOK, OwnInv, LoadMissing, LoadGet, LoadDelete, Refresh,
              Goto, Answer, owned
<1>4. TypeOK'
  BY <1>1, <1>3 DEF IInv, TypeOK
<1>5. FreshInv' /\ BodyInv' /\ OwnInv' /\ DeletedStaysDeleted'
  BY <1>1, <1>2, <1>3
     DEF IInv, TypeOK, FreshInv, BodyInv, OwnInv, DeletedStaysDeleted, Refused
<1>6. PatchesCompose'
  BY <1>1 DEF IInv, PatchesCompose, Naming, Stored
<1>7. ReadInv'
  BY <1>1, <1>2, <1>3 DEF IInv, TypeOK, ReadInv, Naming
<1> QED
  BY <1>4, <1>5, <1>6, <1>7 DEF IInv

\* The id given to a new widget is in nobody's hands yet.
LEMMA InsertKeeps ==
    ASSUME IInv, NEW r \in Calls, Insert(r)
    PROVE  IInv'
<1> USE DEF table, request
<1>1. PICK w \in Widgets, row \in NewRows :
          /\ owner_id[w] = NoOwner
          /\ owner_id' = [owner_id EXCEPT ![w] = by[r]]
          /\ widgets' = widgets \union {w}
          /\ column' = [column EXCEPT ![w] = row]
          /\ made' = [made EXCEPT ![w] = row]
          /\ target' = [target EXCEPT ![r] = w]
  BY DEF Insert
<1>2. /\ pc[r] = "insert" /\ status[r] = 0 /\ r \notin patched
      /\ pc' = [pc EXCEPT ![r] = "refresh"]
      /\ UNCHANGED <<patched, request, loaded, status>>
  BY DEF IInv, FreshInv, Insert, Goto
<1>3. row \in Rows /\ by[r] \in Owners /\ by[r] # NoOwner
  BY NothingAssumption DEF IInv, TypeOK, NewRows
<1>4. \A q \in Calls :
         \/ pc[q] \in {"write", "remove", "refresh"}
         \/ status[q] \in {200, 201, 204}
         \/ q \in patched
         => target[q] # w /\ q # r
  BY <1>1, <1>2, NothingAssumption DEF IInv, TypeOK, OwnInv
<1>5. TypeOK'
  BY <1>1, <1>2, <1>3 DEF IInv, TypeOK
<1>6. FreshInv' /\ BodyInv'
  BY <1>2 DEF IInv, TypeOK, FreshInv, BodyInv, Refused
<1>7. OwnInv'
  BY <1>1, <1>2, <1>3, <1>4 DEF IInv, TypeOK, OwnInv
<1>8. DeletedStaysDeleted'
  BY <1>1, <1>2, <1>4 DEF IInv, TypeOK, DeletedStaysDeleted
<1>9. \A v \in Widgets, c \in Columns :
         /\ Naming(v, c)' = Naming(v, c)
         /\ v = w => Naming(v, c) = {}
  BY <1>1, <1>2, <1>4 DEF IInv, TypeOK, Naming
<1>10. PatchesCompose'
  <2> SUFFICES ASSUME NEW v \in Widgets, NEW c \in Columns
               PROVE  IF Naming(v, c)' = {}
                      THEN column'[v][c] = made'[v][c]
                      ELSE \E q \in Naming(v, c)' :
                              column'[v][c] = Stored(body'[q], c)
    BY DEF PatchesCompose, Stored
  <2>1. CASE v = w
    BY <2>1, <1>1, <1>9 DEF IInv, TypeOK
  <2>2. CASE v # w
    BY <2>2, <1>1, <1>2, <1>9 DEF IInv, TypeOK, PatchesCompose
  <2> QED
    BY <2>1, <2>2
<1>11. ReadInv'
  BY <1>1, <1>2, <1>4, <1>9 DEF IInv, TypeOK, OwnInv, ReadInv
<1> QED
  BY <1>5, <1>6, <1>7, <1>8, <1>10, <1>11 DEF IInv

\* The read of a PATCH: a column nobody has patched is as it was created.
LEMMA LoadPatchKeeps ==
    ASSUME IInv, NEW r \in Calls, LoadPatch(r)
    PROVE  IInv'
<1> USE DEF table, request
<1>1. UNCHANGED <<table, patched, request, target>>
  BY DEF LoadPatch
<1>2. /\ pc[r] = "load" /\ op[r] = "patch" /\ status[r] = 0
      /\ target[r] \in Widgets /\ owner_id[target[r]] = by[r]
  BY DEF IInv, FreshInv, OwnInv, LoadPatch, owned
<1>3. \/ /\ pc' = [pc EXCEPT ![r] = "done"]
         /\ \E s \in {422, 500} : status' = [status EXCEPT ![r] = s]
         /\ loaded' = loaded
      \/ /\ pc' = [pc EXCEPT ![r] = "write"]
         /\ status' = status
         /\ loaded' = [loaded EXCEPT ![r] = column[target[r]]]
  BY DEF LoadPatch, Goto, Answer
<1>4. TypeOK'
  BY <1>1, <1>2, <1>3 DEF IInv, TypeOK
<1>5. FreshInv' /\ BodyInv' /\ OwnInv' /\ DeletedStaysDeleted'
  BY <1>1, <1>2, <1>3
     DEF IInv, TypeOK, FreshInv, BodyInv, OwnInv, DeletedStaysDeleted, Refused
<1>6. PatchesCompose'
  BY <1>1 DEF IInv, PatchesCompose, Naming, Stored
<1>7. ReadInv'
  <2> SUFFICES ASSUME NEW q \in Calls, pc'[q] = "write", NEW c \in Columns,
                      Naming(target[q], c) = {}
               PROVE  loaded'[q][c] = made[target[q]][c]
    BY <1>1 DEF ReadInv, Naming
  <2>1. CASE q = r
    BY <2>1, <1>2, <1>3 DEF IInv, TypeOK, PatchesCompose
  <2>2. CASE q # r
    BY <2>2, <1>3 DEF IInv, TypeOK, ReadInv
  <2> QED
    BY <2>1, <2>2
<1> QED
  BY <1>4, <1>5, <1>6, <1>7 DEF IInv

\* The commit of a PATCH.
LEMMA WriteKeeps ==
    ASSUME IInv, NEW r \in Calls, Write(r)
    PROVE  IInv'
<1> USE DEF table, request
<1> DEFINE w == target[r]
<1>1. /\ pc[r] = "write" /\ status[r] = 0
      /\ w \in Widgets /\ owner_id[w] = by[r]
      /\ body[r] \in Bodies /\ ~Refused(body[r])
      /\ UNCHANGED <<widgets, owner_id, made, request, target, loaded>>
  BY DEF IInv, FreshInv, OwnInv, BodyInv, Write
<1>2. CASE /\ pc' = [pc EXCEPT ![r] = "done"]
           /\ status' = [status EXCEPT ![r] = 500]
           /\ UNCHANGED <<column, patched>>
  <2>1. TypeOK'
    BY <1>1, <1>2 DEF IInv, TypeOK
  <2>2. FreshInv' /\ BodyInv' /\ OwnInv' /\ DeletedStaysDeleted'
    BY <1>1, <1>2
       DEF IInv, TypeOK, FreshInv, BodyInv, OwnInv, DeletedStaysDeleted,
           Refused
  <2>3. PatchesCompose'
    BY <1>1, <1>2 DEF IInv, PatchesCompose, Naming, Stored
  <2>4. ReadInv'
    BY <1>1, <1>2 DEF IInv, TypeOK, ReadInv, Naming
  <2> QED
    BY <2>1, <2>2, <2>3, <2>4 DEF IInv
<1>3. CASE /\ pc' = [pc EXCEPT ![r] = "refresh"]
           /\ status' = status
           /\ column' = [column EXCEPT ![w] = Overwrite(@, written(r))]
           /\ patched' = patched \union {r}
  <2>1. \A c \in Columns : column'[w][c] =
           IF c \in DOMAIN body[r] /\ Stored(body[r], c) # loaded[r][c]
           THEN Stored(body[r], c) ELSE column[w][c]
    BY <1>1, <1>3, OverwriteColumn DEF IInv, TypeOK
  <2>2. Overwrite(column[w], written(r)) \in Rows
    <3>1. ASSUME NEW c \in Columns
          PROVE  Overwrite(column[w], written(r))[c] \in Values
      <4>1. column[w] \in Rows
        BY <1>1 DEF IInv, TypeOK
      <4>2. column[w][c] \in Values
        BY <4>1 DEF Rows
      <4>3. c \in DOMAIN body[r] => Stored(body[r], c) \in Values
        BY <1>1, StoredIsValue
      <4> QED
        BY <4>2, <4>3, OverwriteColumn
    <3> QED
      BY <3>1 DEF Overwrite, Rows
  <2>3. TypeOK'
    BY <1>1, <1>3, <2>2 DEF IInv, TypeOK
  <2>4. FreshInv' /\ BodyInv' /\ OwnInv' /\ DeletedStaysDeleted'
    BY <1>1, <1>3
       DEF IInv, TypeOK, FreshInv, BodyInv, OwnInv, DeletedStaysDeleted,
           Refused
  <2>5. \A v \in Widgets, c \in Columns :
           Naming(v, c)' = IF v = w /\ c \in DOMAIN body[r]
                           THEN Naming(v, c) \union {r} ELSE Naming(v, c)
    BY <1>1, <1>3 DEF IInv, TypeOK, Naming
  <2>6. PatchesCompose'
    <3> SUFFICES ASSUME NEW v \in Widgets, NEW c \in Columns
                 PROVE  IF Naming(v, c)' = {}
                        THEN column'[v][c] = made'[v][c]
                        ELSE \E q \in Naming(v, c)' :
                                column'[v][c] = Stored(body[q], c)
      BY <1>1 DEF PatchesCompose, Stored
    <3>0. IF Naming(v, c) = {}
          THEN column[v][c] = made[v][c]
          ELSE \E q \in Naming(v, c) : column[v][c] = Stored(body[q], c)
      BY DEF IInv, PatchesCompose
    <3>1. CASE ~(v = w /\ c \in DOMAIN body[r])
      <4>1. Naming(v, c)' = Naming(v, c)
        BY <2>5, <3>1
      <4>2. column'[v][c] = column[v][c]
        BY <1>1, <1>3, <2>1, <3>1 DEF IInv, TypeOK
      <4> QED
        BY <1>1, <4>1, <4>2, <3>0
    <3>2. CASE v = w /\ c \in DOMAIN body[r]
      <4>1. Naming(v, c)' = Naming(v, c) \union {r}
        BY <2>5, <3>2
      <4>2. CASE Stored(body[r], c) # loaded[r][c]
        BY <4>1, <4>2, <2>1, <3>2
      <4>3. CASE Stored(body[r], c) = loaded[r][c]
        <5>1. column'[v][c] = column[v][c]
          BY <4>3, <2>1, <3>2
        <5>2. CASE Naming(v, c) = {}
          <6>1. loaded[r][c] = made[w][c]
            BY <1>1, <3>2, <5>2 DEF IInv, ReadInv
          <6> QED
            BY <6>1, <5>1, <5>2, <4>1, <4>3, <3>0, <3>2
        <5>3. CASE Naming(v, c) # {}
          BY <5>1, <5>3, <4>1, <3>0
        <5> QED
          BY <5>2, <5>3
      <4> QED
        BY <4>2, <4>3
    <3> QED
      BY <3>1, <3>2
  <2>7. ReadInv'
    BY <1>1, <1>3, <2>5 DEF IInv, TypeOK, OwnInv, ReadInv
  <2> QED
    BY <2>3, <2>4, <2>6, <2>7 DEF IInv
<1> QED
  BY <1>2, <1>3 DEF Write, Answer, Goto

\* The commit of a DELETE.
LEMMA RemoveKeeps ==
    ASSUME IInv, NEW r \in Calls, Remove(r)
    PROVE  IInv'
<1> USE DEF table, request
<1>1. /\ pc[r] = "remove" /\ status[r] = 0
      /\ target[r] \in Widgets /\ owner_id[target[r]] = by[r]
      /\ widgets' = widgets \ {target[r]}
      /\ status' = [status EXCEPT ![r] = 204]
      /\ pc' = [pc EXCEPT ![r] = "done"]
      /\ UNCHANGED <<column, owner_id, made, patched, request, target, loaded>>
  BY DEF IInv, FreshInv, OwnInv, Remove, Answer
<1>2. TypeOK'
  BY <1>1 DEF IInv, TypeOK
<1>3. FreshInv' /\ BodyInv' /\ OwnInv' /\ DeletedStaysDeleted'
  BY <1>1 DEF IInv, TypeOK, FreshInv, BodyInv, OwnInv, DeletedStaysDeleted,
              Refused
<1>4. PatchesCompose'
  BY <1>1 DEF IInv, PatchesCompose, Naming, Stored
<1>5. ReadInv'
  BY <1>1 DEF IInv, TypeOK, ReadInv, Naming
<1> QED
  BY <1>2, <1>3, <1>4, <1>5 DEF IInv

LEMMA Inductive == IInv /\ [Next]_vars => IInv'
<1> SUFFICES ASSUME IInv, [Next]_vars PROVE IInv'
  OBVIOUS
<1>1. CASE UNCHANGED vars
  BY <1>1 DEF vars, table, request, IInv, TypeOK, FreshInv, BodyInv, OwnInv,
              ReadInv, PatchesCompose, DeletedStaysDeleted, Naming, Stored,
              Refused
<1>2. CASE Next
  <2>1. PICK r \in Calls :
           \/ ReceiveCreate(r) \/ ReceiveOther(r) \/ ReceivePatch(r)
           \/ Insert(r)
           \/ LoadMissing(r) \/ LoadGet(r) \/ LoadDelete(r) \/ LoadPatch(r)
           \/ Write(r) \/ Refresh(r) \/ Remove(r)
    BY <1>2 DEF Next
  <2> QED
    BY <2>1, ReceiveKeeps, InsertKeeps, AnswerKeeps, LoadPatchKeeps,
       WriteKeeps, RemoveKeeps
<1> QED
  BY <1>1, <1>2

THEOREM AlwaysInv == Spec => []IInv
  BY InitInv, Inductive, PTL DEF Spec

\* Every variable keeps its type, for any calls, owners, widgets and bodies.
THEOREM TypeCorrect == Spec => []TypeOK
<1>1. IInv => TypeOK
  BY DEF IInv
<1> QED
  BY <1>1, AlwaysInv, PTL

\* Concurrent PATCH calls of update_widget never undo each other's columns,
\* though each writes from a row it read before the others committed.
THEOREM Composition == Spec => []PatchesCompose
<1>1. IInv => PatchesCompose
  BY DEF IInv
<1> QED
  BY <1>1, AlwaysInv, PTL

\* No PATCH that read a widget before its DELETE brings it back.
THEOREM Deletion == Spec => []DeletedStaysDeleted
<1>1. IInv => DeletedStaysDeleted
  BY DEF IInv
<1> QED
  BY <1>1, AlwaysInv, PTL

\* The owner's scope of the first query covers the later write, which finds
\* the row by its id alone.
THEOREM Isolation == Spec => []TenantsApart
<1>1. IInv => TenantsApart
  BY DEF IInv, OwnInv, TenantsApart
<1> QED
  BY <1>1, AlwaysInv, PTL

=============================================================================
