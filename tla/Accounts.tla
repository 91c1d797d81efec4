------------------------------- MODULE Accounts -------------------------------
(***************************************************************************)
(* Owners and the tokens that speak for them: registration and login of    *)
(* app/api/auth.py, get_current_owner of app/deps.py, and the seed that    *)
(* runs each time the server starts (app/seed.py), with --wipe in the      *)
(* container (Dockerfile) and without it under run.sh.                     *)
(*                                                                         *)
(* Nothing links an issued token to the database but the id of its owner:  *)
(* tokens outlive restarts and wipes.  An owner is named by the            *)
(* registration, or by the start of the server, that created it.           *)
(***************************************************************************)

CONSTANTS
    Calls,          \* calls of POST /api/auth/register
    Seeds,          \* owners the seed may create; bounds the wipes
    Persons,        \* who uses the API; each has a password of its own
    Boxes,          \* mailboxes
    DemoBox,        \* demo@example.com
    DemoPassword,   \* printed by the seed and in the README, so known to all
    NoAddress,
    NoPassword,
    NoCall

Ids == Calls \union Seeds
Passwords == Persons \union {DemoPassword}
Knows(p) == {p, DemoPassword}

\* An address as typed; plain when it is already stripped and in lower case.
Addresses == [box : Boxes, plain : BOOLEAN]
Stored == {a \in Addresses : a.plain}
DemoAddress == [box |-> DemoBox, plain |-> TRUE]

ASSUME NamesAssumption ==
    /\ Calls \intersect Seeds = {}
    /\ DemoBox \in Boxes
    /\ DemoPassword \notin Persons
    /\ NoAddress \notin Addresses
    /\ NoPassword \notin Passwords

VARIABLES
    owners,     \* the rows of the owners table
    email,      \* their columns, kept when the row goes (an id is a uuid and
    password,   \* is never used again); password_hash fits one password only
    tokens,     \* the tokens out there
    pc,         \* where the handler of each registration is
    asked,      \* what it was asked
    reply,      \* the status it answered; 0 for none yet
    wiped,      \* owners deleted by a --wipe (history)
    acted       \* who was last answered as which owner (history)

table == <<owners, email, password>>
vars == <<table, tokens, pc, asked, reply, wiped, acted>>

\* Where a registration is that the server has not answered.
Handling == {"lookup", "insert", "respond"}

Requests == [by : Persons, address : Addresses, password : Passwords]
Tokens == [sub : Ids, email : Stored, holder : Persons]

\* The database as the first migration leaves it; the first start of the
\* server may or may not have gone through the seed.
Init ==
    /\ owners = {}
    /\ email = [i \in Ids |-> NoAddress]
    /\ password = [i \in Ids |-> NoPassword]
    /\ tokens = {}
    /\ pc = [r \in Calls |-> "idle"]
    /\ asked = [r \in Calls |-> NoCall]
    /\ reply = [r \in Calls |-> 0]
    /\ wiped = {}
    /\ acted = {}

Taken(a) == \E i \in owners : email[i] = a

\* Variant: the address is stored as typed.
normalised_AsTyped(a) == a

\* The validator of RegisterIn: v.strip().lower().
normalised(a) == [a EXCEPT !.plain = TRUE]

Answer(r, status) ==
    /\ reply' = [reply EXCEPT ![r] = status]
    /\ pc' = [pc EXCEPT ![r] = "done"]

\* _token_payload: the caller is told who it is and given a token.
Issue(p, i, a) ==
    /\ tokens' = tokens \union {[sub |-> i, email |-> a, holder |-> p]}
    /\ acted' = {<<p, i>>}

Receive(r) ==
    /\ pc[r] = "idle"
    /\ \E q \in Requests :
          /\ q.password \in Knows(q.by)
          /\ asked' = [asked EXCEPT ![r] = q]
    /\ pc' = [pc EXCEPT ![r] = "lookup"]
    /\ UNCHANGED <<table, tokens, reply, wiped, acted>>

\* _owner_by_email.
Lookup(r) ==
    /\ pc[r] = "lookup"
    /\ IF Taken(normalised(asked[r].address))
       THEN Answer(r, 409)
       ELSE pc' = [pc EXCEPT ![r] = "insert"] /\ UNCHANGED reply
    /\ UNCHANGED <<table, tokens, asked, wiped, acted>>

\* Variant: the loser of a race is answered like the winner.
Lose_Created(r) == Answer(r, 201)

\* The IntegrityError of a registration that lost the race is rolled back.
Lose(r) == Answer(r, 409)

\* Variant: owners.email is not UNIQUE.
Collides_Never(a) == FALSE

\* UNIQUE(owners.email).
Collides(a) == Taken(a)

\* db.add and db.commit: the owner is there before its token is.
Insert(r) ==
    LET a == normalised(asked[r].address) IN
    /\ pc[r] = "insert"
    /\ \/ /\ Collides(a)
          /\ Lose(r)
          /\ UNCHANGED table
       \/ /\ ~Collides(a)
          /\ owners' = owners \union {r}
          /\ email' = [email EXCEPT ![r] = a]
          /\ password' = [password EXCEPT ![r] = asked[r].password]
          /\ pc' = [pc EXCEPT ![r] = "respond"]
          /\ UNCHANGED reply
    /\ UNCHANGED <<tokens, asked, wiped, acted>>

\* The refresh and the answer; while the server runs nothing deletes an owner,
\* so the row is found.
Respond(r) ==
    /\ pc[r] = "respond"
    /\ Issue(asked[r].by, r, email[r])
    /\ Answer(r, 201)
    /\ UNCHANGED <<table, asked, wiped>>

verify_password(s, i) == s = password[i]

\* login, which compares the address as typed.  A refused login, answered
\* with 401, changes nothing.
Login(p) ==
    /\ \E i \in owners, a \in Addresses, s \in Knows(p) :
          /\ email[i] = a
          /\ verify_password(s, i)
          /\ Issue(p, i, a)
    /\ UNCHANGED <<table, pc, asked, reply, wiped>>

\* Variant: the owner is looked up by the email of the token.
claimed_ByEmail(k) == {i \in owners : email[i] = k.email}

\* db.get(Owner, payload["sub"]).
claimed(k) == {i \in owners : i = k.sub}

\* An authenticated call, answered as the owner of its token.  Without that
\* owner, and past the exp of the token, it is a 401, which changes nothing.
Call(k) ==
    /\ \E i \in claimed(k) : acted' = {<<k.holder, i>>}
    /\ UNCHANGED <<table, tokens, pc, asked, reply, wiped>>

\* The owners a seed deletes: all of them if it wipes and finds the demo
\* owner; without the demo owner a wipe deletes only the submissions.
deleted(wipe) == IF wipe /\ Taken(DemoAddress) THEN owners ELSE {}

\* The server ends, with it every registration it has not answered, and
\* starts again through the seed, whose one commit deletes and creates.
Restart(wipe) ==
    /\ pc' = [r \in Calls |-> IF pc[r] \in Handling THEN "lost" ELSE pc[r]]
    /\ \/ /\ Taken(DemoAddress)
          /\ ~wipe
          /\ UNCHANGED <<table, wiped>>
       \/ /\ ~Taken(DemoAddress) \/ wipe
          /\ \E d \in Seeds :
                /\ email[d] = NoAddress
                /\ owners' = (owners \ deleted(wipe)) \union {d}
                /\ email' = [email EXCEPT ![d] = DemoAddress]
                /\ password' = [password EXCEPT ![d] = DemoPassword]
          /\ wiped' = wiped \union deleted(wipe)
    /\ UNCHANGED <<tokens, asked, reply, acted>>

Next ==
    \/ \E r \in Calls : Receive(r) \/ Lookup(r) \/ Insert(r) \/ Respond(r)
    \/ \E p \in Persons : Login(p)
    \/ \E k \in tokens : Call(k)
    \/ \E wipe \in BOOLEAN : Restart(wipe)

Spec == Init /\ [][Next]_vars

-----------------------------------------------------------------------------
(* Properties.                                                             *)

TypeOK ==
    /\ owners \in SUBSET Ids
    /\ email \in [Ids -> Stored \union {NoAddress}]
    /\ password \in [Ids -> Passwords \union {NoPassword}]
    /\ tokens \in SUBSET Tokens
    /\ pc \in [Calls -> Handling \union {"idle", "done", "lost"}]
    /\ asked \in [Calls -> Requests \union {NoCall}]
    /\ reply \in [Calls -> {0, 201, 409}]
    /\ wiped \in SUBSET Ids
    /\ acted \in SUBSET (Persons \X Ids)

\* Whoever is answered as an owner knows that owner's password: a token that
\* outlives a wipe never speaks for the one who registers its address next,
\* nor for the new demo owner, and no race or restart hands out a token for
\* another's account.
AuthenticatedAsSelf ==
    \A w \in acted : password[w[2]] \in Knows(w[1])

\* One owner per mailbox, however its address is typed and however many
\* registrations and starts of the server race for it.
OneOwnerPerBox ==
    \A i, j \in owners : email[i].box = email[j].box => i = j

\* The owner a registration has created, answered with 201 or lost with the
\* server between the commit and the answer, has the address and password it
\* sent, and only a wipe deletes it.  A registration answered with 409 created
\* none, and had been preceded by another owner of the address.
RegistrationsAgree ==
    \A r \in Calls :
        /\ reply[r] = 201 => r \in owners \union wiped
        /\ r \in owners \union wiped =>
              /\ email[r].box = asked[r].address.box
              /\ password[r] = asked[r].password
        /\ reply[r] = 409 =>
              /\ r \notin owners \union wiped
              /\ \E i \in owners \union wiped :
                    email[i].box = asked[r].address.box

=============================================================================
