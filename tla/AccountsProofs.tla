---------------------------- MODULE AccountsProofs ----------------------------
(***************************************************************************)
(* Theorems about owners and their tokens, for any number of               *)
(* registrations, persons, mailboxes, restarts and wipes.                  *)
(***************************************************************************)
EXTENDS Accounts, TLAPS

\* Whose password is known by whom is settled when the owner is created, from
\* what its registration was asked: an id is given out once and its columns
\* never change.  A registration to be answered with 201 has its owner.
Settled ==
    /\ \A r \in Calls :
          \/ pc[r] \in Handling \union {"idle", "lost"} /\ reply[r] = 0
          \/ pc[r] = "done" /\ reply[r] \in {201, 409}
    /\ \A r \in Calls :
          pc[r] # "idle" => /\ asked[r] \in Requests
                            /\ asked[r].password \in Knows(asked[r].by)
    /\ \A r \in Calls :
          /\ pc[r] \in {"idle", "lookup", "insert"} \/ reply[r] = 409 =>
                email[r] = NoAddress
          /\ email[r] # NoAddress =>
                /\ email[r] = normalised(asked[r].address)
                /\ password[r] = asked[r].password
          /\ pc[r] = "respond" => r \in owners
    /\ \A i \in owners \union wiped : email[i] # NoAddress

\* What an owner id handed out to a person is worth.
Known(p, i) == email[i] # NoAddress /\ password[i] \in Knows(p)

Secrets ==
    /\ \A k \in tokens : Known(k.holder, k.sub)
    /\ \A w \in acted : w \in Persons \X Ids /\ Known(w[1], w[2])

LEMMA NormalisedIsStored ==
    ASSUME NEW a \in Addresses
    PROVE  normalised(a) \in Stored /\ normalised(a).box = a.box
BY DEF Addresses, Stored, normalised

LEMMA DemoIsStored == DemoAddress \in Stored
BY NamesAssumption DEF DemoAddress, Stored, Addresses

LEMMA StoredIsAddress == NoAddress \notin Stored
BY NamesAssumption DEF Stored

LEMMA InitInv == Init => TypeOK /\ Settled /\ Secrets
<1> SUFFICES ASSUME Init PROVE TypeOK /\ Settled /\ Secrets
  OBVIOUS
<1>1. TypeOK
  BY DEF Init, TypeOK
<1>2. Settled
  BY DEF Init, Settled, Ids, Handling
<1>3. Secrets
  BY DEF Init, Secrets
<1> QED
  BY <1>1, <1>2, <1>3

LEMMA IssueType ==
    ASSUME TypeOK, NEW p \in Persons, NEW i \in Ids, NEW a \in Stored,
           Issue(p, i, a)
    PROVE  tokens' \in SUBSET Tokens /\ acted' \in SUBSET (Persons \X Ids)
<1>1. [sub |-> i, email |-> a, holder |-> p] \in Tokens
  BY DEF Tokens
<1>2. <<p, i>> \in Persons \X Ids
  OBVIOUS
<1> QED
  BY <1>1, <1>2 DEF Issue, TypeOK

\* What each action leaves of a row that exists.
LEMMA ColumnsStay ==
    ASSUME TypeOK, Settled, [Next]_vars, NEW i \in Ids, email[i] # NoAddress
    PROVE  email'[i] = email[i] /\ password'[i] = password[i]
<1>1. ASSUME NEW r \in Calls, Insert(r)
      PROVE  email'[i] = email[i] /\ password'[i] = password[i]
  <2>1. i # r
    BY <1>1 DEF Insert, Settled
  <2> QED
    BY <1>1, <2>1 DEF Insert, TypeOK, table
<1>2. ASSUME NEW wipe \in BOOLEAN, Restart(wipe)
      PROVE  email'[i] = email[i] /\ password'[i] = password[i]
  BY <1>2 DEF Restart, TypeOK, table
<1>3. CASE UNCHANGED table
  BY <1>3 DEF table
<1> QED
  BY <1>1, <1>2, <1>3
  DEF Next, Receive, Lookup, Respond, Login, Call, vars

LEMMA NextType == TypeOK /\ Settled /\ [Next]_vars => TypeOK'
<1> SUFFICES ASSUME TypeOK, Settled, [Next]_vars PROVE TypeOK'
  OBVIOUS
<1>1. ASSUME NEW r \in Calls, Receive(r) PROVE TypeOK'
  BY <1>1 DEF Receive, TypeOK, table, Handling
<1>2. ASSUME NEW r \in Calls, Lookup(r) PROVE TypeOK'
  BY <1>2 DEF Lookup, Answer, TypeOK, table, Handling
<1>3. ASSUME NEW r \in Calls, Insert(r) PROVE TypeOK'
  <2> DEFINE a == normalised(asked[r].address)
  <2>1. a \in Stored /\ asked[r].password \in Passwords /\ r \in Ids
    BY <1>3, NormalisedIsStored DEF Insert, Settled, Requests, Ids
  <2>2. CASE Lose(r) /\ UNCHANGED table
    BY <1>3, <2>2 DEF Insert, Lose, Answer, TypeOK, table
  <2>3. CASE /\ owners' = owners \union {r}
             /\ email' = [email EXCEPT ![r] = a]
             /\ password' = [password EXCEPT ![r] = asked[r].password]
             /\ pc' = [pc EXCEPT ![r] = "respond"]
             /\ UNCHANGED reply
    BY <1>3, <2>1, <2>3 DEF Insert, TypeOK, Handling
  <2> QED
    BY <1>3, <2>2, <2>3 DEF Insert
<1>8. ASSUME NEW r \in Calls, Respond(r) PROVE TypeOK'
  <2>1. /\ email[r] \in Stored
        /\ asked[r].by \in Persons
        /\ r \in Ids
    BY <1>8 DEF Respond, TypeOK, Settled, Requests, Ids
  <2>2. tokens' \in SUBSET Tokens /\ acted' \in SUBSET (Persons \X Ids)
    BY <1>8, <2>1, IssueType DEF Respond
  <2> QED
    BY <1>8, <2>2 DEF Respond, Answer, TypeOK, table
<1>4. ASSUME NEW p \in Persons, Login(p) PROVE TypeOK'
  <2>1. PICK i \in owners : Issue(p, i, email[i])
    BY <1>4 DEF Login
  <2>2. i \in Ids /\ email[i] \in Stored
    BY DEF TypeOK, Settled
  <2>3. tokens' \in SUBSET Tokens /\ acted' \in SUBSET (Persons \X Ids)
    BY <2>1, <2>2, IssueType
  <2> QED
    BY <1>4, <2>3 DEF Login, TypeOK, table
<1>5. ASSUME NEW k \in tokens, Call(k) PROVE TypeOK'
  <2>1. PICK i \in owners : acted' = {<<k.holder, i>>}
    BY <1>5 DEF Call, claimed
  <2>2. k.holder \in Persons /\ i \in Ids
    BY DEF TypeOK, Tokens
  <2>3. acted' \in SUBSET (Persons \X Ids)
    BY <2>1, <2>2
  <2> QED
    BY <1>5, <2>3 DEF Call, TypeOK, table
<1>6. ASSUME NEW wipe \in BOOLEAN, Restart(wipe) PROVE TypeOK'
  <2>1. deleted(wipe) \in SUBSET Ids
    BY DEF deleted, TypeOK
  <2>2. /\ owners' \in SUBSET Ids
        /\ email' \in [Ids -> Stored \union {NoAddress}]
        /\ password' \in [Ids -> Passwords \union {NoPassword}]
        /\ wiped' \in SUBSET Ids
    BY <1>6, <2>1, DemoIsStored DEF Restart, TypeOK, table, Ids, Passwords
  <2> QED
    BY <1>6, <2>2 DEF Restart, TypeOK, Handling
<1>7. CASE UNCHANGED vars
  BY <1>7 DEF TypeOK, vars, table
<1> QED
  BY <1>1, <1>2, <1>3, <1>4, <1>5, <1>6, <1>7, <1>8 DEF Next

LEMMA NextSettled == TypeOK /\ Settled /\ [Next]_vars => Settled'
<1> SUFFICES ASSUME TypeOK, Settled, [Next]_vars PROVE Settled'
  OBVIOUS
<1>1. ASSUME NEW r \in Calls, Receive(r) PROVE Settled'
  BY <1>1 DEF Receive, TypeOK, Settled, table, Handling
<1>2. ASSUME NEW r \in Calls, Lookup(r) PROVE Settled'
  BY <1>2 DEF Lookup, Answer, TypeOK, Settled, table, Handling
<1>3. ASSUME NEW r \in Calls, Insert(r) PROVE Settled'
  <2> DEFINE a == normalised(asked[r].address)
  <2>1. a # NoAddress
    BY <1>3, NormalisedIsStored, StoredIsAddress DEF Insert, Settled, Requests
  <2>2. r \in Ids
    BY DEF Ids
  <2>3. CASE Lose(r) /\ UNCHANGED table
    BY <1>3, <2>3 DEF Insert, Lose, Answer, TypeOK, Settled, table, Handling
  <2>4. CASE /\ owners' = owners \union {r}
             /\ email' = [email EXCEPT ![r] = a]
             /\ password' = [password EXCEPT ![r] = asked[r].password]
             /\ pc' = [pc EXCEPT ![r] = "respond"]
             /\ UNCHANGED reply
    BY <1>3, <2>1, <2>2, <2>4 DEF Insert, TypeOK, Settled, Handling
  <2> QED
    BY <1>3, <2>3, <2>4 DEF Insert
<1>4. ASSUME NEW wipe \in BOOLEAN, Restart(wipe) PROVE Settled'
  <2>1. Calls \intersect Seeds = {} /\ DemoAddress # NoAddress
    BY NamesAssumption, DemoIsStored, StoredIsAddress
  <2>2. deleted(wipe) \subseteq owners
    BY DEF deleted
  <2>3. \A i \in Ids : email[i] # NoAddress => email'[i] # NoAddress
    BY <1>4, <2>1 DEF Restart, TypeOK, table
  <2>4. \A r \in Calls : email'[r] = email[r] /\ password'[r] = password[r]
    BY <1>4, <2>1 DEF Restart, TypeOK, table, Ids
  <2>5. \A i \in owners' \union wiped' : email'[i] # NoAddress
    <3>1. CASE UNCHANGED <<table, wiped>>
      BY <3>1 DEF Settled, table
    <3>2. ASSUME NEW d \in Seeds,
                 owners' = (owners \ deleted(wipe)) \union {d},
                 email' = [email EXCEPT ![d] = DemoAddress],
                 wiped' = wiped \union deleted(wipe)
          PROVE  \A i \in owners' \union wiped' : email'[i] # NoAddress
      BY <2>1, <2>2, <3>2 DEF Settled, TypeOK, Ids
    <3> QED
      BY <1>4, <3>1, <3>2 DEF Restart
  <2> QED
    BY <1>4, <2>4, <2>5 DEF Restart, TypeOK, Settled, Handling
<1>5. CASE UNCHANGED vars
  BY <1>5 DEF Settled, vars, table
<1>6. ASSUME NEW p \in Persons, Login(p) PROVE Settled'
  BY <1>6 DEF Login, Settled, table
<1>7. ASSUME NEW k \in tokens, Call(k) PROVE Settled'
  BY <1>7 DEF Call, Settled, table
<1>8. ASSUME NEW r \in Calls, Respond(r) PROVE Settled'
  BY <1>8 DEF Respond, Answer, TypeOK, Settled, table, Handling
<1> QED
  BY <1>1, <1>2, <1>3, <1>4, <1>5, <1>6, <1>7, <1>8 DEF Next

\* Type correctness of the accounts.
THEOREM TypeCorrect == Spec => []TypeOK
BY InitInv, NextType, NextSettled, PTL DEF Spec

\* A token is handed only to one who has just proved to know the password of
\* the owner it names, and neither ever changes.
LEMMA NextSecrets == TypeOK /\ Settled /\ Secrets /\ [Next]_vars => Secrets'
<1> SUFFICES ASSUME TypeOK, Settled, Secrets, [Next]_vars PROVE Secrets'
  OBVIOUS
<1>1. ASSUME NEW p \in Persons, NEW i \in Ids, Known(p, i)
      PROVE  Known(p, i)'
  BY <1>1, ColumnsStay DEF Known
<1>2. /\ \A k \in tokens : k.holder \in Persons /\ k.sub \in Ids
      /\ \A w \in acted : w[1] \in Persons /\ w[2] \in Ids
  BY DEF TypeOK, Tokens, Secrets
<1>3. ASSUME NEW p \in Persons, NEW i \in Ids, NEW a \in Stored,
             Issue(p, i, a), Known(p, i)'
      PROVE  Secrets'
  <2>1. [sub |-> i, email |-> a, holder |-> p].holder = p
        /\ [sub |-> i, email |-> a, holder |-> p].sub = i
    OBVIOUS
  <2>2. \A k \in tokens' : Known(k.holder, k.sub)'
    BY <1>1, <1>2, <1>3, <2>1 DEF Issue, Secrets
  <2>3. \A w \in acted' : w \in Persons \X Ids /\ Known(w[1], w[2])'
    BY <1>3 DEF Issue
  <2> QED
    BY <2>2, <2>3 DEF Secrets
<1>4. CASE UNCHANGED <<tokens, acted>>
  BY <1>1, <1>2, <1>4 DEF Secrets
<1>5. ASSUME NEW r \in Calls, Respond(r) PROVE Secrets'
  <2>1. /\ asked[r].by \in Persons /\ email[r] \in Stored /\ r \in Ids
        /\ Known(asked[r].by, r)
    BY <1>5 DEF Respond, TypeOK, Settled, Requests, Ids, Known
  <2>2. Known(asked[r].by, r)'
    <3>1. asked' = asked
      BY <1>5 DEF Respond
    <3> QED
      BY <1>1, <2>1, <3>1
  <2>3. Issue(asked[r].by, r, email[r]) /\ asked' = asked
    BY <1>5 DEF Respond
  <2> QED
    BY <1>3, <2>1, <2>2, <2>3
<1>6. ASSUME NEW p \in Persons, Login(p) PROVE Secrets'
  <2>1. PICK i \in owners : Issue(p, i, email[i])
                             /\ password[i] \in Knows(p)
    BY <1>6 DEF Login, verify_password
  <2>2. i \in Ids /\ email[i] \in Stored /\ Known(p, i)
    BY <2>1 DEF TypeOK, Settled, Known
  <2> QED
    BY <1>1, <1>3, <2>1, <2>2
<1>7. ASSUME NEW k \in tokens, Call(k) PROVE Secrets'
  <2>1. acted' = {<<k.holder, k.sub>>} /\ tokens' = tokens
    BY <1>7 DEF Call, claimed
  <2>2. Known(k.holder, k.sub)'
    BY <1>1, <1>2 DEF Secrets
  <2>3. \A w \in acted' : w \in Persons \X Ids /\ Known(w[1], w[2])'
    BY <1>2, <2>1, <2>2
  <2> QED
    BY <1>1, <1>2, <2>1, <2>3 DEF Secrets
<1> QED
  BY <1>4, <1>5, <1>6, <1>7
  DEF Next, vars, Receive, Lookup, Insert, Restart

\* Whoever is answered as an owner knows that owner's password, whatever
\* restarts, wipes and registrations happened since the token was issued.
THEOREM SelfOnly == Spec => []AuthenticatedAsSelf
<1>1. Secrets => AuthenticatedAsSelf
  BY DEF Secrets, Known, AuthenticatedAsSelf
<1> QED
  BY <1>1, InitInv, NextType, NextSettled, NextSecrets, PTL DEF Spec

LEMMA BoxTaken ==
    ASSUME TypeOK, Settled, NEW a \in Stored, ~Taken(a), NEW i \in owners
    PROVE  email[i].box # a.box
<1>1. email[i] \in Stored
  BY DEF TypeOK, Settled
<1>2. email[i] # a
  BY DEF Taken
<1> QED
  BY <1>1, <1>2 DEF Stored, Addresses

\* However many registrations and starts of the server race for a mailbox, it
\* has one owner.
THEOREM OnePerBox == Spec => []OneOwnerPerBox
<1>1. Init => OneOwnerPerBox
  BY DEF Init, OneOwnerPerBox
<1>2. TypeOK /\ Settled /\ OneOwnerPerBox /\ [Next]_vars => OneOwnerPerBox'
  <2> SUFFICES ASSUME TypeOK, Settled, OneOwnerPerBox, [Next]_vars
               PROVE  OneOwnerPerBox'
    OBVIOUS
  <2>1. ASSUME NEW n \in Ids, NEW a \in Stored, NEW kept \in SUBSET owners,
               \A i \in kept : email[i].box # a.box,
               owners' = kept \union {n},
               email' = [email EXCEPT ![n] = a], n \notin kept
        PROVE  OneOwnerPerBox'
    BY <2>1 DEF OneOwnerPerBox, TypeOK
  <2>2. ASSUME NEW r \in Calls, Insert(r) PROVE OneOwnerPerBox'
    <3> DEFINE a == normalised(asked[r].address)
    <3>1. CASE UNCHANGED table
      BY <3>1 DEF OneOwnerPerBox, table
    <3>2. CASE /\ ~Collides(a)
               /\ owners' = owners \union {r}
               /\ email' = [email EXCEPT ![r] = a]
      <4>1. a \in Stored /\ r \in Ids
        BY <2>2, NormalisedIsStored DEF Insert, Settled, Requests, Ids
      <4>2. r \notin owners
        BY <2>2 DEF Insert, Settled
      <4>3. \A i \in owners : email[i].box # a.box
        BY <3>2, <4>1, BoxTaken DEF Collides
      <4> QED
        BY <2>1, <3>2, <4>1, <4>2, <4>3
    <3> QED
      BY <2>2, <3>1, <3>2 DEF Insert
  <2>3. ASSUME NEW wipe \in BOOLEAN, Restart(wipe) PROVE OneOwnerPerBox'
    <3>1. CASE UNCHANGED table
      BY <3>1 DEF OneOwnerPerBox, table
    <3>2. ASSUME ~Taken(DemoAddress) \/ wipe,
                 NEW d \in Seeds,
                 email[d] = NoAddress,
                 owners' = (owners \ deleted(wipe)) \union {d},
                 email' = [email EXCEPT ![d] = DemoAddress]
          PROVE  OneOwnerPerBox'
      <4>1. d \in Ids /\ d \notin owners
        BY <3>2 DEF Settled, Ids
      <4>2. \A i \in owners \ deleted(wipe) : email[i].box # DemoAddress.box
        <5>1. CASE Taken(DemoAddress)
          BY <3>2, <5>1 DEF deleted
        <5>2. CASE ~Taken(DemoAddress)
          BY <5>2, BoxTaken, DemoIsStored
        <5> QED
          BY <5>1, <5>2
      <4> QED
        BY <2>1, <3>2, <4>1, <4>2, DemoIsStored
    <3> QED
      BY <2>3, <3>1, <3>2 DEF Restart
  <2>4. CASE UNCHANGED table
    BY <2>4 DEF OneOwnerPerBox, table
  <2> QED
    BY <2>2, <2>3, <2>4 DEF Next, Receive, Lookup, Respond, Login, Call, vars
<1> QED
  BY <1>1, <1>2, InitInv, NextType, NextSettled, PTL DEF Spec

LEMMA RowsStay ==
    ASSUME TypeOK, Settled, [Next]_vars
    PROVE  owners \union wiped \subseteq owners' \union wiped'
BY DEF Next, vars, table, Receive, Lookup, Insert, Respond, Login, Call,
       Restart, deleted

\* Nothing that was asked, or answered, changes afterwards.
LEMMA AnswersStay ==
    ASSUME TypeOK, Settled, [Next]_vars, NEW r \in Calls, reply[r] # 0
    PROVE  reply'[r] = reply[r] /\ asked'[r] = asked[r]
<1>1. pc[r] = "done"
  BY DEF Settled, Handling
<1>2. ASSUME NEW c \in Calls,
             Receive(c) \/ Lookup(c) \/ Insert(c) \/ Respond(c)
      PROVE  reply'[r] = reply[r] /\ asked'[r] = asked[r]
  <2>1. c # r
    BY <1>1, <1>2 DEF Receive, Lookup, Insert, Respond
  <2> QED
    BY <1>2, <2>1 DEF Receive, Lookup, Insert, Respond, Lose, Answer, TypeOK
<1> QED
  <2>1. CASE UNCHANGED <<asked, reply>>
    BY <2>1
  <2> QED
    BY <1>2, <2>1 DEF Next, vars, Login, Call, Restart

\* What a registration created is what it was asked for, and what it was
\* answered stays true until a wipe.
THEOREM RegistrationsHold == Spec => []RegistrationsAgree
<1>1. Init => RegistrationsAgree
  <2> SUFFICES ASSUME Init, NEW r \in Calls
               PROVE  /\ reply[r] = 201 => r \in owners \union wiped
                      /\ r \in owners \union wiped =>
                            /\ email[r].box = asked[r].address.box
                            /\ password[r] = asked[r].password
                      /\ reply[r] = 409 =>
                            /\ r \notin owners \union wiped
                            /\ \E i \in owners \union wiped :
                                  email[i].box = asked[r].address.box
    BY DEF RegistrationsAgree
  <2>1. reply[r] = 0
    BY DEF Init
  <2>2. r \notin owners \union wiped
    BY DEF Init
  <2> QED
    BY <2>1, <2>2
<1>2. TypeOK /\ Settled /\ Settled' /\ RegistrationsAgree /\ [Next]_vars
        => RegistrationsAgree'
  <2> SUFFICES ASSUME TypeOK, Settled, Settled', RegistrationsAgree, [Next]_vars,
                      NEW r \in Calls
               PROVE  /\ reply'[r] = 201 => r \in owners' \union wiped'
                      /\ r \in owners' \union wiped' =>
                            /\ email'[r].box = asked'[r].address.box
                            /\ password'[r] = asked'[r].password
                      /\ reply'[r] = 409 =>
                            /\ r \notin owners' \union wiped'
                            /\ \E i \in owners' \union wiped' :
                                  email'[i].box = asked'[r].address.box
    BY DEF RegistrationsAgree
  <2>1. r \in owners' \union wiped' =>
           /\ email'[r].box = asked'[r].address.box
           /\ password'[r] = asked'[r].password
           /\ reply'[r] # 409
    <3>1. pc'[r] # "idle" => asked'[r].address \in Addresses
      BY DEF Settled, Requests
    <3> QED
      BY <3>1, NormalisedIsStored DEF Settled
  <2>2. \A i \in owners \union wiped : email'[i] = email[i]
    BY ColumnsStay DEF TypeOK, Settled
  <2>3. CASE reply[r] # 0
    BY <2>1, <2>2, <2>3, AnswersStay, RowsStay DEF RegistrationsAgree
  <2>4. CASE reply[r] = 0 /\ reply'[r] # 0
    <3>1. Lookup(r) \/ Insert(r) \/ Respond(r)
      BY <2>4 DEF Next, vars, Receive, Lookup, Insert, Respond, Lose, Answer,
                  Login, Call, Restart, TypeOK
    <3> DEFINE a == normalised(asked[r].address)
    <3>2. a.box = asked[r].address.box /\ asked' = asked
      BY <3>1, NormalisedIsStored
      DEF Lookup, Insert, Respond, Settled, Requests
    <3>3. CASE reply'[r] = 409 /\ Taken(a)
      <4>1. PICK i \in owners : email[i] = a
        BY <3>3 DEF Taken
      <4>2. i \in owners' \union wiped' /\ email'[i] = a
        BY <2>2, <4>1, RowsStay
      <4> QED
        BY <2>1, <3>2, <3>3, <4>2
    <3>4. CASE reply'[r] = 201 /\ r \in owners'
      BY <2>1, <3>4
    <3> QED
      BY <2>4, <3>1, <3>3, <3>4
      DEF Lookup, Insert, Respond, Collides, Lose, Answer, TypeOK, Settled, table
  <2>5. CASE reply'[r] = 0
    BY <2>1, <2>5
  <2> QED
    BY <2>3, <2>4, <2>5
<1> QED
  BY <1>1, <1>2, InitInv, NextType, NextSettled, PTL DEF Spec

=============================================================================
