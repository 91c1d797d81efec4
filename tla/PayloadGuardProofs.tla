------------------------- MODULE PayloadGuardProofs -------------------------
(***************************************************************************)
(* Proofs about PayloadGuard for every limit and every way the bytes may   *)
(* arrive.  The inductive invariant says what the guard's count is worth   *)
(* in each phase of the application, and what has gone down the wire.      *)
(***************************************************************************)
EXTENDS PayloadGuard, TLAPS

\* The count is what the client has sent; the application holds all of it
\* until the chunk that goes over the limit, and is kept from answering then.
CountInv ==
    /\ received = streamed
    /\ received <= MaxBytes => body = streamed
    /\ app \in {"entry", "no_route"} => received = 0
    /\ app \in {"ready", "answering", "failed"} => received <= MaxBytes
    /\ app = "reading" => received <= MaxBytes
    /\ app = "raising" => received > MaxBytes
    /\ app \notin {"entry", "finished"} => ~DeclaredTooLarge
    /\ ran => received <= MaxBytes
    /\ app \in {"entry", "no_route", "reading", "ready", "masking",
               "raising"} => ~ran

\* Before its start, between start and body, and after the response.
WireInv ==
    /\ app \notin {"started", "finished"} => wire = <<>> /\ ~sent_413
    /\ app = "started" =>
          IF sent_413
          THEN received > MaxBytes /\ wire = superseding
          ELSE /\ received <= MaxBytes
               /\ \E status \in {200, 400, 404}, cors \in {"none", "all"} :
                     wire = <<StartMessage(status, cors)>>
    /\ app = "finished" =>
          \E status \in {200, 400, 404, 413, 500}, cors \in {"none", "all"} :
             /\ Len(wire) = 2
             /\ wire[1] = StartMessage(status, cors) /\ wire[2] = BodyMessage
             /\ status = 413 => cors = "all"
             /\ status = 413 <=> received > MaxBytes \/ DeclaredTooLarge

IInv == TypeOK /\ CountInv /\ WireInv

USE SizeAssumption

\* What the messages are, and where they are in a response.
LEMMA ResponseShape ==
    ASSUME NEW status \in {200, 400, 404, 413, 500},
           NEW cors \in {"none", "all"}
    PROVE  /\ StartMessage(status, cors).type = "start"
           /\ StartMessage(status, cors).status = status
           /\ StartMessage(status, cors).cors = cors
           /\ BodyMessage.type = "body"
           /\ <<StartMessage(status, cors)>> \in Seq(Messages)
           /\ <<StartMessage(status, cors), BodyMessage>> \in Seq(Messages)
  BY DEF StartMessage, BodyMessage, Messages

LEMMA InitInv == Init => IInv
<1> SUFFICES ASSUME Init PROVE IInv
  OBVIOUS
<1>1. length \in Nat \union {NoLength}
  BY DEF Init
<1>2. TypeOK
  <2>1. streamed \in 0..MaxTotal /\ received \in Nat /\ body \in 0..MaxBytes
    BY DEF Init
  <2>2. wire \in Seq(Messages)
    BY DEF Init
  <2>3. /\ ended \in BOOLEAN /\ gone \in BOOLEAN
        /\ sent_413 \in BOOLEAN /\ ran \in BOOLEAN
    BY DEF Init
  <2> QED
    BY <1>1, <2>1, <2>2, <2>3 DEF Init, TypeOK
<1>3. CountInv
  BY DEF Init, CountInv
<1>4. WireInv
  BY DEF Init, WireInv
<1> QED
  BY <1>2, <1>3, <1>4 DEF IInv

LEMMA ReadKeeps ==
    ASSUME IInv, FastReject \/ Enter \/ ReceiveChunk \/ ReceiveTooLarge
                   \/ Disconnect
    PROVE  IInv'
<1> USE DEF client, guard, DeclaredTooLarge
<1>1. CASE FastReject
  <2>1. /\ wire' = <<StartMessage(413, "all"), BodyMessage>>
        /\ wire' \in Seq(Messages)
    BY <1>1 DEF FastReject, IInv, WireInv, Rejection, StartMessage,
                BodyMessage, Messages
  <2> QED
    BY <1>1, <2>1 DEF FastReject, IInv, TypeOK, CountInv, WireInv
<1>2. CASE Enter
  BY <1>2 DEF Enter, IInv, TypeOK, CountInv, WireInv
<1>3. CASE ReceiveChunk
  BY <1>3 DEF ReceiveChunk, Chunk, Counted, TooLarge, IInv, TypeOK, CountInv,
              WireInv
<1>4. CASE ReceiveTooLarge
  <2>1. PICK n \in 0..MaxChunk, last \in BOOLEAN :
           /\ Chunk(n, last)
           /\ received' = received + n
           /\ received + n > MaxBytes
    BY <1>4 DEF ReceiveTooLarge, Counted, TooLarge
  <2>2. /\ streamed' = streamed + n /\ streamed' \in 0..MaxTotal
        /\ ended' \in BOOLEAN /\ length' = length /\ gone' = gone
    BY <2>1 DEF Chunk, IInv, TypeOK
  <2>3. /\ app = "reading" /\ app' \in {"masking", "raising"}
        /\ UNCHANGED <<sent_413, body, ran, wire>>
    BY <1>4 DEF ReceiveTooLarge
  <2>4. TypeOK'
    BY <2>1, <2>2, <2>3 DEF IInv, TypeOK
  <2>5. ~ran
    BY <2>3 DEF IInv, CountInv
  <2>6. CountInv'
    BY <2>1, <2>2, <2>3, <2>5 DEF IInv, TypeOK, CountInv
  <2>7. WireInv'
    BY <2>3 DEF IInv, WireInv
  <2> QED
    BY <2>4, <2>6, <2>7 DEF IInv
<1>5. CASE Disconnect
  BY <1>5 DEF Disconnect, IInv, TypeOK, CountInv, WireInv
<1> QED
  BY <1>1, <1>2, <1>3, <1>4, <1>5

LEMMA AnswerKeeps ==
    ASSUME IInv, Except \/ Run \/ ServerError \/ SendStart \/ SendBody
    PROVE  IInv'
<1> USE DEF client, guard, DeclaredTooLarge
<1>1. CASE Except
  <2>1. /\ wire' = <<StartMessage(413, "all"), BodyMessage>>
        /\ wire' \in Seq(Messages)
    BY <1>1 DEF Except, IInv, WireInv, Rejection, StartMessage, BodyMessage,
                Messages
  <2> QED
    BY <1>1, <2>1 DEF Except, IInv, TypeOK, CountInv, WireInv
<1>2. CASE Run
  BY <1>2 DEF Run, IInv, TypeOK, CountInv, WireInv
<1>3. CASE ServerError
  <2>1. /\ wire' = <<StartMessage(500, "none"), BodyMessage>>
        /\ wire' \in Seq(Messages)
    BY <1>3 DEF ServerError, IInv, WireInv, StartMessage, BodyMessage, Messages
  <2> QED
    BY <1>3, <2>1 DEF ServerError, IInv, TypeOK, CountInv, WireInv
<1>4. CASE SendStart
  <2>1. wire = <<>> /\ ~sent_413
    BY <1>4 DEF SendStart, IInv, WireInv
  <2>2. CASE Superseded
    <3>1. wire' = superseding /\ sent_413' = TRUE
      BY <1>4, <2>1, <2>2 DEF SendStart, superseding
    <3>2. superseding \in Seq(Messages)
      BY ResponseShape DEF superseding
    <3> QED
      BY <1>4, <2>2, <3>1, <3>2
         DEF SendStart, Superseded, IInv, TypeOK, CountInv, WireInv, superseding
  <2>3. CASE ~Superseded
    <3>1. PICK cors \in {"none", "all"} :
             wire' = Append(wire, StartMessage(AppStatus, cors))
      BY <1>4, <2>3 DEF SendStart
    <3>2. AppStatus \in {200, 400, 404}
      BY <1>4 DEF SendStart, AppStatus
    <3>3. /\ wire' = <<StartMessage(AppStatus, cors)>>
          /\ wire' \in Seq(Messages)
      BY <2>1, <3>1, <3>2 DEF StartMessage, Messages
    <3>4. received <= MaxBytes /\ sent_413' = sent_413
      BY <1>4, <2>1, <2>3 DEF SendStart, Superseded, IInv, TypeOK
    <3> QED
      BY <1>4, <2>1, <3>2, <3>3, <3>4
         DEF SendStart, IInv, TypeOK, CountInv, WireInv
  <2> QED
    BY <2>2, <2>3
<1>5. CASE SendBody
  <2>1. CASE sent_413
    <3>1. wire' = <<StartMessage(413, "all"), BodyMessage>> /\ received > MaxBytes
      BY <1>5, <2>1 DEF SendBody, IInv, WireInv, superseding
    <3> QED
      BY <1>5, <2>1, <3>1 DEF SendBody, IInv, TypeOK, CountInv, WireInv
  <2>2. CASE ~sent_413
    <3>1. PICK status \in {200, 400, 404}, cors \in {"none", "all"} :
             wire = <<StartMessage(status, cors)>>
      BY <1>5, <2>2 DEF SendBody, IInv, WireInv
    <3>2. /\ wire' \in Seq(Messages)
          /\ Len(wire') = 2
          /\ wire'[1] = StartMessage(status, cors) /\ wire'[2] = BodyMessage
      <4>1. wire' = Append(wire, BodyMessage)
        BY <1>5, <2>2 DEF SendBody
      <4>2. wire \in Seq(Messages) /\ BodyMessage \in Messages
        BY DEF IInv, TypeOK, Messages
      <4> QED
        BY <4>1, <4>2, <3>1
    <3>3. received <= MaxBytes /\ ~DeclaredTooLarge
      BY <1>5, <2>2 DEF SendBody, IInv, CountInv, WireInv
    <3>4. ~(received > MaxBytes)
      BY <3>3 DEF IInv, TypeOK
    <3>5. /\ app' = "finished"
          /\ UNCHANGED <<client, guard, body, ran>>
      BY <1>5 DEF SendBody
    <3>6. TypeOK' /\ CountInv'
      BY <3>2, <3>3, <3>5 DEF IInv, TypeOK, CountInv
    <3>7. WireInv'
      BY <3>2, <3>3, <3>4, <3>5 DEF WireInv
    <3> QED
      BY <3>6, <3>7 DEF IInv
  <2> QED
    BY <2>1, <2>2
<1> QED
  BY <1>1, <1>2, <1>3, <1>4, <1>5

LEMMA Inductive == IInv /\ [Next]_vars => IInv'
<1> SUFFICES ASSUME IInv, [Next]_vars PROVE IInv'
  OBVIOUS
<1>1. CASE UNCHANGED vars
  BY <1>1 DEF vars, client, guard, IInv, TypeOK, CountInv, WireInv,
              DeclaredTooLarge
<1>2. CASE Next
  BY <1>2, ReadKeeps, AnswerKeeps DEF Next
<1> QED
  BY <1>1, <1>2

THEOREM AlwaysInv == Spec => []IInv
  BY InitInv, Inductive, PTL DEF Spec

\* Every variable keeps its type, for every limit.
THEOREM TypeCorrect == Spec => []TypeOK
<1>1. IInv => TypeOK
  BY DEF IInv
<1> QED
  BY <1>1, AlwaysInv, PTL

\* The server is given one response, whichever of the application,
\* guarded_send and _reject writes it.
THEOREM SingleResponse == Spec => []OneResponse
<1>1. IInv => OneResponse
  <2> SUFFICES ASSUME IInv PROVE OneResponse
    OBVIOUS
  <2>1. CASE app \notin {"started", "finished"}
    BY <2>1 DEF IInv, WireInv, OneResponse
  <2>2. CASE app = "started" /\ sent_413
    <3>1. wire = <<StartMessage(413, "all"), BodyMessage>>
      BY <2>2 DEF IInv, WireInv, superseding
    <3> QED
      BY <2>2, <3>1, ResponseShape DEF OneResponse
  <2>3. CASE app = "started" /\ ~sent_413
    <3>1. PICK status \in {200, 400, 404}, cors \in {"none", "all"} :
             wire = <<StartMessage(status, cors)>>
      BY <2>3 DEF IInv, WireInv
    <3> QED
      BY <2>3, <3>1, ResponseShape DEF OneResponse
  <2>4. CASE app = "finished"
    <3>1. PICK status \in {200, 400, 404, 413, 500}, cors \in {"none", "all"} :
             /\ Len(wire) = 2
             /\ wire[1] = StartMessage(status, cors) /\ wire[2] = BodyMessage
      BY <2>4 DEF IInv, WireInv
    <3> QED
      BY <2>4, <3>1, ResponseShape DEF OneResponse
  <2> QED
    BY <2>1, <2>2, <2>3, <2>4
<1> QED
  BY <1>1, AlwaysInv, PTL

\* However the bytes arrive, no endpoint runs on more than the limit.
THEOREM Cap == Spec => []CapHolds
<1>1. IInv => CapHolds
  BY DEF IInv, TypeOK, CountInv, CapHolds
<1> QED
  BY <1>1, AlwaysInv, PTL

\* 413 is the answer to too large a request, and to nothing else.
THEOREM TooLargeTold == Spec => []TooLargeIsTold
<1>1. IInv => TooLargeIsTold
  <2> SUFFICES ASSUME IInv PROVE TooLargeIsTold
    OBVIOUS
  <2>1. CASE app \notin {"started", "finished"}
    BY <2>1 DEF IInv, WireInv, TooLargeIsTold
  <2>2. CASE app = "started"
    BY <2>2 DEF IInv, TypeOK, CountInv, WireInv, TooLargeIsTold, superseding,
                StartMessage, BodyMessage
  <2>3. CASE app = "finished"
    BY <2>3 DEF IInv, CountInv, WireInv, TooLargeIsTold, StartMessage,
                BodyMessage
  <2> QED
    BY <2>1, <2>2, <2>3
<1> QED
  BY <1>1, AlwaysInv, PTL

=============================================================================
