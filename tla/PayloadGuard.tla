---------------------------- MODULE PayloadGuard ----------------------------
(***************************************************************************)
(* PayloadSizeLimitMiddleware of app/main.py between the ASGI server and   *)
(* the FastAPI application, for one POST, PUT or PATCH request.            *)
(*                                                                         *)
(* The server hands the body over in chunks, after a Content-Length or     *)
(* without one; the application asks for them through guarded_receive and  *)
(* answers through guarded_send.  What goes down to the server must be one *)
(* response, whoever started to write it.                                  *)
(***************************************************************************)
EXTENDS Naturals, Sequences

CONSTANTS
    MaxBytes,       \* settings.max_payload_bytes
    MaxChunk,       \* bound: bytes of a chunk
    MaxTotal,       \* bound: bytes a client sends
    NoLength        \* no Content-Length, or one that is not a number

ASSUME SizeAssumption ==
    /\ MaxBytes \in Nat
    /\ MaxChunk \in Nat
    /\ MaxTotal \in Nat
    /\ NoLength \notin Nat

VARIABLES
    length,     \* the Content-Length header
    streamed,   \* bytes the client has sent so far
    ended,      \* the last chunk has been handed over
    gone,       \* the client has disconnected
    received,   \* the guard's count
    sent_413,   \* guarded_send has superseded the application's response
    app,        \* where the application is
    body,       \* bytes of body the application holds
    ran,        \* the endpoint ran (history)
    wire        \* messages sent down to the server

client == <<length, streamed, ended, gone>>
guard == <<received, sent_413>>
vars == <<client, guard, app, body, ran, wire>>

\* A message of the response: its start, with its status and the origins whose
\* pages may read it (Access-Control-Allow-Origin), or its body.
StartMessage(status, cors) == [type |-> "start", status |-> status, cors |-> cors]
BodyMessage == [type |-> "body", status |-> 0, cors |-> "none"]

Messages ==
    [type : {"start"}, status : {200, 400, 404, 413, 500}, cors : {"none", "all"}]
      \union {BodyMessage}

Init ==
    /\ length \in {NoLength} \union 0..MaxTotal
    /\ streamed = 0
    /\ ended = FALSE
    /\ gone = FALSE
    /\ received = 0
    /\ sent_413 = FALSE
    /\ app = "entry"
    /\ body = 0
    /\ ran = FALSE
    /\ wire = <<>>

\* _reject: the whole 413 goes straight to the server.
Rejection == <<StartMessage(413, "all"), BodyMessage>>

DeclaredTooLarge == length # NoLength /\ length > MaxBytes

\* The fast path: a declared length above the limit never reaches the
\* application.
FastReject ==
    /\ app = "entry"
    /\ DeclaredTooLarge
    /\ wire' = wire \o Rejection
    /\ app' = "finished"
    /\ UNCHANGED <<client, guard, body, ran>>

\* self.app is called: a route that takes a body reads it first, a path or
\* method without a route is answered at once.
Enter ==
    /\ app = "entry"
    /\ ~DeclaredTooLarge
    /\ app' \in {"reading", "no_route"}
    /\ UNCHANGED <<client, guard, body, ran, wire>>

\* Variant: only the chunk at hand is counted.
Counted_Chunk(n) == n

\* The guard's count after a chunk of n bytes.
Counted(n) == received + n

\* Variant: one byte too generous.
TooLarge_ByOne(total) == total > MaxBytes + 1

TooLarge(total) == total > MaxBytes

\* The client sends n bytes: as many as it has declared, or as it likes.
Chunk(n, last) ==
    /\ ~ended
    /\ ~gone
    /\ streamed + n <= MaxTotal
    /\ IF length = NoLength THEN n > 0 \/ last
       ELSE streamed + n <= length /\ (last <=> streamed + n = length)
    /\ streamed' = streamed + n
    /\ ended' = last
    /\ UNCHANGED <<length, gone>>

\* The application awaits guarded_receive and is given a chunk within the
\* limit; with the last one the endpoint may run.
ReceiveChunk ==
    /\ app = "reading"
    /\ \E n \in 0..MaxChunk, last \in BOOLEAN :
          /\ Chunk(n, last)
          /\ received' = Counted(n)
          /\ ~TooLarge(Counted(n))
          /\ body' = body + n
          /\ app' = IF last THEN "ready" ELSE "reading"
    /\ UNCHANGED <<sent_413, ran, wire>>

\* The count goes over the limit: guarded_receive raises.  FastAPI makes a 400
\* of that; another reader of the body (tests/test_payload_guard.py) lets it
\* through to the middleware.
ReceiveTooLarge ==
    /\ app = "reading"
    /\ \E n \in 0..MaxChunk, last \in BOOLEAN :
          /\ Chunk(n, last)
          /\ received' = Counted(n)
          /\ TooLarge(Counted(n))
    /\ app' \in {"masking", "raising"}
    /\ UNCHANGED <<sent_413, body, ran, wire>>

\* The client goes away in the middle of its body: http.disconnect.
Disconnect ==
    /\ app = "reading"
    /\ ~ended
    /\ gone' = TRUE
    /\ app' = "masking"
    /\ UNCHANGED <<length, streamed, ended, guard, body, ran, wire>>

\* except _PayloadTooLarge in __call__.
Except ==
    /\ app = "raising"
    /\ wire' = wire \o Rejection
    /\ app' = "finished"
    /\ UNCHANGED <<client, guard, body, ran>>

\* The endpoint runs on the whole body and answers, or fails: the 500 of an
\* exception is written by the error middleware outside the guard.
Run ==
    /\ app = "ready"
    /\ ran' = TRUE
    /\ app' \in {"answering", "failed"}
    /\ UNCHANGED <<client, guard, body, wire>>

ServerError ==
    /\ app = "failed"
    /\ wire' = wire \o <<StartMessage(500, "none"), BodyMessage>>
    /\ app' = "finished"
    /\ UNCHANGED <<client, guard, body, ran>>

\* The status the application starts its response with; 200 stands for
\* whatever the endpoint answers.
AppStatus ==
    CASE app = "answering" -> 200 [] app = "masking" -> 400
      [] app = "no_route" -> 404

\* Variant: the count is looked at only while the body is read.
Superseded_Never == FALSE

\* guarded_send replaces the response of an application that has been told
\* nothing of the limit.
Superseded == received > MaxBytes /\ ~sent_413

\* Variant: only the start is replaced, and the body left to the application.
superseding_StartOnly == <<StartMessage(413, "all")>>

\* The 413 guarded_send writes in place of the application's response.
superseding == <<StartMessage(413, "all"), BodyMessage>>

\* http.response.start goes through guarded_send; whether it has the CORS
\* header depends on the request's Origin.
SendStart ==
    /\ app \in {"answering", "masking", "no_route"}
    /\ \/ Superseded /\ wire' = wire \o superseding /\ sent_413' = TRUE
       \/ /\ ~Superseded
          /\ \E cors \in {"none", "all"} :
                wire' = Append(wire, StartMessage(AppStatus, cors))
          /\ UNCHANGED sent_413
    /\ app' = "started"
    /\ UNCHANGED <<client, received, body, ran>>

\* Variant: the superseded body is passed on.
SendBody_PassedOn ==
    /\ app = "started"
    /\ wire' = Append(wire, BodyMessage)
    /\ app' = "finished"
    /\ UNCHANGED <<client, guard, body, ran>>

\* http.response.body: dropped when the response has been superseded.
SendBody ==
    /\ app = "started"
    /\ wire' = IF sent_413 THEN wire ELSE Append(wire, BodyMessage)
    /\ app' = "finished"
    /\ UNCHANGED <<client, guard, body, ran>>

Next ==
    \/ FastReject \/ Enter
    \/ ReceiveChunk \/ ReceiveTooLarge \/ Disconnect
    \/ Except \/ Run \/ ServerError
    \/ SendStart \/ SendBody

\* The server runs the request to its end, and a client that stops sending is
\* taken for disconnected.
Spec == Init /\ [][Next]_vars /\ WF_vars(Next)

-----------------------------------------------------------------------------
(* Properties.                                                             *)

TypeOK ==
    /\ length \in Nat \union {NoLength}
    /\ streamed \in 0..MaxTotal
    /\ ended \in BOOLEAN
    /\ gone \in BOOLEAN
    /\ sent_413 \in BOOLEAN
    /\ ran \in BOOLEAN
    /\ received \in Nat
    /\ body \in 0..MaxBytes
    /\ app \in {"entry", "no_route", "reading", "ready", "masking", "raising",
                "answering", "failed", "started", "finished"}
    /\ wire \in Seq(Messages)

\* The server is given one response and nothing else: a start and its body,
\* though three parties may write it (the application, guarded_send and
\* _reject).
OneResponse ==
    /\ Len(wire) <= 2
    /\ Len(wire) >= 1 => wire[1].type = "start"
    /\ Len(wire) = 2 => wire[2].type = "body"
    /\ app = "finished" => Len(wire) = 2

\* No endpoint runs on more than MaxBytes, and the application is never made
\* to hold more, however the bytes arrive (docstring of the middleware).
CapHolds ==
    /\ body <= MaxBytes
    /\ ran => streamed = body

\* 413 answers exactly the requests that declare or send too much and are not
\* answered unread, and a page of another origin can read it.
TooLargeIsTold ==
    Len(wire) >= 1 =>
        /\ wire[1].status = 413 <=> streamed > MaxBytes \/ DeclaredTooLarge
        /\ wire[1].status = 413 => wire[1].cors = "all"

\* Every request is answered in full, also after the guard has cut in.
Answered == <>(Len(wire) = 2)

=============================================================================
