----------------------------- MODULE LeadCapture -----------------------------
(***************************************************************************)
(* What POST /submissions promises, without its steps: a lead is captured  *)
(* at one instant, at most once per token of a widget, stays as long as    *)
(* its widget, and every answer that names a lead names the one its token  *)
(* captured.  Submissions implements it.                                   *)
(***************************************************************************)
EXTENDS Naturals

CONSTANTS Requests, Widgets, Tokens, NoToken, NoPayload, NoId

VARIABLES
    widgets,    \* the widgets there are
    leads,      \* the leads kept, each named by the request that captured it
    captured,   \* every lead ever captured
    asked,      \* what each request asked: a widget, a token, its data
    phase,      \* "idle", "asked", "done" or "lost"
    answer      \* the answer each request got

vars == <<widgets, leads, captured, asked, phase, answer>>

Payloads == [widget : Widgets, token : Tokens \union {NoToken},
             data : {"email", "plain", "invalid", "spam", "malformed"}]

NoAnswer == [status |-> 0, id |-> NoId]

SameKey(x, y) ==
    /\ asked[x].widget = asked[y].widget
    /\ asked[x].token = asked[y].token
    /\ asked[x].token # NoToken

Init ==
    /\ widgets \in SUBSET Widgets
    /\ leads = {}
    /\ captured = {}
    /\ asked = [r \in Requests |-> NoPayload]
    /\ phase = [r \in Requests |-> "idle"]
    /\ answer = [r \in Requests |-> NoAnswer]

Ask(r) ==
    /\ phase[r] = "idle"
    /\ \E p \in Payloads : asked' = [asked EXCEPT ![r] = p]
    /\ phase' = [phase EXCEPT ![r] = "asked"]
    /\ UNCHANGED <<widgets, leads, captured, answer>>

\* The only way a lead comes to be: good data, a live widget, a fresh token.
Capture(r) ==
    /\ phase[r] = "asked"
    /\ asked[r].data \in {"email", "plain"}
    /\ asked[r].widget \in widgets
    /\ r \notin captured
    /\ \A x \in captured : ~SameKey(x, r)
    /\ leads' = leads \union {r}
    /\ captured' = captured \union {r}
    /\ UNCHANGED <<widgets, asked, phase, answer>>

Answer(r, status, id) ==
    /\ phase[r] = "asked"
    /\ phase' = [phase EXCEPT ![r] = "done"]
    /\ answer' = [answer EXCEPT ![r] = [status |-> status, id |-> id]]
    /\ UNCHANGED <<widgets, leads, captured, asked>>

\* 201 to the one that captured the lead, 200 to the others of its token.
Confirm(r) == r \in captured /\ Answer(r, 201, r)

Repeat(r) ==
    /\ phase[r] = "asked"
    /\ asked[r].data \in {"email", "plain"}
    /\ r \notin captured
    /\ \E x \in leads : SameKey(x, r) /\ Answer(r, 200, x)

\* Without a lead, for the reason its status gives: a malformed body before
\* anything else is looked at.  A server error promises nothing about the lead.
Refuse(r) ==
    /\ phase[r] = "asked"
    /\ \/ asked[r].data \in {"invalid", "malformed"} /\ Answer(r, 422, NoId)
       \/ /\ asked[r].data # "malformed"
          /\ \/ r \notin captured /\ Answer(r, 429, NoId)
             \/ /\ r \notin captured
                /\ asked[r].widget \notin widgets
                /\ Answer(r, 404, NoId)
             \/ asked[r].data = "spam" /\ Answer(r, 200, NoId)
             \/ Answer(r, 500, NoId)

Retire(w) ==
    /\ w \in widgets
    /\ widgets' = widgets \ {w}
    /\ leads' = {x \in leads : asked[x].widget # w}
    /\ UNCHANGED <<captured, asked, phase, answer>>

\* The server goes down with every request it has not answered.
Lose ==
    /\ \E r \in Requests : phase[r] = "asked"
    /\ phase' = [r \in Requests |-> IF phase[r] = "asked" THEN "lost"
                                                          ELSE phase[r]]
    /\ UNCHANGED <<widgets, leads, captured, asked, answer>>

Reply(r) == Confirm(r) \/ Repeat(r) \/ Refuse(r)

Next ==
    \/ \E r \in Requests : Ask(r) \/ Capture(r) \/ Reply(r)
    \/ \E w \in Widgets : Retire(w)
    \/ Lose

\* What has been asked is answered, or lost with the server.
Spec == Init /\ [][Next]_vars /\ \A r \in Requests : WF_vars(Reply(r))

=============================================================================
