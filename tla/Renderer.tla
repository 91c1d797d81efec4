------------------------------- MODULE Renderer -------------------------------
(***************************************************************************)
(* The bundle app/renderer/widget.js in the visitors' browsers, the config *)
(* it is given by get_config of app/api/public.py, and the submissions it  *)
(* posts, over a network that loses and delays.                            *)
(*                                                                         *)
(* A session is a tab on one of the customers' sites: its sessionStorage,  *)
(* which is kept per tab and origin, outlives the pages shown in it.       *)
(* POST /submissions itself is LeadCapture, the promise that Submissions   *)
(* keeps; a request is asked at the instant the handler reads the widget,  *)
(* since what comes before it changes no table.                            *)
(***************************************************************************)
EXTENDS Naturals, FiniteSets

CONSTANTS
    Sessions,    \* browser tabs, each on one site
    Bots,        \* sessions of those who fill in every input they find
    Requests,    \* submissions posted
    Widgets,     \* widget ids; a uuid, so never used again once deleted
    Tokens,      \* what crypto.randomUUID may return
    NoToken,     \* nothing in sessionStorage
    Titles,      \* what a config says besides its fields
    Names,       \* names of fields, all required
    NoPage,      \* no form is rendered
    NoMessage,   \* a request not yet posted
    NoEntry,     \* nothing in the HTTP cache
    NoPayload, NoId,
    MaxAge,      \* max-age=300
    Horizon      \* bound: the last tick of the clock

Configs == [title : Titles, fields : SUBSET Names]

\* What the submit handler puts into the body: the inputs of the form it was
\* posted from, and the honeypot, which is filled in a session of Bots; long
\* when one of the values has more than MAX_FIELD_VALUE_LEN characters.
Messages == [session : Sessions, widget : Widgets, token : Tokens,
             names : SUBSET Names, long : BOOLEAN]

Entries == [cfg : Configs, at : 0..Horizon]

Pages == [widget : Widgets, cfg : Configs, at : 0..Horizon]

Payloads == [widget : Widgets, token : Tokens \union {NoToken},
             data : {"email", "plain", "invalid", "spam", "malformed"}]

ASSUME SettingsAssumption ==
    /\ Bots \subseteq Sessions
    /\ MaxAge \in Nat \ {0}
    /\ Horizon \in Nat

ASSUME NothingAssumption ==
    /\ NoToken \notin Tokens
    /\ NoPage \notin Pages
    /\ NoMessage \notin Messages
    /\ NoEntry \notin Entries
    /\ NoId \notin Requests
    /\ NoPayload \notin Payloads

VARIABLES
    widgets, leads, captured, asked, phase, answer,  \* of LeadCapture
    config,     \* the config of each widget
    left,       \* when each config was last replaced (history)
    clock,
    cache,      \* the HTTP cache between the browsers and get_config
    page,       \* the form a session has rendered
    typed,      \* what its inputs hold: "nothing", values of which each
                \* "fits" the server's limit, or a "long" one among them
    status,     \* its status line
    token,      \* sessionStorage, key "lcp-<id>:token"
    sent,       \* the body of each request
    waiting     \* requests whose promise is not settled, of pages still there

server == <<widgets, leads, captured, asked, phase, answer>>
owner == <<config, left>>
tab == <<page, typed, status, token>>
wire == <<sent, waiting>>
vars == <<server, owner, clock, cache, tab, wire>>

Server == INSTANCE LeadCapture

Init ==
    /\ Server!Init
    /\ config \in [Widgets -> Configs]
    /\ left = [w \in Widgets |-> [c \in Configs |-> 0]]
    /\ clock = 0
    /\ cache = [w \in Widgets |-> NoEntry]
    /\ page = [s \in Sessions |-> NoPage]
    /\ typed = [s \in Sessions |-> "nothing"]
    /\ status = [s \in Sessions |-> "hidden"]
    /\ token = [s \in Sessions |-> [w \in Widgets |-> NoToken]]
    /\ sent = [r \in Requests |-> NoMessage]
    /\ waiting = {}

Tick ==
    /\ clock < Horizon
    /\ clock' = clock + 1
    /\ UNCHANGED <<server, owner, cache, tab, wire>>

-----------------------------------------------------------------------------
(* The owner.                                                              *)

\* A PATCH; a list of fields that is not empty is never accepted (module
\* WidgetAdmin).
Edit(w) ==
    /\ w \in widgets
    /\ \E c \in Configs :
          /\ c # config[w]
          /\ c.fields \in {config[w].fields, {}}
          /\ config' = [config EXCEPT ![w] = c]
    /\ left' = [left EXCEPT ![w][config[w]] = clock]
    /\ UNCHANGED <<server, clock, cache, tab, wire>>

Delete(w) ==
    /\ Server!Retire(w)
    /\ left' = [left EXCEPT ![w][config[w]] = clock]
    /\ UNCHANGED <<config, clock, cache, tab, wire>>

-----------------------------------------------------------------------------
(* GET /widgets/{id}/config.                                               *)

\* Variant: hashed before the fields are put in.
etag_Title(c) == c.title

\* The hash of the body, which is the config and nothing else.
etag(c) == c

\* The cache may answer itself while the response is younger than max-age.
Fresh(w) == cache[w] # NoEntry /\ clock < cache[w].at + MaxAge

\* get_config behind the cache: 304 revives the response it has, 200 replaces
\* it.  Without a widget 404, which renders nothing.
get_config(w) ==
    IF cache[w] # NoEntry /\ etag(cache[w].cfg) = etag(config[w])
    THEN cache[w].cfg ELSE config[w]

\* fetchJson(...).then(render): the page is loaded and the form rendered.  A
\* cache may also ask again before it has to, or have dropped the response.
Render(s, w) ==
    /\ page[s] = NoPage
    /\ \/ /\ Fresh(w)
          /\ page' = [page EXCEPT ![s] =
                        [widget |-> w, cfg |-> cache[w].cfg, at |-> clock]]
          /\ UNCHANGED cache
       \/ /\ w \in widgets
          /\ \E c \in {get_config(w), config[w]} :
                /\ page' = [page EXCEPT ![s] =
                              [widget |-> w, cfg |-> c, at |-> clock]]
                /\ cache' = [cache EXCEPT ![w] = [cfg |-> c, at |-> clock]]
    /\ UNCHANGED <<server, owner, clock, typed, status, token, wire>>

\* The visitor reloads the page or leaves it: the form goes, and with it
\* whoever waits for an answer; sessionStorage stays.
Leave(s) ==
    /\ page[s] # NoPage
    /\ page' = [page EXCEPT ![s] = NoPage]
    /\ typed' = [typed EXCEPT ![s] = "nothing"]
    /\ status' = [status EXCEPT ![s] = "hidden"]
    /\ waiting' = {r \in waiting : sent[r].session # s}
    /\ UNCHANGED <<server, owner, clock, cache, token, sent>>

-----------------------------------------------------------------------------
(* The form.                                                               *)

\* The visitor types, or types again; no input has a maxlength.  Without
\* fields there is but the honeypot, which a human does not see.
FillIn(s) ==
    /\ page[s] # NoPage
    /\ page[s].cfg.fields # {} \/ s \in Bots
    /\ \E t \in {"fits", "long"} \ {typed[s]} :
          typed' = [typed EXCEPT ![s] = t]
    /\ UNCHANGED <<server, owner, clock, cache, page, status, token, wire>>

\* The checks of the submit handler against the config it was rendered from;
\* the length of a value is not among them.
ok(s) == typed[s] # "nothing" \/ page[s].cfg.fields = {}

\* What randomUUID may return: never what it returned before.
NewTokens ==
    Tokens \ {sent[r].token : r \in {q \in Requests : sent[q] # NoMessage}}

\* Variant: a token for each submission.
clientToken_EachTime(s, w) == NewTokens

\* Variant: only read, never set.
clientToken_Unset(s, w) == {token[s][w]}

\* clientToken: the one of sessionStorage, or a new one.
clientToken(s, w) == IF token[s][w] # NoToken THEN {token[s][w]} ELSE NewTokens

SubmitIncomplete(s) ==
    /\ page[s] # NoPage
    /\ ~ok(s)
    /\ status' = [status EXCEPT ![s] = "error"]
    /\ UNCHANGED <<server, owner, clock, cache, page, typed, token, wire>>

\* The submit handler up to its fetch.  The button stays enabled, so there may
\* be others in flight.
Submit(s, r) ==
    /\ page[s] # NoPage
    /\ ok(s)
    /\ sent[r] = NoMessage
    /\ LET w == page[s].widget IN
       \E t \in clientToken(s, w) :
          /\ token' = [token EXCEPT ![s][w] = t]
          /\ sent' = [sent EXCEPT ![r] =
                        [session |-> s, widget |-> w, token |-> t,
                         names |-> page[s].cfg.fields,
                         long |-> typed[s] = "long"]]
    /\ status' = [status EXCEPT ![s] = "sending"]
    /\ waiting' = waiting \union {r}
    /\ UNCHANGED <<server, owner, clock, cache, page, typed>>

-----------------------------------------------------------------------------
(* POST /submissions.                                                      *)

\* Variant: the empty honeypot is an unknown field.
unknown_Honeypot(m, c) == (m.names \ c.fields) \union {"honeypot"}

\* The names of the data that are no field; an empty honeypot is let through.
unknown(m, c) == m.names \ c.fields

\* SubmissionIn refuses a value that is too long before anything else is
\* looked at.
too_long(m) == m.long

\* SubmissionIn, the honeypot and _validate_submission_data, in that order, for
\* values that passed the checks of the submit handler: what they make of a
\* body.
classify(m, c) ==
    IF too_long(m) THEN "malformed"
    ELSE IF m.session \in Bots THEN "spam"
    ELSE IF unknown(m, c) # {} \/ ~(c.fields \subseteq m.names) THEN "invalid"
    ELSE "plain"

\* The request arrives, now, later than its page, or never.
Arrive(r) ==
    /\ sent[r] # NoMessage
    /\ asked' = [asked EXCEPT ![r] =
                   [widget |-> sent[r].widget, token |-> sent[r].token,
                    data |-> classify(sent[r], config[sent[r].widget])]]
    /\ Server!Ask(r)
    /\ UNCHANGED <<owner, clock, cache, tab, wire>>

\* What the server does with it, and what it loses when it goes down.
Serve ==
    /\ \/ \E r \in Requests : Server!Capture(r) \/ Server!Reply(r)
       \/ Server!Lose
    /\ UNCHANGED <<owner, clock, cache, tab, wire>>

\* Any SubmissionCreated is accepted, one that was dropped as spam too.
accepted(a) == a.status \in {200, 201}

\* The first then of the promise: thanks and an empty form, or the error.
ShowAnswer(r) ==
    /\ r \in waiting
    /\ phase[r] = "done"
    /\ waiting' = waiting \ {r}
    /\ LET s == sent[r].session IN
       IF accepted(answer[r])
       THEN /\ status' = [status EXCEPT ![s] = "thanks"]
            /\ typed' = [typed EXCEPT ![s] = "nothing"]
       ELSE /\ status' = [status EXCEPT ![s] = "error"]
            /\ UNCHANGED typed
    /\ UNCHANGED <<server, owner, clock, cache, page, token, sent>>

\* Its catch: the connection failed, before the request arrived, while it was
\* handled or on the way back.
ShowNetworkError(r) ==
    /\ r \in waiting
    /\ waiting' = waiting \ {r}
    /\ status' = [status EXCEPT ![sent[r].session] = "error"]
    /\ UNCHANGED <<server, owner, clock, cache, page, typed, token, sent>>

Next ==
    \/ Tick
    \/ \E w \in Widgets : Edit(w) \/ Delete(w)
    \/ \E s \in Sessions :
          \/ \E w \in Widgets : Render(s, w)
          \/ Leave(s) \/ FillIn(s) \/ SubmitIncomplete(s)
          \/ \E r \in Requests : Submit(s, r)
    \/ \E r \in Requests : Arrive(r) \/ ShowAnswer(r) \/ ShowNetworkError(r)
    \/ Serve

Spec == Init /\ [][Next]_vars

-----------------------------------------------------------------------------
(* Properties.                                                             *)

TypeOK ==
    /\ config \in [Widgets -> Configs]
    /\ left \in [Widgets -> [Configs -> 0..Horizon]]
    /\ clock \in 0..Horizon
    /\ cache \in [Widgets -> Entries \union {NoEntry}]
    /\ page \in [Sessions -> Pages \union {NoPage}]
    /\ typed \in [Sessions -> {"nothing", "fits", "long"}]
    /\ status \in [Sessions -> {"hidden", "sending", "thanks", "error"}]
    /\ token \in [Sessions -> [Widgets -> Tokens \union {NoToken}]]
    /\ sent \in [Requests -> Messages \union {NoMessage}]
    /\ waiting \in SUBSET {r \in Requests : sent[r] # NoMessage}
    /\ \A r \in waiting : /\ page[sent[r].session] # NoPage
                          /\ page[sent[r].session].widget = sent[r].widget

\* A visitor who is thanked has a lead captured in that tab for that widget,
\* and never two: not after double clicks, answers lost on the way, reloads and
\* retries in whatever order the requests arrive.
ThankedMeansStoredOnce ==
    /\ \A s \in Sessions \ Bots : status[s] = "thanks" =>
          \E x \in captured : /\ sent[x].session = s
                              /\ sent[x].widget = page[s].widget
    /\ \A x, y \in captured :
          sent[x].session = sent[y].session /\ sent[x].widget = sent[y].widget
            => x = y

\* When c was last the config of w.
lastCurrent(w, c) ==
    IF w \in widgets /\ config[w] = c THEN clock ELSE left[w][c]

\* The form a visitor is given was the widget's less than max-age before it is
\* rendered: neither the cache nor a 304 keeps it longer.  And what the browser
\* let through the server refuses with 422 only when the owner has changed the
\* fields since, or for a value over the limit, which the browser does not
\* check; the honeypot every human sends back empty is no reason.
FormFitsWidget ==
    /\ \A s \in Sessions : page[s] # NoPage =>
          page[s].at < lastCurrent(page[s].widget, page[s].cfg) + MaxAge
    /\ \A r \in Requests : answer[r].status = 422 =>
          \/ sent[r].names # config[sent[r].widget].fields
          \/ sent[r].long

=============================================================================
