---------------------------- MODULE RendererProofs ----------------------------
(***************************************************************************)
(* Theorems about what the visitors' browsers show and what the server has *)
(* stored, for any number of tabs, widgets, submissions and edits.         *)
(***************************************************************************)
EXTENDS Renderer, TLAPS

USE DEF Server!vars

\* The tables and the answers of LeadCapture, as far as the browsers meet them.
ServerType ==
    /\ widgets \in SUBSET Widgets
    /\ captured \in SUBSET Requests
    /\ leads \in SUBSET captured
    /\ asked \in [Requests -> Payloads \union {NoPayload}]
    /\ phase \in [Requests -> {"idle", "asked", "done", "lost"}]
    /\ answer \in [Requests -> [status : Nat, id : Requests \union {NoId}]]

\* A token belongs to one tab and widget, and these have no other.
OneToken ==
    /\ \A r \in Requests : sent[r] # NoMessage =>
          token[sent[r].session][sent[r].widget] = sent[r].token
    /\ \A s \in Sessions, w \in Widgets : token[s][w] # NoToken =>
          \E r \in Requests : /\ sent[r] # NoMessage
                              /\ sent[r].session = s /\ sent[r].widget = w
    /\ \A r, q \in Requests :
          sent[r] # NoMessage /\ sent[q] # NoMessage /\ sent[r].token = sent[q].token
            => sent[r].session = sent[q].session /\ sent[r].widget = sent[q].widget

\* What the server was asked is what was posted.
AskedIsSent ==
    /\ \A r \in Requests : phase[r] # "idle" =>
          /\ sent[r] # NoMessage
          /\ asked[r].widget = sent[r].widget
          /\ asked[r].token = sent[r].token
          /\ asked[r].data = "spam" => sent[r].session \in Bots
    /\ \A r \in captured : phase[r] # "idle"
    /\ \A r \in Requests : answer[r].status # 0 => phase[r] = "done"

\* One lead for a token, and one for whoever was told that it was received.
Received ==
    /\ \A x, y \in captured :
          sent[x].widget = sent[y].widget /\ sent[x].token = sent[y].token => x = y
    /\ \A r \in Requests :
          answer[r].status \in {200, 201} /\ sent[r].session \notin Bots =>
             \E x \in captured : /\ sent[x].widget = sent[r].widget
                                 /\ sent[x].token = sent[r].token

Thanked ==
    \A s \in Sessions : status[s] = "thanks" =>
        /\ page[s] # NoPage
        /\ s \notin Bots => \E x \in captured : /\ sent[x].session = s
                                                /\ sent[x].widget = page[s].widget

TokenInv == TypeOK /\ ServerType /\ OneToken /\ AskedIsSent /\ Received /\ Thanked

\* No config was left or kept later than now.
Aged ==
    /\ \A w \in Widgets, c \in Configs : left[w][c] <= clock
    /\ \A w \in Widgets : cache[w] # NoEntry =>
          /\ cache[w].at <= lastCurrent(w, cache[w].cfg)
          /\ config[w].fields \in {cache[w].cfg.fields, {}}
    /\ \A s \in Sessions : page[s] # NoPage =>
          /\ page[s].at < lastCurrent(page[s].widget, page[s].cfg) + MaxAge
          /\ config[page[s].widget].fields \in {page[s].cfg.fields, {}}

\* Fields only ever go, so that what did not fit never will; and a body is
\* malformed only for a value that is too long.
Shrunk ==
    \A r \in Requests :
        /\ sent[r] # NoMessage =>
              config[sent[r].widget].fields \in {sent[r].names, {}}
        /\ phase[r] # "idle" /\ asked[r].data = "invalid" =>
              sent[r].names # config[sent[r].widget].fields
        /\ phase[r] # "idle" /\ asked[r].data = "malformed" => sent[r].long
        /\ answer[r].status = 422 => asked[r].data \in {"invalid", "malformed"}

IInv == TokenInv /\ Aged /\ Shrunk

-----------------------------------------------------------------------------
(* Types.                                                                  *)

LEMMA ConfigType ==
    ASSUME NEW c \in Configs
    PROVE  c.fields \in SUBSET Names
BY DEF Configs

LEMMA InitType == Init => TypeOK /\ ServerType
<1> SUFFICES ASSUME Init PROVE TypeOK /\ ServerType
  OBVIOUS
<1>1. ServerType
  BY DEF Init, ServerType, Server!Init, Server!NoAnswer
<1>2. 0 \in 0..Horizon
  BY SettingsAssumption
<1>3. TypeOK
  BY <1>2 DEF Init, TypeOK
<1> QED
  BY <1>1, <1>3

LEMMA ServerStep ==
    ASSUME ServerType, NEW r \in Requests, Server!Capture(r) \/ Server!Reply(r)
    PROVE  /\ ServerType'
           /\ UNCHANGED <<widgets, asked>>
           /\ phase[r] = "asked"
           /\ phase' \in {phase, [phase EXCEPT ![r] = "done"]}
<1>1. CASE Server!Capture(r)
  BY <1>1 DEF Server!Capture, ServerType
<1>2. CASE Server!Reply(r)
  <2>1. PICK st \in Nat, id \in Requests \union {NoId} : Server!Answer(r, st, id)
    BY <1>2 DEF Server!Reply, Server!Confirm, Server!Repeat, Server!Refuse, ServerType
  <2> QED
    BY <2>1 DEF Server!Answer, ServerType
<1> QED
  BY <1>1, <1>2

LEMMA NextType == TypeOK /\ ServerType /\ [Next]_vars => TypeOK' /\ ServerType'
<1> SUFFICES ASSUME TypeOK, ServerType, [Next]_vars PROVE TypeOK' /\ ServerType'
  OBVIOUS
<1>1. ASSUME UNCHANGED server PROVE ServerType'
  BY <1>1 DEF server, ServerType
<1>2. ASSUME UNCHANGED <<owner, clock, cache, tab, wire>> PROVE TypeOK'
  BY <1>2 DEF owner, tab, wire, TypeOK
<1>3. CASE Tick
  <2>1. clock' \in 0..Horizon
    BY <1>3, SettingsAssumption DEF Tick, TypeOK
  <2> QED
    BY <1>1, <1>3, <2>1 DEF Tick, TypeOK, owner, tab, wire
<1>4. ASSUME NEW w \in Widgets, Edit(w) PROVE TypeOK' /\ ServerType'
  <2>1. config[w] \in Configs
    BY DEF TypeOK
  <2> QED
    BY <1>1, <1>4, <2>1 DEF Edit, TypeOK, tab, wire
<1>5. ASSUME NEW w \in Widgets, Delete(w) PROVE TypeOK' /\ ServerType'
  <2>1. config[w] \in Configs
    BY DEF TypeOK
  <2>2. TypeOK'
    BY <1>5, <2>1 DEF Delete, TypeOK, tab, wire
  <2>3. ServerType'
    BY <1>5 DEF Delete, Server!Retire, ServerType
  <2> QED
    BY <2>2, <2>3
<1>6. ASSUME NEW s \in Sessions, NEW w \in Widgets, Render(s, w)
      PROVE  TypeOK' /\ ServerType'
  <2>1. /\ \A c \in Configs : [widget |-> w, cfg |-> c, at |-> clock] \in Pages
        /\ \A c \in Configs : [cfg |-> c, at |-> clock] \in Entries
    BY DEF TypeOK, Pages, Entries
  <2>2. cache[w] # NoEntry => cache[w].cfg \in Configs
    BY DEF TypeOK, Entries
  <2>3. config[w] \in Configs /\ get_config(w) \in Configs
    BY <2>2 DEF get_config, TypeOK
  <2>4. /\ page' \in [Sessions -> Pages \union {NoPage}]
        /\ cache' \in [Widgets -> Entries \union {NoEntry}]
    <3>1. CASE /\ cache[w] # NoEntry
               /\ page' = [page EXCEPT ![s] =
                             [widget |-> w, cfg |-> cache[w].cfg, at |-> clock]]
               /\ UNCHANGED cache
      BY <2>1, <2>2, <3>1 DEF TypeOK
    <3>2. ASSUME NEW c \in Configs,
                 page' = [page EXCEPT ![s] = [widget |-> w, cfg |-> c, at |-> clock]],
                 cache' = [cache EXCEPT ![w] = [cfg |-> c, at |-> clock]]
          PROVE  /\ page' \in [Sessions -> Pages \union {NoPage}]
                 /\ cache' \in [Widgets -> Entries \union {NoEntry}]
      BY <2>1, <3>2 DEF TypeOK
    <3> QED
      BY <1>6, <2>3, <3>1, <3>2 DEF Render, Fresh
  <2>5. /\ UNCHANGED <<server, owner, clock, typed, status, token, wire>>
        /\ page[s] = NoPage
        /\ \A z \in Sessions \ {s} : page'[z] = page[z]
    BY <1>6 DEF Render, TypeOK
  <2>6. \A r \in waiting : sent[r].session # s /\ sent[r].session \in Sessions
    BY <2>5 DEF TypeOK, Messages
  <2> QED
    BY <1>1, <2>4, <2>5, <2>6 DEF TypeOK, owner, wire
<1>7. ASSUME NEW s \in Sessions, Leave(s) PROVE TypeOK' /\ ServerType'
  <2>1. \A r \in waiting : sent[r].session \in Sessions
    BY DEF TypeOK, Messages
  <2> QED
    BY <1>1, <1>7, <2>1 DEF Leave, TypeOK, owner
<1>8. ASSUME NEW s \in Sessions, FillIn(s) \/ SubmitIncomplete(s)
      PROVE  TypeOK' /\ ServerType'
  BY <1>1, <1>8 DEF FillIn, SubmitIncomplete, TypeOK, owner, wire
<1>9. ASSUME NEW s \in Sessions, NEW r \in Requests, Submit(s, r)
      PROVE  TypeOK' /\ ServerType'
  <2> DEFINE w == page[s].widget
             names == page[s].cfg.fields
             long == typed[s] = "long"
             message(t) == [session |-> s, widget |-> w, token |-> t,
                            names |-> names, long |-> long]
  <2>1. w \in Widgets /\ names \in SUBSET Names
    BY <1>9, ConfigType DEF Submit, TypeOK, Pages
  <2>2. PICK t \in clientToken(s, w) :
           /\ token' = [token EXCEPT ![s][w] = t]
           /\ sent' = [sent EXCEPT ![r] = message(t)]
    BY <1>9 DEF Submit
  <2>3. t \in Tokens
    BY <2>1 DEF clientToken, NewTokens, TypeOK
  <2>4. long \in BOOLEAN
    OBVIOUS
  <2> HIDE DEF long
  <2>5. message(t) \in Messages /\ message(t) # NoMessage
    BY <2>1, <2>3, <2>4, NothingAssumption DEF Messages
  <2>6. /\ page[s] # NoPage /\ sent[r] = NoMessage
        /\ status' = [status EXCEPT ![s] = "sending"]
        /\ waiting' = waiting \union {r}
        /\ UNCHANGED <<server, owner, clock, cache, page, typed>>
    BY <1>9 DEF Submit
  <2>7. message(t).session = s /\ message(t).widget = w
    OBVIOUS
  <2> HIDE DEF message, names
  <2>8. /\ token' \in [Sessions -> [Widgets -> Tokens \union {NoToken}]]
        /\ sent' \in [Requests -> Messages \union {NoMessage}]
        /\ status' \in [Sessions -> {"hidden", "sending", "thanks", "error"}]
    BY <2>1, <2>2, <2>3, <2>5, <2>6 DEF TypeOK
  <2>9. \A q \in waiting' :
           /\ q \in Requests /\ sent'[q] # NoMessage
           /\ page[sent'[q].session] # NoPage
           /\ page[sent'[q].session].widget = sent'[q].widget
    BY <2>2, <2>5, <2>6, <2>7 DEF TypeOK
  <2>10. waiting' \in SUBSET {q \in Requests : sent'[q] # NoMessage}
    BY <2>9
  <2> QED
    BY <1>1, <2>6, <2>8, <2>9, <2>10 DEF TypeOK, owner
<1>10. ASSUME NEW r \in Requests, Arrive(r) PROVE TypeOK' /\ ServerType'
  <2>1. ServerType'
    BY <1>10 DEF Arrive, Server!Ask, Server!Payloads, Payloads, ServerType
  <2> QED
    BY <1>2, <1>10, <2>1 DEF Arrive
<1>11. CASE Serve
  <2>1. ASSUME Server!Lose PROVE ServerType'
    BY <2>1 DEF Server!Lose, ServerType
  <2>2. UNCHANGED <<owner, clock, cache, tab, wire>>
    BY <1>11 DEF Serve
  <2>3. ServerType'
    BY <1>11, <2>1, ServerStep DEF Serve
  <2> QED
    BY <1>2, <2>2, <2>3
<1>12. ASSUME NEW r \in Requests, ShowAnswer(r) PROVE TypeOK' /\ ServerType'
  BY <1>1, <1>12 DEF ShowAnswer, TypeOK, owner
<1>13. ASSUME NEW r \in Requests, ShowNetworkError(r) PROVE TypeOK' /\ ServerType'
  BY <1>1, <1>13 DEF ShowNetworkError, TypeOK, owner
<1>14. CASE UNCHANGED vars
  BY <1>1, <1>2, <1>14 DEF vars
<1> QED
  BY <1>3, <1>4, <1>5, <1>6, <1>7, <1>8, <1>9, <1>10, <1>11, <1>12, <1>13, <1>14
  DEF Next

-----------------------------------------------------------------------------
(* Tokens and leads.                                                       *)

LEMMA TokenTypes ==
    ASSUME TypeOK, NEW r \in Requests, sent[r] # NoMessage
    PROVE  /\ sent[r].session \in Sessions
           /\ sent[r].widget \in Widgets
           /\ sent[r].token \in Tokens /\ sent[r].token # NoToken
           /\ sent[r].names \in SUBSET Names
BY NothingAssumption DEF TypeOK, Messages

LEMMA InitToken == Init => OneToken /\ AskedIsSent /\ Received /\ Thanked
<1> SUFFICES ASSUME Init PROVE OneToken /\ AskedIsSent /\ Received /\ Thanked
  OBVIOUS
<1>1. OneToken
  BY DEF Init, OneToken
<1>2. \A r \in Requests : answer[r].status = 0
  BY DEF Init, Server!Init, Server!NoAnswer
<1>3. AskedIsSent /\ Received
  BY <1>2 DEF Init, Server!Init, AskedIsSent, Received
<1>4. Thanked
  BY DEF Init, Thanked
<1> QED
  BY <1>1, <1>3, <1>4

\* The steps that post nothing and ask nothing.
LEMMA QuietToken ==
    ASSUME OneToken, AskedIsSent, Received,
           UNCHANGED <<captured, asked, phase, answer, sent, token>>
    PROVE  OneToken' /\ AskedIsSent' /\ Received'
BY DEF OneToken, AskedIsSent, Received

LEMMA SubmitToken ==
    ASSUME TokenInv, NEW s \in Sessions, NEW r \in Requests, Submit(s, r)
    PROVE  OneToken' /\ AskedIsSent' /\ Received' /\ Thanked'
<1> DEFINE w == page[s].widget
<1>1. /\ page[s] # NoPage /\ sent[r] = NoMessage
      /\ status' = [status EXCEPT ![s] = "sending"]
      /\ UNCHANGED <<server, page>>
  BY DEF Submit
<1>2. w \in Widgets /\ page[s].cfg.fields \in SUBSET Names
  BY <1>1, ConfigType DEF TokenInv, TypeOK, Pages
<1>3. PICK t \in clientToken(s, w) :
         /\ token' = [token EXCEPT ![s][w] = t]
         /\ sent' = [sent EXCEPT ![r] = [session |-> s, widget |-> w, token |-> t,
                                         names |-> page[s].cfg.fields,
                                         long |-> typed[s] = "long"]]
  BY DEF Submit
<1>4. t \in Tokens /\ t # NoToken
  BY <1>2, <1>3, NothingAssumption DEF clientToken, NewTokens, TokenInv, TypeOK
<1>5. /\ sent'[r] # NoMessage
      /\ sent'[r].session = s /\ sent'[r].widget = w /\ sent'[r].token = t
      /\ \A q \in Requests \ {r} : sent'[q] = sent[q]
  <2>1. [session |-> s, widget |-> w, token |-> t,
         names |-> page[s].cfg.fields,
         long |-> typed[s] = "long"] \in Messages
    BY <1>2, <1>4 DEF Messages
  <2> QED
    BY <1>3, <2>1, NothingAssumption DEF TokenInv, TypeOK
<1> HIDE DEF w
<1>6. /\ token'[s][w] = t
      /\ \A z \in Sessions, v \in Widgets : z # s \/ v # w => token'[z][v] = token[z][v]
  BY <1>2, <1>3 DEF TokenInv, TypeOK
\* The token of the tab is the one it has, or one that nobody has.
<1>7. \/ token[s][w] = t
      \/ /\ token[s][w] = NoToken
         /\ \A q \in Requests : sent[q] # NoMessage => sent[q].token # t
  BY <1>3 DEF clientToken, NewTokens
<1>8. ASSUME NEW q \in Requests, q # r, sent[q] # NoMessage
      PROVE  sent[q].session = s /\ sent[q].widget = w <=> sent[q].token = t
  <2>1. /\ token[sent[q].session][sent[q].widget] = sent[q].token
        /\ sent[q].token # NoToken
    BY <1>8, TokenTypes DEF TokenInv, OneToken
  <2>2. CASE token[s][w] = t
    <3>1. PICK x \in Requests :
             sent[x] # NoMessage /\ sent[x].session = s /\ sent[x].widget = w
      BY <1>2, <1>4, <2>2 DEF TokenInv, OneToken
    <3>2. sent[x].token = t
      BY <2>2, <3>1 DEF TokenInv, OneToken
    <3> QED
      BY <1>8, <2>1, <2>2, <3>1, <3>2 DEF TokenInv, OneToken
  <2>3. CASE token[s][w] = NoToken /\ sent[q].token # t
    BY <2>1, <2>3
  <2> QED
    BY <1>7, <1>8, <2>2, <2>3
<1>9. OneToken'
  <2>1. ASSUME NEW q \in Requests, sent'[q] # NoMessage
        PROVE  token'[sent'[q].session][sent'[q].widget] = sent'[q].token
    <3>1. CASE q = r
      BY <1>5, <1>6, <3>1
    <3>2. CASE q # r
      BY <1>5, <1>6, <1>8, <2>1, <3>2, TokenTypes DEF TokenInv, OneToken
    <3> QED
      BY <3>1, <3>2
  <2>2. ASSUME NEW z \in Sessions, NEW v \in Widgets, token'[z][v] # NoToken
        PROVE  \E q \in Requests : /\ sent'[q] # NoMessage
                                   /\ sent'[q].session = z /\ sent'[q].widget = v
    <3>1. CASE z = s /\ v = w
      BY <1>5, <3>1
    <3>2. CASE z # s \/ v # w
      <4>1. PICK q \in Requests :
               sent[q] # NoMessage /\ sent[q].session = z /\ sent[q].widget = v
        BY <1>6, <2>2, <3>2 DEF TokenInv, OneToken
      <4> QED
        BY <1>1, <1>5, <4>1
    <3> QED
      BY <3>1, <3>2
  <2>3. ASSUME NEW x \in Requests, NEW q \in Requests,
               sent'[x] # NoMessage, sent'[q] # NoMessage, sent'[x].token = sent'[q].token
        PROVE  sent'[x].session = sent'[q].session /\ sent'[x].widget = sent'[q].widget
    BY <1>5, <1>8, <2>3 DEF TokenInv, OneToken
  <2> QED
    BY <2>1, <2>2, <2>3 DEF OneToken
<1>10. phase[r] = "idle" /\ r \notin captured /\ answer[r].status = 0
  BY <1>1 DEF TokenInv, AskedIsSent
<1>11. AskedIsSent'
  BY <1>1, <1>5, <1>10 DEF TokenInv, AskedIsSent, server
<1>12. captured \in SUBSET (Requests \ {r})
  BY <1>10 DEF TokenInv, ServerType
<1>13. Received'
  <2>1. \A x, y \in captured :
           sent'[x].widget = sent'[y].widget /\ sent'[x].token = sent'[y].token => x = y
    BY <1>5, <1>12 DEF TokenInv, Received
  <2>2. ASSUME NEW q \in Requests, answer[q].status \in {200, 201},
               sent'[q].session \notin Bots
        PROVE  \E x \in captured : /\ sent'[x].widget = sent'[q].widget
                                   /\ sent'[x].token = sent'[q].token
    <3>1. q # r
      BY <1>10, <2>2
    <3> QED
      BY <1>5, <1>12, <2>2, <3>1 DEF TokenInv, Received
  <2> QED
    BY <1>1, <2>1, <2>2 DEF Received, server
<1>14. Thanked'
  <2> SUFFICES ASSUME NEW z \in Sessions, status'[z] = "thanks"
               PROVE  /\ page[z] # NoPage
                      /\ z \notin Bots => \E x \in captured :
                            sent'[x].session = z /\ sent'[x].widget = page[z].widget
    BY <1>1 DEF Thanked, server
  <2>1. z # s /\ status[z] = "thanks"
    BY <1>1 DEF TokenInv, TypeOK
  <2> QED
    BY <1>5, <1>12, <2>1 DEF TokenInv, Thanked
<1> QED
  BY <1>9, <1>11, <1>13, <1>14

LEMMA ArriveToken ==
    ASSUME TokenInv, NEW r \in Requests, Arrive(r)
    PROVE  OneToken' /\ AskedIsSent' /\ Received' /\ Thanked'
<1>1. /\ sent[r] # NoMessage
      /\ phase[r] = "idle"
      /\ phase' = [phase EXCEPT ![r] = "asked"]
      /\ asked' = [asked EXCEPT ![r] =
                     [widget |-> sent[r].widget, token |-> sent[r].token,
                      data |-> classify(sent[r], config[sent[r].widget])]]
      /\ UNCHANGED <<captured, answer, page, status, sent, token>>
  BY DEF Arrive, Server!Ask, tab, wire
<1>2. classify(sent[r], config[sent[r].widget]) = "spam" => sent[r].session \in Bots
  BY DEF classify
<1>3. AskedIsSent'
  BY <1>1, <1>2 DEF TokenInv, AskedIsSent, ServerType
<1>4. OneToken' /\ Received' /\ Thanked'
  BY <1>1 DEF TokenInv, OneToken, Received, Thanked
<1> QED
  BY <1>3, <1>4

LEMMA CaptureToken ==
    ASSUME TokenInv, NEW r \in Requests, Server!Capture(r),
           UNCHANGED <<page, status, sent, token>>
    PROVE  OneToken' /\ AskedIsSent' /\ Received' /\ Thanked'
<1>1. /\ phase[r] = "asked" /\ r \notin captured
      /\ \A x \in captured : ~Server!SameKey(x, r)
      /\ captured' = captured \union {r}
      /\ UNCHANGED <<asked, phase, answer>>
  BY DEF Server!Capture
<1>2. \A x \in captured : ~(sent[x].widget = sent[r].widget /\ sent[x].token = sent[r].token)
  <2>1. /\ asked[r].widget = sent[r].widget /\ asked[r].token = sent[r].token
        /\ sent[r] # NoMessage
    BY <1>1 DEF TokenInv, AskedIsSent
  <2>2. sent[r].token # NoToken
    BY <2>1, TokenTypes DEF TokenInv
  <2>3. \A x \in captured : /\ asked[x].widget = sent[x].widget
                            /\ asked[x].token = sent[x].token
    BY DEF TokenInv, AskedIsSent, ServerType
  <2> QED
    BY <1>1, <2>1, <2>2, <2>3 DEF Server!SameKey
<1>3. OneToken' /\ AskedIsSent'
  BY <1>1 DEF TokenInv, OneToken, AskedIsSent
<1>4. Received'
  <2>1. \A x, y \in captured' :
           sent[x].widget = sent[y].widget /\ sent[x].token = sent[y].token => x = y
    BY <1>1, <1>2 DEF TokenInv, Received
  <2> QED
    BY <1>1, <2>1 DEF TokenInv, Received
<1>5. Thanked'
  BY <1>1 DEF TokenInv, Thanked
<1> QED
  BY <1>3, <1>4, <1>5

LEMMA ReplyToken ==
    ASSUME TokenInv, NEW r \in Requests, Server!Reply(r),
           UNCHANGED <<page, status, sent, token>>
    PROVE  OneToken' /\ AskedIsSent' /\ Received' /\ Thanked'
<1>1. PICK st \in Nat, id \in Requests \union {NoId} :
         /\ Server!Answer(r, st, id)
         /\ st \in {200, 201} =>
               \/ asked[r].data = "spam"
               \/ \E x \in captured : x = r \/ Server!SameKey(x, r)
  <2>1. CASE Server!Confirm(r)
    BY <2>1 DEF Server!Confirm, TokenInv, ServerType
  <2>2. CASE Server!Repeat(r)
    BY <2>2 DEF Server!Repeat, TokenInv, ServerType
  <2>3. CASE Server!Refuse(r)
    BY <2>3 DEF Server!Refuse
  <2> QED
    BY <2>1, <2>2, <2>3 DEF Server!Reply
<1>2. /\ phase[r] = "asked"
      /\ phase' = [phase EXCEPT ![r] = "done"]
      /\ answer' = [answer EXCEPT ![r] = [status |-> st, id |-> id]]
      /\ UNCHANGED <<captured, asked>>
  BY <1>1 DEF Server!Answer
<1>3. /\ answer'[r].status = st
      /\ \A q \in Requests \ {r} : answer'[q] = answer[q]
  BY <1>2 DEF TokenInv, ServerType
<1>4. OneToken' /\ Thanked'
  BY <1>2 DEF TokenInv, OneToken, Thanked
<1>5. AskedIsSent'
  BY <1>2, <1>3 DEF TokenInv, AskedIsSent, ServerType
<1>6. ASSUME st \in {200, 201}, sent[r].session \notin Bots
      PROVE  \E x \in captured : /\ sent[x].widget = sent[r].widget
                                 /\ sent[x].token = sent[r].token
  <2>1. /\ asked[r].widget = sent[r].widget /\ asked[r].token = sent[r].token
        /\ asked[r].data # "spam"
    BY <1>2, <1>6 DEF TokenInv, AskedIsSent
  <2>2. \A x \in captured : /\ asked[x].widget = sent[x].widget
                            /\ asked[x].token = sent[x].token
    BY DEF TokenInv, AskedIsSent, ServerType
  <2> QED
    BY <1>1, <1>6, <2>1, <2>2 DEF Server!SameKey
<1>7. Received'
  BY <1>2, <1>3, <1>6 DEF TokenInv, Received
<1> QED
  BY <1>4, <1>5, <1>7

LEMMA ShowAnswerThanked ==
    ASSUME TokenInv, NEW r \in Requests, ShowAnswer(r)
    PROVE  Thanked'
<1> DEFINE s == sent[r].session
<1>1. /\ r \in waiting /\ sent[r] # NoMessage
      /\ page[s] # NoPage /\ page[s].widget = sent[r].widget
      /\ s \in Sessions
      /\ UNCHANGED <<captured, sent, page>>
  BY TokenTypes DEF ShowAnswer, TokenInv, TypeOK, server
<1>2. \/ /\ answer[r].status \in {200, 201}
         /\ status' = [status EXCEPT ![s] = "thanks"]
      \/ status' = [status EXCEPT ![s] = "error"]
  BY DEF ShowAnswer, accepted
<1>3. ASSUME answer[r].status \in {200, 201}, s \notin Bots
      PROVE  \E x \in captured : sent[x].session = s /\ sent[x].widget = page[s].widget
  <2>1. PICK x \in captured : /\ sent[x].widget = sent[r].widget
                              /\ sent[x].token = sent[r].token
    BY <1>3 DEF TokenInv, Received
  <2>2. x \in Requests /\ sent[x] # NoMessage
    BY DEF TokenInv, ServerType, AskedIsSent
  <2>3. sent[x].session = s
    BY <1>1, <2>1, <2>2 DEF TokenInv, OneToken
  <2> QED
    BY <1>1, <2>1, <2>3
<1>4. \A z \in Sessions \ {s} : status'[z] = status[z]
  BY <1>2 DEF TokenInv, TypeOK
<1>5. status'[s] = "thanks" => answer[r].status \in {200, 201}
  BY <1>1, <1>2 DEF TokenInv, TypeOK
<1> QED
  BY <1>1, <1>3, <1>4, <1>5 DEF TokenInv, Thanked

LEMMA NextToken == TokenInv /\ [Next]_vars => TokenInv'
<1> SUFFICES ASSUME TokenInv, [Next]_vars PROVE TokenInv'
  OBVIOUS
<1>1. TypeOK' /\ ServerType'
  BY NextType DEF TokenInv
<1>2. ASSUME UNCHANGED <<captured, asked, phase, answer, sent, token>>
      PROVE  OneToken' /\ AskedIsSent' /\ Received'
  BY <1>2, QuietToken DEF TokenInv
<1>3. CASE \/ Tick \/ UNCHANGED vars
           \/ \E w \in Widgets : Edit(w) \/ Delete(w)
           \/ \E s \in Sessions : FillIn(s)
  <2>1. UNCHANGED <<captured, asked, phase, answer, sent, token, page, status>>
    BY <1>3 DEF Tick, Edit, Delete, FillIn, Server!Retire, vars, server, tab, wire
  <2>2. Thanked'
    BY <2>1 DEF TokenInv, Thanked
  <2> QED
    BY <1>1, <1>2, <2>1, <2>2 DEF TokenInv
<1>4. ASSUME NEW s \in Sessions, NEW w \in Widgets, Render(s, w) PROVE TokenInv'
  <2>1. /\ UNCHANGED <<captured, asked, phase, answer, sent, token, status>>
        /\ page[s] = NoPage
        /\ \A z \in Sessions \ {s} : page'[z] = page[z]
    BY <1>4 DEF Render, server, wire, TokenInv, TypeOK
  <2>2. Thanked'
    BY <2>1 DEF TokenInv, Thanked
  <2> QED
    BY <1>1, <1>2, <2>1, <2>2 DEF TokenInv
<1>5. ASSUME NEW s \in Sessions, Leave(s) \/ SubmitIncomplete(s) PROVE TokenInv'
  <2>1. /\ UNCHANGED <<captured, asked, phase, answer, sent, token>>
        /\ status'[s] # "thanks"
        /\ \A z \in Sessions \ {s} : page'[z] = page[z] /\ status'[z] = status[z]
    BY <1>5 DEF Leave, SubmitIncomplete, server, wire, TokenInv, TypeOK
  <2>2. Thanked'
    BY <2>1 DEF TokenInv, Thanked
  <2> QED
    BY <1>1, <1>2, <2>1, <2>2 DEF TokenInv
<1>6. ASSUME NEW s \in Sessions, NEW r \in Requests, Submit(s, r) PROVE TokenInv'
  BY <1>1, <1>6, SubmitToken DEF TokenInv
<1>7. ASSUME NEW r \in Requests, Arrive(r) PROVE TokenInv'
  BY <1>1, <1>7, ArriveToken DEF TokenInv
<1>8. CASE Serve
  <2>1. UNCHANGED <<page, status, sent, token>>
    BY <1>8 DEF Serve, tab, wire
  <2>2. CASE Server!Lose
    <3>1. /\ UNCHANGED <<captured, asked, answer>>
          /\ \A r \in Requests : /\ phase'[r] # "idle" <=> phase[r] # "idle"
                                 /\ phase[r] = "done" => phase'[r] = "done"
      BY <2>2 DEF Server!Lose, TokenInv, ServerType
    <3>2. OneToken' /\ Received' /\ Thanked'
      BY <2>1, <3>1 DEF TokenInv, OneToken, Received, Thanked
    <3>3. AskedIsSent'
      BY <2>1, <3>1 DEF TokenInv, AskedIsSent, ServerType
    <3> QED
      BY <1>1, <3>2, <3>3 DEF TokenInv
  <2> QED
    BY <1>1, <1>8, <2>1, <2>2, CaptureToken, ReplyToken DEF Serve, TokenInv
<1>9. ASSUME NEW r \in Requests, ShowAnswer(r) PROVE TokenInv'
  <2>1. UNCHANGED <<captured, asked, phase, answer, sent, token>>
    BY <1>9 DEF ShowAnswer, server
  <2> QED
    BY <1>1, <1>2, <1>9, <2>1, ShowAnswerThanked DEF TokenInv
<1>10. ASSUME NEW r \in Requests, ShowNetworkError(r) PROVE TokenInv'
  <2>1. /\ UNCHANGED <<captured, asked, phase, answer, sent, token, page>>
        /\ \A z \in Sessions : status'[z] \in {status[z], "error"}
    BY <1>10 DEF ShowNetworkError, server, TokenInv, TypeOK
  <2>2. Thanked'
    BY <2>1 DEF TokenInv, Thanked
  <2> QED
    BY <1>1, <1>2, <2>1, <2>2 DEF TokenInv
<1> QED
  BY <1>3, <1>4, <1>5, <1>6, <1>7, <1>8, <1>9, <1>10 DEF Next

-----------------------------------------------------------------------------
(* Configs and forms.                                                      *)

\* Each config was the widget's no earlier than before, and the fields of the
\* current one only go.
Older ==
    /\ clock \in Nat /\ clock' \in Nat /\ clock <= clock'
    /\ \A w \in Widgets, c \in Configs :
          /\ lastCurrent(w, c) \in Nat /\ lastCurrent(w, c)' \in Nat
          /\ lastCurrent(w, c) <= lastCurrent(w, c)'
          /\ left'[w][c] <= clock'
    /\ \A w \in Widgets : config'[w].fields \in {config[w].fields, {}}

LEMMA LeftType ==
    ASSUME TypeOK
    PROVE  /\ clock \in Nat
           /\ \A w \in Widgets, c \in Configs : left[w][c] \in Nat
           /\ \A w \in Widgets : config[w] \in Configs
BY DEF TypeOK

LEMMA OwnerOlder ==
    ASSUME TypeOK, Aged, NEW w \in Widgets, Edit(w) \/ Delete(w)
    PROVE  Older
<1>1. /\ clock \in Nat /\ clock' = clock
      /\ w \in widgets
      /\ left' = [left EXCEPT ![w][config[w]] = clock]
      /\ \/ widgets' = widgets
         \/ widgets' = widgets \ {w} /\ config' = config
      /\ \/ config' = config
         \/ \E c \in Configs : /\ c.fields \in {config[w].fields, {}}
                               /\ config' = [config EXCEPT ![w] = c]
  BY LeftType DEF Edit, Delete, Server!Retire, server
<1>2. \A v \in Widgets : config'[v].fields \in {config[v].fields, {}}
  BY <1>1 DEF TypeOK
<1>3. /\ left'[w][config[w]] = clock
      /\ \A v \in Widgets, c \in Configs :
            v # w \/ c # config[w] => left'[v][c] = left[v][c]
  BY <1>1, LeftType DEF TypeOK
<1>4. \A v \in Widgets \ {w} : config'[v] = config[v] /\ (v \in widgets' <=> v \in widgets)
  BY <1>1 DEF TypeOK
<1>5. ASSUME NEW v \in Widgets, NEW c \in Configs
      PROVE  /\ lastCurrent(v, c) \in Nat /\ lastCurrent(v, c)' \in Nat
             /\ lastCurrent(v, c) <= lastCurrent(v, c)'
             /\ left'[v][c] <= clock'
  <2>1. left[v][c] \in Nat /\ left[v][c] <= clock
    BY LeftType DEF Aged
  <2>2. lastCurrent(v, c) = IF v \in widgets /\ config[v] = c THEN clock ELSE left[v][c]
    BY DEF lastCurrent
  <2>3. lastCurrent(v, c)' = IF v \in widgets' /\ config'[v] = c THEN clock ELSE left'[v][c]
    BY <1>1 DEF lastCurrent
  <2>4. CASE v = w /\ c = config[w]
    BY <1>1, <1>3, <2>1, <2>2, <2>3, <2>4
  <2>5. CASE v # w
    BY <1>1, <1>3, <1>4, <2>1, <2>2, <2>3, <2>5
  <2>6. CASE v = w /\ c # config[w]
    BY <1>1, <1>3, <2>1, <2>2, <2>3, <2>6
  <2> QED
    BY <2>4, <2>5, <2>6
<1> QED
  BY <1>1, <1>2, <1>5 DEF Older

LEMMA TickOlder ==
    ASSUME TypeOK, Aged, Tick
    PROVE  Older
<1>1. clock \in Nat /\ clock' = clock + 1 /\ UNCHANGED <<widgets, config, left>>
  BY LeftType DEF Tick, server, owner
<1>2. \A w \in Widgets, c \in Configs : left[w][c] \in Nat /\ left[w][c] <= clock
  BY LeftType DEF Aged
<1> QED
  BY <1>1, <1>2 DEF Older, lastCurrent

\* What stays in the cache or on the screen only gets older.
LEMMA OlderAged ==
    ASSUME TypeOK, Aged, Older, UNCHANGED <<cache, page>>
    PROVE  Aged'
<1>1. \A w \in Widgets, c \in Configs : left'[w][c] <= clock'
  BY DEF Older
<1>2. ASSUME NEW w \in Widgets, cache[w] # NoEntry
      PROVE  /\ cache[w].at <= lastCurrent(w, cache[w].cfg)'
             /\ config'[w].fields \in {cache[w].cfg.fields, {}}
  <2>1. cache[w].cfg \in Configs /\ cache[w].at \in Nat
    BY <1>2 DEF TypeOK, Entries
  <2> QED
    BY <1>2, <2>1 DEF Aged, Older
<1>3. ASSUME NEW s \in Sessions, page[s] # NoPage
      PROVE  /\ page[s].at < lastCurrent(page[s].widget, page[s].cfg)' + MaxAge
             /\ config'[page[s].widget].fields \in {page[s].cfg.fields, {}}
  <2>1. page[s].cfg \in Configs /\ page[s].at \in Nat /\ page[s].widget \in Widgets
    BY <1>3 DEF TypeOK, Pages
  <2>2. page[s].at < lastCurrent(page[s].widget, page[s].cfg) + MaxAge
    BY <1>3 DEF Aged
  <2>3. /\ lastCurrent(page[s].widget, page[s].cfg) \in Nat
        /\ lastCurrent(page[s].widget, page[s].cfg)' \in Nat
        /\ lastCurrent(page[s].widget, page[s].cfg)
             <= lastCurrent(page[s].widget, page[s].cfg)'
    BY <2>1 DEF Older
  <2>4. config'[page[s].widget].fields \in {page[s].cfg.fields, {}}
    BY <1>3, <2>1 DEF Aged, Older
  <2> QED
    BY <2>1, <2>2, <2>3, <2>4, SettingsAssumption
<1> QED
  BY <1>1, <1>2, <1>3 DEF Aged, lastCurrent

LEMMA RenderAged ==
    ASSUME TypeOK, Aged, NEW s \in Sessions, NEW w \in Widgets, Render(s, w)
    PROVE  Aged'
<1>1. UNCHANGED <<widgets, config, left, clock>>
  BY DEF Render, server, owner
<1>2. PICK c \in Configs :
         /\ page' = [page EXCEPT ![s] = [widget |-> w, cfg |-> c, at |-> clock]]
         /\ \/ Fresh(w) /\ c = cache[w].cfg /\ UNCHANGED cache
            \/ /\ w \in widgets /\ c = config[w]
               /\ cache' = [cache EXCEPT ![w] = [cfg |-> c, at |-> clock]]
  <2>1. cache[w] # NoEntry => cache[w].cfg \in Configs
    BY DEF TypeOK, Entries
  <2>2. get_config(w) = config[w] /\ config[w] \in Configs
    BY LeftType DEF get_config, etag
  <2> QED
    BY <2>1, <2>2 DEF Render, Fresh
<1>3. \A v \in Widgets, d \in Configs : lastCurrent(v, d)' = lastCurrent(v, d)
  BY <1>1 DEF lastCurrent
<1>4. /\ clock < lastCurrent(w, c) + MaxAge
      /\ config[w].fields \in {c.fields, {}}
  <2>1. CASE Fresh(w) /\ c = cache[w].cfg
    <3>1. /\ cache[w].at <= lastCurrent(w, c) /\ clock < cache[w].at + MaxAge
          /\ config[w].fields \in {c.fields, {}}
      BY <2>1 DEF Fresh, Aged
    <3>2. cache[w].at \in Nat /\ lastCurrent(w, c) \in Nat /\ clock \in Nat
      BY <2>1, LeftType DEF Fresh, lastCurrent, TypeOK, Entries
    <3> QED
      BY <3>1, <3>2, SettingsAssumption
  <2>2. CASE w \in widgets /\ c = config[w]
    BY <2>2, LeftType, SettingsAssumption DEF lastCurrent
  <2> QED
    BY <1>2, <2>1, <2>2
<1>5. ASSUME NEW z \in Sessions, page'[z] # NoPage
      PROVE  /\ page'[z].at < lastCurrent(page'[z].widget, page'[z].cfg) + MaxAge
             /\ config[page'[z].widget].fields \in {page'[z].cfg.fields, {}}
  <2>1. CASE z = s
    <3>1. page'[z] = [widget |-> w, cfg |-> c, at |-> clock]
      BY <1>2, <2>1 DEF TypeOK
    <3> QED
      BY <1>4, <3>1
  <2>2. CASE z # s
    <3>1. page'[z] = page[z]
      BY <1>2, <2>2 DEF TypeOK
    <3> QED
      BY <1>5, <3>1 DEF Aged
  <2> QED
    BY <2>1, <2>2
<1>6. ASSUME NEW v \in Widgets, cache'[v] # NoEntry
      PROVE  /\ cache'[v].at <= lastCurrent(v, cache'[v].cfg)
             /\ config[v].fields \in {cache'[v].cfg.fields, {}}
  <2>1. CASE cache'[v] = cache[v]
    BY <1>6, <2>1 DEF Aged
  <2>2. CASE cache'[v] # cache[v]
    <3>1. v = w /\ w \in widgets /\ c = config[w]
          /\ cache'[v] = [cfg |-> c, at |-> clock]
      BY <1>2, <2>2 DEF TypeOK
    <3>2. clock <= lastCurrent(w, c)
      BY <3>1, LeftType DEF lastCurrent
    <3> QED
      BY <3>1, <3>2
  <2> QED
    BY <2>1, <2>2
<1> QED
  BY <1>1, <1>5, <1>6 DEF Aged, lastCurrent

\* What was posted or asked keeps fitting as little as it did.
LEMMA OlderShrunk ==
    ASSUME TypeOK, ServerType, AskedIsSent, Shrunk,
           \A w \in Widgets : config'[w].fields \in {config[w].fields, {}},
           UNCHANGED <<asked, answer, sent>>,
           \A r \in Requests : phase'[r] # "idle" => phase[r] # "idle"
    PROVE  Shrunk'
<1> SUFFICES ASSUME NEW r \in Requests
             PROVE  /\ sent[r] # NoMessage =>
                          config'[sent[r].widget].fields \in {sent[r].names, {}}
                    /\ phase'[r] # "idle" /\ asked[r].data = "invalid" =>
                          sent[r].names # config'[sent[r].widget].fields
                    /\ phase'[r] # "idle" /\ asked[r].data = "malformed" =>
                          sent[r].long
                    /\ answer[r].status = 422 =>
                          asked[r].data \in {"invalid", "malformed"}
  BY DEF Shrunk
<1>1. ASSUME sent[r] # NoMessage
      PROVE  /\ config'[sent[r].widget].fields \in {config[sent[r].widget].fields, {}}
             /\ config[sent[r].widget].fields \in {sent[r].names, {}}
  BY <1>1, TokenTypes DEF Shrunk
<1>2. phase'[r] # "idle" => sent[r] # NoMessage
  BY DEF AskedIsSent
<1>3. phase'[r] # "idle" /\ asked[r].data = "invalid" =>
         sent[r].names # config[sent[r].widget].fields
  BY DEF Shrunk
<1>4. /\ phase'[r] # "idle" /\ asked[r].data = "malformed" => sent[r].long
      /\ answer[r].status = 422 => asked[r].data \in {"invalid", "malformed"}
  BY DEF Shrunk
<1> QED
  BY <1>1, <1>2, <1>3, <1>4

LEMMA SubmitShrunk ==
    ASSUME TokenInv, Aged, Shrunk, NEW s \in Sessions, NEW r \in Requests, Submit(s, r)
    PROVE  Shrunk'
<1>1. PICK t \in clientToken(s, page[s].widget) :
         sent' = [sent EXCEPT ![r] = [session |-> s, widget |-> page[s].widget,
                                      token |-> t, names |-> page[s].cfg.fields,
                                      long |-> typed[s] = "long"]]
  BY DEF Submit
<1>2. /\ page[s] # NoPage /\ sent[r] = NoMessage
      /\ UNCHANGED <<asked, answer, phase, config>>
  BY DEF Submit, server, owner
<1>3. /\ sent'[r].widget = page[s].widget /\ sent'[r].names = page[s].cfg.fields
      /\ \A q \in Requests \ {r} : sent'[q] = sent[q]
  BY <1>1 DEF TokenInv, TypeOK
<1>4. config[page[s].widget].fields \in {page[s].cfg.fields, {}}
  BY <1>2 DEF Aged
<1>5. phase[r] = "idle"
  BY <1>2 DEF TokenInv, AskedIsSent
<1> QED
  BY <1>2, <1>3, <1>4, <1>5 DEF Shrunk

LEMMA ArriveShrunk ==
    ASSUME TokenInv, Shrunk, NEW r \in Requests, Arrive(r)
    PROVE  Shrunk'
<1> DEFINE c == config[sent[r].widget]
<1>1. /\ sent[r] # NoMessage
      /\ phase[r] = "idle"
      /\ phase' = [phase EXCEPT ![r] = "asked"]
      /\ asked' = [asked EXCEPT ![r] =
                     [widget |-> sent[r].widget, token |-> sent[r].token,
                      data |-> classify(sent[r], c)]]
      /\ UNCHANGED <<answer, sent, config>>
  BY DEF Arrive, Server!Ask, owner, wire
<1>2. answer[r].status = 0
  BY <1>1 DEF TokenInv, AskedIsSent
<1>3. /\ classify(sent[r], c) = "invalid" => sent[r].names # c.fields
      /\ classify(sent[r], c) = "malformed" => sent[r].long
  BY DEF classify, unknown, too_long
<1>4. /\ asked'[r].data = classify(sent[r], c)
      /\ \A q \in Requests \ {r} : asked'[q] = asked[q] /\ phase'[q] = phase[q]
  BY <1>1 DEF TokenInv, ServerType
<1>5. /\ config[sent[r].widget].fields \in {sent[r].names, {}}
      /\ asked'[r].data = "invalid" => sent[r].names # config[sent[r].widget].fields
      /\ asked'[r].data = "malformed" => sent[r].long
  BY <1>1, <1>3, <1>4 DEF Shrunk
<1>6. ASSUME NEW q \in Requests, q # r
      PROVE  /\ sent[q] # NoMessage =>
                    config[sent[q].widget].fields \in {sent[q].names, {}}
             /\ phase'[q] # "idle" /\ asked'[q].data = "invalid" =>
                    sent[q].names # config[sent[q].widget].fields
             /\ phase'[q] # "idle" /\ asked'[q].data = "malformed" => sent[q].long
             /\ answer[q].status = 422 => asked'[q].data \in {"invalid", "malformed"}
  BY <1>4, <1>6 DEF Shrunk
<1>7. ASSUME NEW q \in Requests
      PROVE  /\ sent[q] # NoMessage =>
                    config[sent[q].widget].fields \in {sent[q].names, {}}
             /\ phase'[q] # "idle" /\ asked'[q].data = "invalid" =>
                    sent[q].names # config[sent[q].widget].fields
             /\ phase'[q] # "idle" /\ asked'[q].data = "malformed" => sent[q].long
             /\ answer[q].status = 422 => asked'[q].data \in {"invalid", "malformed"}
  <2>1. CASE q = r
    BY <1>2, <1>5, <2>1
  <2>2. CASE q # r
    BY <1>6, <2>2
  <2> QED
    BY <2>1, <2>2
<1>8. UNCHANGED <<answer, sent, config>>
  BY <1>1
<1> QED
  BY <1>7, <1>8 DEF Shrunk

LEMMA ReplyShrunk ==
    ASSUME TokenInv, Shrunk, NEW r \in Requests, Server!Reply(r),
           UNCHANGED <<sent, config>>
    PROVE  Shrunk'
<1>1. PICK st \in Nat, id \in Requests \union {NoId} :
         /\ Server!Answer(r, st, id)
         /\ st = 422 => asked[r].data \in {"invalid", "malformed"}
  <2>1. CASE Server!Confirm(r)
    BY <2>1 DEF Server!Confirm
  <2>2. CASE Server!Repeat(r)
    BY <2>2 DEF Server!Repeat, TokenInv, ServerType
  <2>3. CASE Server!Refuse(r)
    BY <2>3 DEF Server!Refuse
  <2> QED
    BY <2>1, <2>2, <2>3 DEF Server!Reply
<1>2. /\ phase[r] = "asked"
      /\ phase' = [phase EXCEPT ![r] = "done"]
      /\ answer' = [answer EXCEPT ![r] = [status |-> st, id |-> id]]
      /\ UNCHANGED asked
  BY <1>1 DEF Server!Answer
<1>3. /\ answer'[r].status = st
      /\ \A q \in Requests \ {r} : answer'[q] = answer[q] /\ phase'[q] = phase[q]
  BY <1>2 DEF TokenInv, ServerType
<1>4. ASSUME NEW q \in Requests
      PROVE  /\ phase'[q] # "idle" => phase[q] # "idle"
             /\ answer'[q].status = 422 => asked[q].data \in {"invalid", "malformed"}
  <2>1. CASE q = r
    BY <1>1, <1>2, <1>3, <2>1
  <2>2. CASE q # r
    BY <1>3, <2>2 DEF Shrunk
  <2> QED
    BY <2>1, <2>2
<1> QED
  BY <1>2, <1>4 DEF Shrunk

LEMMA InitIInv == Init => IInv
<1> SUFFICES ASSUME Init PROVE IInv
  OBVIOUS
<1>1. TypeOK /\ ServerType
  BY InitType
<1>2. Aged
  BY DEF Init, Aged
<1>3. \A r \in Requests : /\ answer[r].status = 0 /\ phase[r] = "idle"
                          /\ sent[r] = NoMessage
  BY DEF Init, Server!Init, Server!NoAnswer
<1>4. Shrunk
  BY <1>3 DEF Shrunk
<1> QED
  BY <1>1, <1>2, <1>4, InitToken DEF IInv, TokenInv

LEMMA NextIInv == IInv /\ [Next]_vars => IInv'
<1> SUFFICES ASSUME IInv, [Next]_vars PROVE IInv'
  OBVIOUS
<1>1. TokenInv'
  BY NextToken DEF IInv
<1>2. ASSUME UNCHANGED <<widgets, config, left, clock>> PROVE Older
  <2>1. \A w \in Widgets, c \in Configs :
           /\ left[w][c] \in Nat /\ left[w][c] <= clock
           /\ lastCurrent(w, c) \in Nat /\ lastCurrent(w, c)' = lastCurrent(w, c)
    BY <1>2, LeftType DEF IInv, TokenInv, Aged, lastCurrent
  <2> QED
    BY <1>2, <2>1, LeftType DEF IInv, TokenInv, Older
<1>3. ASSUME Older, UNCHANGED <<cache, page>> PROVE Aged'
  BY <1>3, OlderAged DEF IInv, TokenInv
<1>4. ASSUME Older, UNCHANGED <<asked, answer, sent>>,
             \A r \in Requests : phase'[r] # "idle" => phase[r] # "idle"
      PROVE  Shrunk'
  BY <1>4, OlderShrunk DEF IInv, TokenInv, Older
<1>5. CASE Tick \/ \E w \in Widgets : Edit(w) \/ Delete(w)
  <2>1. Older
    BY <1>5, TickOlder, OwnerOlder DEF IInv, TokenInv
  <2>2. UNCHANGED <<cache, page, asked, answer, sent, phase>>
    BY <1>5 DEF Tick, Edit, Delete, Server!Retire, server, tab, wire
  <2> QED
    BY <1>1, <1>3, <1>4, <2>1, <2>2 DEF IInv
<1>6. ASSUME NEW s \in Sessions, NEW w \in Widgets, Render(s, w) PROVE IInv'
  <2>1. UNCHANGED <<widgets, config, left, clock, asked, answer, sent, phase>>
    BY <1>6 DEF Render, server, owner, wire
  <2>2. Aged'
    BY <1>6, RenderAged DEF IInv, TokenInv
  <2> QED
    BY <1>1, <1>2, <1>4, <2>1, <2>2 DEF IInv
<1>7. ASSUME NEW s \in Sessions, Leave(s) PROVE IInv'
  <2>1. UNCHANGED <<widgets, config, left, clock, cache, asked, answer, sent, phase>>
    BY <1>7 DEF Leave, server, owner
  <2>2. \A z \in Sessions : page'[z] \in {page[z], NoPage}
    BY <1>7 DEF Leave, IInv, TokenInv, TypeOK
  <2>3. Aged'
    BY <2>1, <2>2 DEF IInv, Aged, lastCurrent
  <2> QED
    BY <1>1, <1>2, <1>4, <2>1, <2>3 DEF IInv
<1>8. CASE \/ \E s \in Sessions : FillIn(s) \/ SubmitIncomplete(s)
           \/ \E r \in Requests : ShowAnswer(r) \/ ShowNetworkError(r)
           \/ UNCHANGED vars
  <2>1. UNCHANGED <<widgets, config, left, clock, cache, page, asked, answer, sent, phase>>
    BY <1>8 DEF FillIn, SubmitIncomplete, ShowAnswer, ShowNetworkError, vars,
                server, owner, tab, wire
  <2> QED
    BY <1>1, <1>2, <1>3, <1>4, <2>1 DEF IInv
<1>9. ASSUME NEW s \in Sessions, NEW r \in Requests, Submit(s, r) PROVE IInv'
  <2>1. UNCHANGED <<widgets, config, left, clock, cache, page>>
    BY <1>9 DEF Submit, server, owner
  <2> QED
    BY <1>1, <1>2, <1>3, <1>9, <2>1, SubmitShrunk DEF IInv
<1>10. ASSUME NEW r \in Requests, Arrive(r) PROVE IInv'
  <2>1. UNCHANGED <<widgets, config, left, clock, cache, page>>
    BY <1>10 DEF Arrive, Server!Ask, owner, tab
  <2> QED
    BY <1>1, <1>2, <1>3, <1>10, <2>1, ArriveShrunk DEF IInv
<1>11. CASE Serve
  <2>1. UNCHANGED <<config, left, clock, cache, page, sent, asked>>
    <3>1. UNCHANGED <<config, left, clock, cache, page, sent>>
      BY <1>11 DEF Serve, owner, tab, wire
    <3>2. UNCHANGED asked
      BY <1>11, ServerStep DEF Serve, Server!Lose, IInv, TokenInv
    <3> QED
      BY <3>1, <3>2
  <2>2. UNCHANGED widgets
    BY <1>11, ServerStep DEF Serve, Server!Lose, IInv, TokenInv
  <2>3. ASSUME NEW r \in Requests, Server!Reply(r) PROVE Shrunk'
    BY <2>1, <2>3, ReplyShrunk DEF IInv
  <2>4. ASSUME (\E r \in Requests : Server!Capture(r)) \/ Server!Lose
        PROVE  Shrunk'
    <3>1. UNCHANGED answer
      BY <2>4 DEF Server!Capture, Server!Lose
    <3>2. \A r \in Requests : phase'[r] # "idle" => phase[r] # "idle"
      BY <2>4 DEF Server!Capture, Server!Lose, IInv, TokenInv, ServerType
    <3> QED
      BY <1>2, <1>4, <2>1, <2>2, <3>1, <3>2
  <2>5. Shrunk'
    BY <1>11, <2>3, <2>4 DEF Serve
  <2> QED
    BY <1>1, <1>2, <1>3, <2>1, <2>2, <2>5 DEF IInv
<1> QED
  BY <1>5, <1>6, <1>7, <1>8, <1>9, <1>10, <1>11 DEF Next

LEMMA Invariant == Spec => []IInv
<1>1. Init => IInv
  BY InitIInv
<1>2. IInv /\ [Next]_vars => IInv'
  BY NextIInv
<1> QED
  BY <1>1, <1>2, PTL DEF Spec

\* Theorem: the browsers' variables keep their types, and a promise that is
\* waited for belongs to a form that is still there.
THEOREM TypeCorrect == Spec => []TypeOK
<1>1. IInv => TypeOK
  BY DEF IInv, TokenInv
<1> QED
  BY <1>1, Invariant, PTL

\* Theorem: widget.js thanks no visitor for nothing, and no tab has two leads
\* of one widget, however its requests are lost, delayed and repeated.
THEOREM ThanksAreTrue == Spec => []ThankedMeansStoredOnce
<1>1. ASSUME IInv PROVE ThankedMeansStoredOnce
  <2>1. \A s \in Sessions \ Bots : status[s] = "thanks" =>
           \E x \in captured : /\ sent[x].session = s
                               /\ sent[x].widget = page[s].widget
    BY <1>1 DEF IInv, TokenInv, Thanked
  <2>2. ASSUME NEW x \in captured, NEW y \in captured,
               sent[x].session = sent[y].session, sent[x].widget = sent[y].widget
        PROVE  x = y
    <3>1. /\ x \in Requests /\ sent[x] # NoMessage
          /\ y \in Requests /\ sent[y] # NoMessage
      BY <1>1 DEF IInv, TokenInv, ServerType, AskedIsSent
    <3>2. sent[x].token = sent[y].token
      BY <1>1, <2>2, <3>1 DEF IInv, TokenInv, OneToken
    <3> QED
      BY <1>1, <2>2, <3>2 DEF IInv, TokenInv, Received
  <2> QED
    BY <2>1, <2>2 DEF ThankedMeansStoredOnce
<1> QED
  BY <1>1, Invariant, PTL

\* Theorem: get_config and its caches give no visitor a form replaced max-age
\* ago or longer, and 422 is told only to those whose fields have changed or
\* who posted a value over the limit that widget.js does not know.
THEOREM FormsFit == Spec => []FormFitsWidget
<1>1. ASSUME IInv PROVE FormFitsWidget
  <2>1. \A s \in Sessions : page[s] # NoPage =>
           page[s].at < lastCurrent(page[s].widget, page[s].cfg) + MaxAge
    BY <1>1 DEF IInv, Aged
  <2>2. ASSUME NEW r \in Requests, answer[r].status = 422
        PROVE  sent[r].names # config[sent[r].widget].fields \/ sent[r].long
    <3>1. phase[r] = "done"
      BY <1>1, <2>2 DEF IInv, TokenInv, AskedIsSent
    <3> QED
      BY <1>1, <2>2, <3>1 DEF IInv, Shrunk
  <2> QED
    BY <2>1, <2>2 DEF FormFitsWidget
<1> QED
  BY <1>1, Invariant, PTL

=============================================================================
