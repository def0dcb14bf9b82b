------------------------------ MODULE Accounts ------------------------------
(***************************************************************************)
(* Login, tokens, onboarding and feedback (routes/auth.py, routes/me.py,   *)
(* chat_feedback of routes/chat.py, auth/) over the database the seed      *)
(* script wipes and fills, which is paused when nobody uses it. A request  *)
(* is cut at its statements; an UPDATE and its COMMIT are one step, since  *)
(* the row is locked in between. The first statement of a request finds    *)
(* the database paused or wakes it; later ones come within its lifetime.   *)
(*                                                                         *)
(* A client is a device: players may share one or own several. It keeps    *)
(* one access token, and the feedback token of its last chat.              *)
(***************************************************************************)
EXTENDS SeasonImport

CONSTANTS
  Clients,
  Profiles,      \* what a client may onboard with
  AccessDays,    \* jwt_expiry_minutes
  FeedbackDays,  \* _FEEDBACK_EXPIRY
  MaxNow,        \* bound: days
  MaxRequests,   \* bound: requests of all clients
  NoToken,
  Nobody         \* no email, or no player

ASSUME AccountsAssumption ==
  /\ AccessDays \in Nat \ {0} /\ FeedbackDays \in Nat \ {0}
  /\ MaxNow \in Nat /\ MaxRequests \in Nat

VARIABLES
  now,
  aurora,    \* up, paused or resuming
  client,
  chats,     \* who asked for the answer of each trace
  ratings    \* recorded: <<trace, player who rated>>

accountVars == <<now, aurora, client, chats, ratings>>
vars == <<importVars, accountVars>>

-----------------------------------------------------------------------------
(* auth/tokens.py                                                          *)

CreateAccessToken(id) ==
  [aud |-> "none", of |-> id, trace |-> Nobody, exp |-> now + AccessDays]

CreateFeedbackToken(trace, id) ==
  [aud |-> "chat_feedback", of |-> id, trace |-> trace, exp |-> now + FeedbackDays]

\* Mutant: the audience is not looked at.
DecodeAnyToken(t) == t # NoToken /\ now < t.exp

\* Whether decode_access_token returns the player: a token with an audience
\* is refused.
DecodeAccessToken(t) == t # NoToken /\ t.aud = "none" /\ now < t.exp

DecodeFeedbackToken(t) == t # NoToken /\ t.aud = "chat_feedback" /\ now < t.exp

-----------------------------------------------------------------------------
(* A request and its answer                                                *)

Idle == [pc |-> "idle", n |-> 0, email |-> Nobody, access |-> NoToken, rate |-> NoToken,
         req |-> [what |-> "none", old |-> FALSE], seen |-> Nobody, status |-> 0, body |-> Nobody,
         calm |-> FALSE, alone |-> FALSE]

\* The answer: what was read for the request is forgotten.
Answer(c, status) ==
  client' = [client EXCEPT ![c].pc = "idle", ![c].status = status, ![c].seen = Nobody]

\* bearer and rating are tokens the client holds, whichever kind it takes for
\* them. calm and old are history: users were there at the beginning and no
\* wipe since, and the bearer's player was made by an earlier seed.
Send(c, what, email, right, profile, bearer, rating) ==
  client' = [client EXCEPT
    ![c].n = @ + 1,
    ![c].req = [what |-> what, email |-> email, right |-> right, profile |-> profile,
                bearer |-> bearer, rating |-> rating,
                old |-> bearer # NoToken /\ bearer.of[1] < seeds],
    ![c].pc = "sent", ![c].status = 0, ![c].body = Nobody, ![c].calm = db # Empty]

\* OriginVerifyMiddleware: not through CloudFront.
Bypass(c) ==
  client' = [client EXCEPT ![c].n = @ + 1, ![c].req = Idle.req, ![c].status = 403,
                           ![c].body = Nobody]

Request(c) ==
  LET access == client[c].access
      held   == {access, client[c].rate}
  IN  /\ client[c].pc = "idle"
      /\ FoldFunction(LAMBDA d, k : d.n + k, 0, client) < MaxRequests
      /\ \/ \E e \in DOMAIN SeedUsers, right \in BOOLEAN :
               Send(c, "login", e, right, Nobody, NoToken, NoToken)
         \/ \E t \in held : Send(c, "me", Nobody, TRUE, Nobody, t, NoToken)
         \/ \E p \in Profiles : Send(c, "onboard", Nobody, TRUE, p, access, NoToken)
         \/ \E t \in held : Send(c, "feedback", Nobody, TRUE, Nobody, access, t)
         \/ Send(c, "chat", Nobody, TRUE, Nobody, access, NoToken)
         \/ Bypass(c)
      /\ UNCHANGED <<importVars, now, aurora, chats, ratings>>

\* Mutant: every failed statement is a 500.
ResumingUnseen(c) ==
  /\ aurora # "up"
  /\ aurora' = "resuming"
  /\ Answer(c, 500)
  /\ UNCHANGED <<importVars, now, chats, ratings>>

\* statement_error_handler: the first statement wakes the database; the client
\* is asked to come back, which its retry does (pc "retry").
Resuming(c) ==
  /\ aurora # "up"
  /\ aurora' = "resuming"
  /\ client' = [client EXCEPT ![c].pc = "retry", ![c].status = 503]
  /\ UNCHANGED <<importVars, now, chats, ratings>>

Retry(c) ==
  /\ client[c].pc = "retry"
  /\ client' = [client EXCEPT ![c].pc = "sent", ![c].status = 0]
  /\ UNCHANGED <<importVars, now, aurora, chats, ratings>>

-----------------------------------------------------------------------------
(* login                                                                   *)

FindUser(c) ==
  LET r == client[c].req
  IN  /\ client[c].pc = "sent" /\ r.what = "login"
      /\ \/ Resuming(c)
         \/ /\ aurora = "up"
            /\ IF r.email \in DOMAIN db.users /\ r.right
               THEN client' = [client EXCEPT ![c].pc = "login",
                                 ![c].seen = [id |-> db.users[r.email]]]
               ELSE Answer(c, 401)
            /\ UNCHANGED <<importVars, now, aurora, chats, ratings>>

FindPlayer(c) ==
  LET id == client[c].seen.id
  IN  /\ client[c].pc = "login"
      /\ IF id \in DOMAIN db.players
         THEN client' = [client EXCEPT ![c].pc = "idle", ![c].status = 200,
                ![c].email = client[c].req.email, ![c].access = CreateAccessToken(id),
                ![c].body = [id |-> id, row |-> db.players[id]], ![c].seen = Nobody]
         ELSE Answer(c, 401)
      /\ UNCHANGED <<importVars, now, aurora, chats, ratings>>

-----------------------------------------------------------------------------
(* The routes behind get_current_player                                    *)

Show(c, id) ==
  client' = [client EXCEPT ![c].pc = "idle", ![c].status = 200, ![c].seen = Nobody,
                           ![c].body = [id |-> id, row |-> db.players[id]]]

GetMe(c, id) ==
  /\ Show(c, id)
  /\ UNCHANGED <<chats, ratings>>

\* The stream begins with a token for the trace of the turn.
Chat(c, id) ==
  LET trace == <<c, client[c].n>>
  IN  /\ chats' = [t \in DOMAIN chats \cup {trace} |-> IF t = trace THEN id ELSE chats[t]]
      /\ client' = [client EXCEPT ![c].pc = "idle", ![c].status = 200,
                      ![c].rate = CreateFeedbackToken(trace, id),
                      ![c].body = [id |-> id, row |-> db.players[id]]]
      /\ UNCHANGED ratings

ChatFeedback(c, id) ==
  LET t == client[c].req.rating
  IN  /\ CASE ~DecodeFeedbackToken(t) -> Answer(c, 400) /\ UNCHANGED ratings
           [] DecodeFeedbackToken(t) /\ t.of # id -> Answer(c, 403) /\ UNCHANGED ratings
           [] OTHER -> Show(c, id) /\ ratings' = ratings \cup {<<t.trace, id>>}
      /\ UNCHANGED chats

\* The player is loaded into the session; onboard goes on with it.
Onboard(c, id) ==
  /\ client' = [client EXCEPT ![c].pc = "commit", ![c].alone = TRUE,
                              ![c].seen = [id |-> id, row |-> db.players[id]]]
  /\ UNCHANGED <<chats, ratings>>

\* 401: no token, a bad one, or one of a player who is gone.
Unauthorized(c) == Answer(c, 401)

GetCurrentPlayer(c) ==
  LET r == client[c].req
  IN  /\ client[c].pc = "sent" /\ r.what # "login"
      /\ \/ /\ ~DecodeAccessToken(r.bearer)
            /\ Answer(c, 401)
            /\ UNCHANGED <<importVars, now, aurora, chats, ratings>>
         \/ DecodeAccessToken(r.bearer) /\ Resuming(c)
         \/ /\ DecodeAccessToken(r.bearer) /\ aurora = "up"
            /\ IF r.bearer.of \notin DOMAIN db.players
               THEN Unauthorized(c) /\ UNCHANGED <<chats, ratings>>
               ELSE \/ r.what = "me" /\ GetMe(c, r.bearer.of)
                    \/ r.what = "onboard" /\ Onboard(c, r.bearer.of)
                    \/ r.what = "chat" /\ Chat(c, r.bearer.of)
                    \/ r.what = "feedback" /\ ChatFeedback(c, r.bearer.of)
            /\ UNCHANGED <<importVars, now, aurora>>

\* Mutant: a zero is taken for no number.
ChangedUnlessZero(stored, seen, sent) ==
  [stored EXCEPT !.jersey = IF sent.jersey = 0 \/ sent.jersey = seen.jersey THEN @ ELSE sent.jersey,
                 !.position = IF sent.position = seen.position THEN @ ELSE sent.position,
                 !.onboarded = TRUE]

\* The UPDATE names the columns that differ from what the session has loaded;
\* the time of onboarding always does.
Changed(stored, seen, sent) ==
  [stored EXCEPT !.jersey = IF sent.jersey = seen.jersey THEN @ ELSE sent.jersey,
                 !.position = IF sent.position = seen.position THEN @ ELSE sent.position,
                 !.onboarded = TRUE]

\* alone is history: no other onboarding of this player was committed between
\* the two reads of this one.
OnboardCommit(c) ==
  LET s == client[c].seen
  IN  /\ client[c].pc = "commit"
      /\ IF s.id \in DOMAIN db.players
         THEN /\ db' = [db EXCEPT !.players[s.id] =
                          Changed(@, s.row, client[c].req.profile)]
              /\ client' = [d \in Clients |->
                   IF d = c THEN [client[c] EXCEPT !.pc = "refresh"]
                   ELSE IF client[d].pc \in {"commit", "refresh"} /\ client[d].seen.id = s.id
                        THEN [client[d] EXCEPT !.alone = FALSE]
                        ELSE client[d]]
         ELSE Answer(c, 500) /\ UNCHANGED db
      /\ UNCHANGED <<site, seed, seeds, now, aurora, chats, ratings>>

OnboardRefresh(c) ==
  LET id == client[c].seen.id
  IN  /\ client[c].pc = "refresh"
      /\ IF id \in DOMAIN db.players THEN Show(c, id) ELSE Answer(c, 500)
      /\ UNCHANGED <<importVars, now, aurora, chats, ratings>>

-----------------------------------------------------------------------------
(* Around the requests                                                     *)

\* The cluster pauses after minutes without a session.
Pause ==
  /\ aurora = "up"
  /\ seed = "idle"
  /\ \A c \in Clients : client[c].pc = "idle"
  /\ aurora' = "paused"
  /\ UNCHANGED <<importVars, now, client, chats, ratings>>

Resumed ==
  /\ aurora = "resuming"
  /\ aurora' = "up"
  /\ UNCHANGED <<importVars, now, client, chats, ratings>>

Tick ==
  /\ now < MaxNow
  /\ now' = now + 1
  /\ UNCHANGED <<importVars, aurora, client, chats, ratings>>

Import ==
  \/ /\ SeedLoad \/ SeedExits
     /\ UNCHANGED accountVars
  \/ /\ aurora = "up"
     /\ SeedWipe
     /\ client' = [c \in Clients |-> [client[c] EXCEPT !.calm = @ /\ client[c].pc = "idle"]]
     /\ UNCHANGED <<now, aurora, chats, ratings>>

Init ==
  /\ ImportInit
  /\ now = 0
  /\ aurora = "up"
  /\ client = [c \in Clients |-> Idle]
  /\ chats = NoRows
  /\ ratings = {}

Next ==
  \/ Import \/ Pause \/ Resumed \/ Tick
  \/ \E c \in Clients :
       \/ Request(c) \/ Retry(c)
       \/ FindUser(c) \/ FindPlayer(c) \/ GetCurrentPlayer(c)
       \/ OnboardCommit(c) \/ OnboardRefresh(c)

Spec == Init /\ [][Next]_vars

-----------------------------------------------------------------------------
(* Properties                                                              *)

Ids == DOMAIN db.players \cup {db.users[e] : e \in DOMAIN db.users}
Tokens == {client[c].access : c \in Clients} \cup {client[c].rate : c \in Clients}
Answered(c) == client[c].pc = "idle" /\ client[c].n > 0
Holder(c) == Normalize(SeedUsers[client[c].email])

\* Types.
TypeOK ==
  /\ seed \in {"idle", "wiped"} /\ seeds \in 0 .. MaxSeeds
  /\ \A id \in Ids : id[1] = seeds /\ id \in DOMAIN db.players
  /\ \A l \in DOMAIN db.lines : l[1] \in DOMAIN db.games /\ l[2] \in DOMAIN db.players
  /\ aurora \in {"up", "paused", "resuming"} /\ now \in 0 .. MaxNow
  /\ \A c \in Clients :
       /\ client[c].pc \in {"idle", "sent", "retry", "login", "commit", "refresh"}
       /\ client[c].status \in {0, 200, 400, 401, 403, 500, 503}
  /\ \A t \in Tokens \ {NoToken} : t.exp \in Nat

\* Whatever a device sends, and whoever used it before, an answer is about the
\* player of the last login on it, through seeds that give everybody new ids
\* (create_access_token, decode_access_token, get_current_player).
ActsOnHolder ==
  \A c \in Clients : client[c].status = 200 => client[c].body.id[2] = Holder(c)

\* A rating is recorded only by the player whose chat it is about, though
\* devices are shared and tokens live for days (chat_feedback).
FeedbackBinds == \A r \in ratings : chats[r[1]] = r[2]

\* Nobody acts for anybody else: neither in what is shown and changed nor in what
\* is rated.
OwnPlayer == ActsOnHolder /\ FeedbackBinds

\* The token of a player of an earlier seed is refused as a bad token is, so
\* that the app shows its login again: never an answer, never an error of the
\* server (get_current_player).
OldTokens401 ==
  \A c \in Clients :
    Answered(c) /\ client[c].req.old => client[c].status \in {401, 403}

\* A request fails with 500 only if a seed wiped the database under it, or had
\* before it came: a database that has to be woken is a 503 and the retry is
\* answered like any request (statement_error_handler).
ServerErrorsAreReal ==
  \A c \in Clients : client[c].status = 500 => ~client[c].calm

\* Once a seed has succeeded, every user's right password is accepted
\* (SEED_USERS, the guard in main(), login).
LoginWorks ==
  \A c \in Clients :
    Answered(c) /\ client[c].req.what = "login" /\ client[c].req.right
      /\ client[c].calm => client[c].status # 401

\* A device whose token has lost its player is sent to its login, where the right
\* password works as soon as there are users again.
LoginHeals == OldTokens401 /\ LoginWorks

\* A player who onboards again is answered what was sent, not a mix with what
\* was stored, unless another device's onboarding came between (onboard).
OnboardKept ==
  \A c \in Clients :
    Answered(c) /\ client[c].req.what = "onboard" /\ client[c].status = 200 /\ client[c].alone =>
      client[c].body.row = [jersey |-> client[c].req.profile.jersey,
                            position |-> client[c].req.profile.position, onboarded |-> TRUE]
=============================================================================
