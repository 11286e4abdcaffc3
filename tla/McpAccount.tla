----------------------------- MODULE McpAccount -----------------------------
(***************************************************************************)
(* The Durable Object that holds one MCP connection                        *)
(* (packages/mcp-shared/src/account.ts): the connect flow with its         *)
(* single-use nonce, the OAuth code exchange, the tokens and their         *)
(* refresh, and the calls that use them (connection.ts).  Every attempt to *)
(* connect advances the connection's generation, and what an await returns *)
(* to is compared with it.  The MCP endpoints, their authorization servers *)
(* and the OAuth client of the MCP SDK are external.                       *)
(***************************************************************************)
EXTENDS Naturals, FiniteSets

CONSTANTS
  Endpoints,
  Attempts,         \* initiation nonces, one per connect or reconnect
  First,            \* the nonce of the first connect
  Calls,            \* operations of gatekeeper facets
  Nothing,          \* an absent value
  MaxGeneration,    \* bound on the connection's generation
  MaxTokens         \* bound on the refresh tokens ever issued

Generations == 0..MaxGeneration
Numbers == 1..MaxTokens
Nonce == [of : Attempts, stage : {"initiation", "connecting", "oauth"}]
Server == [ep : Endpoints, auth : {"none", "oauth"}]
Token == [ep : Endpoints, n : Numbers, life : {"fresh", "stale", "spent"}]

ASSUME AccountAssumption ==
  /\ First \in Attempts
  /\ Nothing \notin Attempts \cup Calls \cup Endpoints \cup Nat
  /\ Nothing \notin Nonce \cup Server \cup Token
  /\ MaxGeneration \in Nat \ {0} /\ MaxTokens \in Nat \ {0}

VARIABLES
  server,           \* "server": endpoint and how to authenticate to it
  generation,       \* "connectionGeneration"
  nonce,            \* "nonce": whose it is, and its stage
  pendingAuth,      \* "pendingAuth": the generation of an authorization
  tokens,           \* "tokens": where they are from, the refresh token, the access token's life
  sessionId,        \* "mcpSessionId": the endpoint that it is from
  notified,         \* "expiredNotified"
  flags,            \* which of "callback", "connected", "reconnecting", "alarm" are set
  attempt,          \* beginConnect() and acceptAuthCode() at their awaits
  call,             \* an operation: getConnection(), then its requests
  flight,           \* the refresh that a call has started
  refreshing,       \* #refreshing: the call whose refresh others share
  revoking,         \* revoke() awaits the authorization server
  accepted,         \* external: the refresh tokens that the authorization server accepts
  issued,           \* external: how many it has issued
  used,             \* history: the nonces drawn so far
  blame,            \* history: may the stored tokens be dead, because the grant was
                    \* revoked, an answer got lost, two redeemed one token, or they
                    \* were stored during a refresh
  misled,           \* history: a call that held another bearer than the stored one had
                    \* the account reported expired
  crashed,          \* history: the last attempt that died with the link claimed
  overwritten       \* history: a superseded attempt has written the server record

durable == <<server, generation, nonce, pendingAuth, tokens, sessionId, notified, flags>>
external == <<accepted, issued>>
history == <<used, blame, misled, crashed, overwritten>>
vars == <<durable, attempt, call, flight, refreshing, revoking, external, history>>

AttemptState ==
  [pc : {"idle", "probing", "authorizing", "redeemed", "reprobing",
         "exchanging", "exchanged", "checking"},
   gen : Generations, to : Endpoints \cup {Nothing}, token : Numbers \cup {Nothing}]
CallState ==
  [pc : {"idle", "awaiting", "using", "notifying"}, gen : Generations,
   ep : Endpoints \cup {Nothing}, bearer : Endpoints \cup {Nothing}, token : 0..MaxTokens,
   on : Calls \cup {Nothing}]
FlightState ==
  [st : {"none", "sent", "answered", "refused", "notifying"},
   gen : Generations, ep : Endpoints \cup {Nothing}, token : 0..MaxTokens]

NoAttempt == [pc |-> "idle", gen |-> 0, to |-> Nothing, token |-> Nothing]
NoCall == [pc |-> "idle", gen |-> 0, ep |-> Nothing, bearer |-> Nothing, token |-> 0, on |-> Nothing]
NoFlight == [st |-> "none", gen |-> 0, ep |-> Nothing, token |-> 0]

-----------------------------------------------------------------------------
Init ==
  /\ server = Nothing /\ generation = 0 /\ pendingAuth = Nothing
  /\ tokens = Nothing /\ sessionId = Nothing /\ notified = FALSE
  /\ nonce = [of |-> First, stage |-> "initiation"]     \* setCallback()
  /\ flags = {"callback", "alarm"}
  /\ attempt = [a \in Attempts |-> NoAttempt]
  /\ call = [c \in Calls |-> NoCall]
  /\ flight = [c \in Calls |-> NoFlight]
  /\ refreshing = Nothing /\ revoking = FALSE
  /\ accepted = {} /\ issued = 0
  /\ used = {First}
  /\ blame = FALSE /\ misled = FALSE /\ overwritten = FALSE /\ crashed = Nothing

\* isCurrentConnection()
Current(ep, gen) == generation = gen /\ server # Nothing /\ server.ep = ep

\* The connection that the refresh of o was started for is still there.
FlightIsCurrent(o) == Current(flight[o].ep, flight[o].gen)

\* The stored refresh token has a successor that is on its way here.
AnswerIsComing == \E o \in Calls : flight[o].st = "answered" /\ FlightIsCurrent(o)

\* A refresh of the connection has still to tell what became of the stored tokens.
RefreshIsUnderWay ==
  \E o \in Calls : flight[o].st \in {"sent", "answered", "refused"} /\ FlightIsCurrent(o)

\* An authorization server trades the refresh token n for a new one, or a code
\* (n = 0) for the first of a grant.
Issues(n) ==
  /\ issued < MaxTokens
  /\ issued' = issued + 1
  /\ accepted' = (accepted \ {n}) \cup {issued + 1}

NewToken(ep, n) == [ep |-> ep, n |-> n, life |-> "fresh"]

-----------------------------------------------------------------------------
(* Connecting *)

PrepareReconnect(a) ==
  /\ a \notin used /\ used' = used \cup {a}
  /\ "connected" \in flags /\ generation < MaxGeneration
  /\ generation' = generation + 1
  /\ flags' = flags \cup {"reconnecting"}
  /\ notified' = FALSE
  /\ nonce' = [of |-> a, stage |-> "initiation"]
  /\ blame' = (blame \/ AnswerIsComing) /\ misled' = FALSE
  /\ UNCHANGED <<server, pendingAuth, tokens, sessionId, attempt, call, flight,
                 refreshing, revoking, external, crashed, overwritten>>

\* resolveConnectTarget(): a deployment may name another endpoint than the one
\* that the account has, a user may not, and a reconnect may name none.
MayTarget(ep, by) == (server # Nothing /\ server.ep # ep) => by = "deployment"

\* beginConnect() up to its first await: the nonce is claimed (claimSelection()), and an account that
\* is repointed loses its credentials.
ConnectBegins(a, to, by) ==
  /\ nonce = [of |-> a, stage |-> "initiation"] /\ attempt[a] = NoAttempt
  /\ MayTarget(to.ep, by) /\ generation < MaxGeneration
  /\ generation' = generation + 1
  /\ nonce' = [of |-> a, stage |-> "connecting"]
  /\ sessionId' = IF server = Nothing THEN sessionId ELSE Nothing
  /\ IF server # Nothing /\ server.ep # to.ep
     THEN /\ server' = to /\ tokens' = Nothing /\ pendingAuth' = Nothing
          /\ notified' = FALSE /\ misled' = FALSE
     ELSE UNCHANGED <<server, tokens, pendingAuth, notified, misled>>
  /\ blame' = (blame \/ AnswerIsComing)
  /\ attempt' = [attempt EXCEPT ![a] =
       [pc |-> "probing", gen |-> generation + 1, to |-> to.ep, token |-> Nothing]]
  /\ UNCHANGED <<flags, call, flight, refreshing, revoking, external, used, crashed, overwritten>>

Ends(a) == attempt' = [attempt EXCEPT ![a] = NoAttempt]
Proceeds(a, pc) == attempt' = [attempt EXCEPT ![a].pc = pc]

\* restoreSelection(): the link may be used again.
Restored(a) ==
  IF nonce = [of |-> a, stage |-> "connecting"] THEN [nonce EXCEPT !.stage = "initiation"] ELSE nonce

\* complete(), for a current attempt: the nonce is spent before the Workshop is
\* told, whether or not that succeeds.
Completes ==
  /\ nonce' = Nothing
  /\ flags' \in {{"callback", "connected"} \cup f : f \in SUBSET (flags \cap {"alarm"})}

\* The unauthenticated probe answers: the endpoint is public.
ProbeAnswers(a) ==
  LET t == attempt[a] IN
  /\ t.pc = "probing" /\ Ends(a)
  /\ IF t.gen = generation
     THEN /\ sessionId' \in {sessionId, t.to}
          /\ server' = [ep |-> t.to, auth |-> "none"]
          /\ Completes
     ELSE nonce' = Restored(a) /\ UNCHANGED <<sessionId, server, flags>>
  /\ UNCHANGED <<generation, pendingAuth, tokens, notified, call, flight, refreshing,
                 revoking, external, history>>

\* It answers with a challenge: the server record is written, by whichever
\* attempt this is, and the OAuth client is started by a current one.
ProbeChallenges(a) ==
  LET t == attempt[a] IN
  /\ t.pc = "probing"
  /\ server' = [ep |-> t.to, auth |-> "oauth"]
  /\ IF t.gen = generation
     THEN Proceeds(a, "authorizing") /\ UNCHANGED <<nonce, overwritten>>
     ELSE /\ Ends(a) /\ nonce' = Restored(a)
          /\ overwritten' = (overwritten \/ (server # Nothing /\ server' # server))
  /\ UNCHANGED <<generation, pendingAuth, tokens, sessionId, notified, flags, call, flight,
                 refreshing, revoking, external, used, blame, misled, crashed>>

\* It does not answer, or with an error.
ProbeFails(a) ==
  /\ attempt[a].pc = "probing" /\ Ends(a)
  /\ nonce' = Restored(a)
  /\ UNCHANGED <<server, generation, pendingAuth, tokens, sessionId, notified, flags, call,
                 flight, refreshing, revoking, external, history>>

-----------------------------------------------------------------------------
(* Authorizing: beginOAuth() and acceptAuthCode() around the SDK's auth() *)

IsCurrent(a) == Current(attempt[a].to, attempt[a].gen)

\* The OAuth client asks for the user, perhaps after dropping tokens that are not
\* accepted: state() replaces the nonce.
Redirects(a) ==
  /\ attempt[a].pc = "authorizing" /\ IsCurrent(a) /\ Ends(a)
  /\ nonce' = [of |-> a, stage |-> "oauth"]
  /\ pendingAuth' = attempt[a].gen
  /\ tokens' \in {tokens} \cup (IF tokens # Nothing /\ tokens.n \notin accepted THEN {Nothing} ELSE {})
  /\ blame' = (blame \/ tokens' # tokens)
  /\ UNCHANGED <<server, generation, sessionId, notified, flags, call, flight,
                 refreshing, revoking, external, used, misled, crashed, overwritten>>

\* The OAuth client has tokens of an earlier connection and redeems them first.
Redeems(a) ==
  /\ attempt[a].pc = "authorizing" /\ IsCurrent(a)
  /\ tokens # Nothing /\ tokens.ep = attempt[a].to
  /\ tokens.life # "spent" /\ tokens.n \in accepted
  /\ Issues(tokens.n)
  /\ attempt' = [attempt EXCEPT ![a].pc = "redeemed", ![a].token = issued + 1]
  /\ blame' = TRUE
  /\ UNCHANGED <<durable, call, flight, refreshing, revoking, used, misled, crashed, overwritten>>

\* acceptAuthCode() up to the exchange: the nonce is consumed.
AcceptCode(a) ==
  /\ nonce = [of |-> a, stage |-> "oauth"] /\ pendingAuth # Nothing /\ server # Nothing
  /\ nonce' = Nothing /\ pendingAuth' = Nothing
  /\ attempt' = IF Current(server.ep, pendingAuth)
                THEN [attempt EXCEPT ![a] = [pc |-> "exchanging", gen |-> pendingAuth,
                                             to |-> server.ep, token |-> Nothing]]
                ELSE attempt
  /\ UNCHANGED <<server, generation, tokens, sessionId, notified, flags, call, flight,
                 refreshing, revoking, external, history>>

CodeIsExchanged(a) ==
  /\ attempt[a].pc = "exchanging"
  /\ Issues(0)
  /\ attempt' = [attempt EXCEPT ![a].pc = "exchanged", ![a].token = issued + 1]
  /\ UNCHANGED <<durable, call, flight, refreshing, revoking, history>>

\* saveTokens(), and the probe that follows with them.  An attempt that is not
\* current any more throws, and beginConnect() then releases the link.
SaveTokens(a) ==
  LET t == attempt[a] IN
  /\ t.pc \in {"redeemed", "exchanged"}
  /\ IF IsCurrent(a)
     THEN /\ tokens' = NewToken(t.to, t.token) /\ notified' = FALSE /\ misled' = FALSE
          /\ Proceeds(a, IF t.pc = "redeemed" THEN "reprobing" ELSE "checking")
          /\ blame' = (t.token \notin accepted \/ RefreshIsUnderWay)
          /\ UNCHANGED nonce
     ELSE /\ Ends(a)
          /\ nonce' = IF t.pc = "redeemed" THEN Restored(a) ELSE nonce
          /\ UNCHANGED <<tokens, notified, blame, misled>>
  /\ UNCHANGED <<server, generation, pendingAuth, sessionId, flags, call, flight,
                 refreshing, revoking, external, used, crashed, overwritten>>

\* The probe with the new tokens answers.
Reprobed(a) ==
  LET t == attempt[a] IN
  /\ t.pc \in {"reprobing", "checking"} /\ Ends(a)
  /\ sessionId' \in {sessionId} \cup (IF t.gen = generation THEN {t.to} ELSE {})
  /\ IF IsCurrent(a) THEN Completes
     ELSE nonce' = (IF t.pc = "reprobing" THEN Restored(a) ELSE nonce) /\ UNCHANGED flags
  /\ UNCHANGED <<server, generation, pendingAuth, tokens, notified, call, flight, refreshing,
                 revoking, external, history>>

\* beginOAuth() throws: the link may be used again, but for an attempt that was
\* superseded.  Without the restoration it could not.
OAuthFailsMut(a) ==
  /\ attempt[a].pc \in {"authorizing", "redeemed", "reprobing"} /\ Ends(a)
  /\ UNCHANGED <<durable, call, flight, refreshing, revoking, external, history>>

OAuthFails(a) ==
  /\ attempt[a].pc \in {"authorizing", "redeemed", "reprobing"} /\ Ends(a)
  /\ nonce' = Restored(a)
  /\ pendingAuth' = IF nonce' # nonce /\ IsCurrent(a) THEN Nothing ELSE pendingAuth
  /\ UNCHANGED <<server, generation, tokens, sessionId, notified, flags, call, flight,
                 refreshing, revoking, external, history>>

\* acceptAuthCode() throws: the user starts again.
ExchangeFails(a) ==
  /\ attempt[a].pc \in {"exchanging", "exchanged", "checking"} /\ Ends(a)
  /\ UNCHANGED <<durable, call, flight, refreshing, revoking, external, history>>

-----------------------------------------------------------------------------
(* Calls: getConnection(), and what the answers to their requests do *)

\* noteCredentialsExpired() up to the Workshop.
Notes(ep, gen) == Current(ep, gen) /\ ~notified /\ "callback" \in flags
Noted(ep, gen) == notified' = (notified \/ Notes(ep, gen))

\* An operation that was given an access token of an endpoint, the one that came
\* with the refresh token n, or none
Uses(bearer, n) == [pc |-> "using", gen |-> generation, ep |-> server.ep,
                    bearer |-> bearer, token |-> n, on |-> Nothing]

Life == IF tokens = Nothing THEN "spent" ELSE tokens.life

\* A refresh whatever is under way.
SharedMut(gen) == FALSE

\* #refresh(): a refresh of this generation is under way already.
Shared(gen) == refreshing # Nothing /\ flight[refreshing].gen = gen

\* getConnection(), for a facet that is bound to the account's endpoint (there are
\* facets once an account was handed over), up to its first await if it has one.
GetConnection(c) ==
  /\ call[c] = NoCall /\ server # Nothing /\ "connected" \in flags
  /\ \/ /\ server.auth = "none"
        /\ call' = [call EXCEPT ![c] = Uses(Nothing, 0)]
        /\ UNCHANGED <<notified, flight, refreshing>>
     \/ /\ server.auth = "oauth" /\ Life = "fresh"
        /\ call' = [call EXCEPT ![c] = Uses(tokens.ep, tokens.n)]
        /\ UNCHANGED <<notified, flight, refreshing>>
     \/ /\ server.auth = "oauth" /\ Life = "spent"
        /\ Noted(server.ep, generation)
        /\ call' = IF Notes(server.ep, generation)
                   THEN [call EXCEPT ![c] = [NoCall EXCEPT !.pc = "notifying"]] ELSE call
        /\ UNCHANGED <<flight, refreshing>>
     \/ /\ server.auth = "oauth" /\ Life = "stale"
        /\ LET started == ~Shared(generation)
               on == IF started THEN c ELSE refreshing
           IN /\ call' = [call EXCEPT ![c] = [Uses(Nothing, 0) EXCEPT !.pc = "awaiting", !.on = on]]
              /\ refreshing' = on
              /\ flight' = IF started
                   THEN [flight EXCEPT ![c] = [st |-> "sent", gen |-> generation,
                                               ep |-> server.ep, token |-> tokens.n]]
                   ELSE flight
        /\ UNCHANGED notified
  /\ UNCHANGED <<server, generation, nonce, pendingAuth, tokens, sessionId, flags, attempt,
                 revoking, external, history>>

\* The MCP server gives a session, drops one, or answers, in the order it likes.
CallSetsSession(c) ==
  /\ call[c].pc = "using"
  /\ sessionId' \in IF Current(call[c].ep, call[c].gen) THEN {call[c].ep, Nothing} ELSE {sessionId}
  /\ UNCHANGED <<server, generation, nonce, pendingAuth, tokens, notified, flags, attempt,
                 call, flight, refreshing, revoking, external, history>>

CallEnds(c) ==
  /\ call[c].pc = "using"
  /\ call' = [call EXCEPT ![c] = NoCall]
  /\ UNCHANGED <<durable, attempt, flight, refreshing, revoking, external, history>>

\* The call does not hold the access token that is stored, or that has expired.
IsOutdated(c) == ~(tokens # Nothing /\ tokens.life = "fresh" /\ tokens.n = call[c].token)

\* The MCP server does not accept what the call came with, which may be nothing:
\* its grant is not in force, or its time may be up.
CallRefused(c) ==
  LET notes == Notes(call[c].ep, call[c].gen) IN
  /\ call[c].pc = "using"
  /\ call[c].token \notin accepted \/ IsOutdated(c)
  /\ Noted(call[c].ep, call[c].gen)
  /\ misled' = (misled \/ (notes /\ IsOutdated(c)))
  /\ call' = [call EXCEPT ![c] = IF notes THEN [NoCall EXCEPT !.pc = "notifying"] ELSE NoCall]
  /\ UNCHANGED <<server, generation, nonce, pendingAuth, tokens, sessionId, flags, attempt,
                 flight, refreshing, revoking, external, used, blame, crashed, overwritten>>

\* credentialsExpired() returns, or throws: then the latch is released.
CallNotified(c) ==
  /\ call[c].pc = "notifying"
  /\ notified' \in {notified, FALSE} /\ misled' = (misled /\ notified')
  /\ call' = [call EXCEPT ![c] = NoCall]
  /\ UNCHANGED <<server, generation, nonce, pendingAuth, tokens, sessionId, flags, attempt,
                 flight, refreshing, revoking, external, used, blame, crashed, overwritten>>

-----------------------------------------------------------------------------
(* Refreshing: #performRefresh() *)

\* The promise settles: those who share it go on, and #refreshing is cleared by
\* its own flight only.
Settles(o, to) ==
  /\ call' = [c \in Calls |-> IF call[c].pc = "awaiting" /\ call[c].on = o THEN to[c] ELSE call[c]]
  /\ flight' = [flight EXCEPT ![o] = NoFlight]
  /\ refreshing' = IF refreshing = o THEN Nothing ELSE refreshing

AllFail == [c \in Calls |-> NoCall]

IsStored(n) == tokens # Nothing /\ tokens.n = n

\* The authorization server trades the refresh token, or refuses it.
Redeemed(o) ==
  /\ flight[o].st = "sent"
  /\ IF flight[o].token \in accepted
     THEN /\ Issues(flight[o].token)
          /\ flight' = [flight EXCEPT ![o].st = "answered", ![o].token = issued + 1]
          /\ blame' = (blame \/ (~FlightIsCurrent(o) /\ IsStored(flight[o].token)))
     ELSE /\ flight' = [flight EXCEPT ![o].st = "refused"]
          /\ UNCHANGED <<external, blame>>
  /\ UNCHANGED <<durable, attempt, call, refreshing, revoking, used, misled, crashed, overwritten>>

\* The calls that share a refresh go on with the token that it stored.
AllUse(f) == [c \in Calls |-> [call[c] EXCEPT !.pc = "using", !.on = Nothing, !.bearer = f.ep,
                                             !.token = f.token]]

\* The answer is stored whatever became of the connection.
RefreshAnswersMut(o) ==
  LET f == flight[o] fresh == NewToken(f.ep, f.token) IN
  /\ f.st = "answered"
  /\ tokens' = fresh
  /\ Settles(o, AllUse(f))
  /\ UNCHANGED <<server, generation, nonce, pendingAuth, sessionId, notified, flags, attempt,
                 revoking, external, history>>

\* The answer of a superseded refresh is discarded.
RefreshAnswers(o) ==
  LET f == flight[o] fresh == NewToken(f.ep, f.token) IN
  /\ f.st = "answered"
  /\ IF FlightIsCurrent(o)
     THEN tokens' = fresh /\ Settles(o, AllUse(f))
     ELSE UNCHANGED tokens /\ Settles(o, AllFail)
  /\ UNCHANGED <<server, generation, nonce, pendingAuth, sessionId, notified, flags, attempt,
                 revoking, external, history>>

\* No answer arrives: nothing is said about the credential.
RefreshFails(o) ==
  /\ flight[o].st \in {"sent", "answered"}
  /\ blame' = (blame \/ (flight[o].st = "answered" /\ FlightIsCurrent(o)))
  /\ Settles(o, AllFail)
  /\ UNCHANGED <<durable, attempt, revoking, external, used, misled, crashed, overwritten>>

\* The refresh token is refused: the account is reported expired.
RefreshRefused(o) ==
  /\ flight[o].st = "refused"
  /\ Noted(flight[o].ep, flight[o].gen)
  /\ IF Notes(flight[o].ep, flight[o].gen)
     THEN flight' = [flight EXCEPT ![o].st = "notifying"] /\ UNCHANGED <<call, refreshing>>
     ELSE Settles(o, AllFail)
  /\ UNCHANGED <<server, generation, nonce, pendingAuth, tokens, sessionId, flags, attempt,
                 revoking, external, history>>

\* credentialsExpired() returns, or throws.
RefreshNotified(o) ==
  /\ flight[o].st = "notifying"
  /\ notified' \in {notified, FALSE} /\ misled' = (misled /\ notified')
  /\ Settles(o, AllFail)
  /\ UNCHANGED <<server, generation, nonce, pendingAuth, tokens, sessionId, flags, attempt,
                 revoking, external, used, blame, crashed, overwritten>>

-----------------------------------------------------------------------------
(* Time, the user, and the Durable Object's end *)

NonceExpires ==
  /\ nonce # Nothing /\ nonce' = Nothing
  /\ UNCHANGED <<server, generation, pendingAuth, tokens, sessionId, notified, flags, attempt,
                 call, flight, refreshing, revoking, external, history>>

\* The access token is about to expire; it came with a refresh token, or not.
TokenExpires ==
  /\ tokens # Nothing /\ tokens.life = "fresh"
  /\ \E life \in {"stale", "spent"} : tokens' = [tokens EXCEPT !.life = life]
  /\ UNCHANGED <<server, generation, nonce, pendingAuth, sessionId, notified, flags, attempt,
                 call, flight, refreshing, revoking, external, history>>

\* The user, or the authorization server, ends the grant.
GrantIsRevoked ==
  /\ accepted # {} /\ accepted' = {} /\ blame' = TRUE
  /\ UNCHANGED <<durable, attempt, call, flight, refreshing, revoking, issued, used, misled,
                 crashed, overwritten>>

DeleteAll ==
  /\ server' = Nothing /\ generation' = 0 /\ nonce' = Nothing /\ pendingAuth' = Nothing
  /\ tokens' = Nothing /\ sessionId' = Nothing /\ notified' = FALSE /\ flags' = {}

\* alarm(): a first connect that was abandoned
Alarm ==
  /\ "alarm" \in flags
  /\ IF "connected" \in flags
     THEN flags' = flags \ {"alarm"} /\ UNCHANGED <<server, generation, nonce, pendingAuth, tokens, sessionId, notified>>
     ELSE DeleteAll
  /\ UNCHANGED <<attempt, call, flight, refreshing, revoking, external, history>>

\* revoke(): it awaits the authorization server first, which ends the grant
\* (GrantIsRevoked) or does not listen.
Revoke ==
  /\ "connected" \in flags /\ ~revoking /\ revoking' = TRUE
  /\ UNCHANGED <<durable, attempt, call, flight, refreshing, external, history>>

RevokeEnds ==
  /\ revoking /\ revoking' = FALSE
  /\ DeleteAll
  /\ UNCHANGED <<attempt, call, flight, refreshing, external, history>>

\* What awaits is gone; #refreshing was in memory.
Restart ==
  /\ attempt' = [a \in Attempts |-> NoAttempt]
  /\ call' = [c \in Calls |-> NoCall]
  /\ flight' = [c \in Calls |-> NoFlight]
  /\ refreshing' = Nothing /\ revoking' = FALSE
  /\ blame' = (blame \/ AnswerIsComing)
  /\ crashed' = IF nonce # Nothing /\ nonce.stage = "connecting" THEN nonce.of ELSE crashed
  /\ UNCHANGED <<durable, external, used, misled, overwritten>>

Next ==
  \/ \E a \in Attempts : PrepareReconnect(a)
  \/ \E a \in Attempts, to \in Server, by \in {"user", "deployment"} : ConnectBegins(a, to, by)
  \/ \E a \in Attempts : ProbeAnswers(a)
  \/ \E a \in Attempts : ProbeChallenges(a)
  \/ \E a \in Attempts : ProbeFails(a)
  \/ \E a \in Attempts : Redirects(a)
  \/ \E a \in Attempts : Redeems(a)
  \/ \E a \in Attempts : AcceptCode(a)
  \/ \E a \in Attempts : CodeIsExchanged(a)
  \/ \E a \in Attempts : SaveTokens(a)
  \/ \E a \in Attempts : Reprobed(a)
  \/ \E a \in Attempts : OAuthFails(a)
  \/ \E a \in Attempts : ExchangeFails(a)
  \/ \E c \in Calls : GetConnection(c)
  \/ \E c \in Calls : CallSetsSession(c)
  \/ \E c \in Calls : CallEnds(c)
  \/ \E c \in Calls : CallRefused(c)
  \/ \E c \in Calls : CallNotified(c)
  \/ \E o \in Calls : Redeemed(o)
  \/ \E o \in Calls : RefreshAnswers(o)
  \/ \E o \in Calls : RefreshFails(o)
  \/ \E o \in Calls : RefreshRefused(o)
  \/ \E o \in Calls : RefreshNotified(o)
  \/ NonceExpires \/ TokenExpires \/ GrantIsRevoked \/ Alarm
  \/ Revoke \/ RevokeEnds \/ Restart

Spec == Init /\ [][Next]_vars

-----------------------------------------------------------------------------
TypeOK ==
  /\ server \in Server \cup {Nothing}
  /\ generation \in Generations
  /\ nonce \in Nonce \cup {Nothing}
  /\ pendingAuth \in Generations \cup {Nothing}
  /\ tokens \in Token \cup {Nothing}
  /\ sessionId \in Endpoints \cup {Nothing}
  /\ notified \in BOOLEAN
  /\ flags \subseteq {"callback", "connected", "reconnecting", "alarm"}
  /\ attempt \in [Attempts -> AttemptState] /\ call \in [Calls -> CallState]
  /\ flight \in [Calls -> FlightState]
  /\ refreshing \in Calls \cup {Nothing} /\ revoking \in BOOLEAN
  /\ accepted \subseteq Numbers /\ used \subseteq Attempts /\ issued \in 0..MaxTokens
  /\ blame \in BOOLEAN /\ misled \in BOOLEAN /\ overwritten \in BOOLEAN
  /\ crashed \in Attempts \cup {Nothing}

\* What the account has stored is for the endpoint that it is connected to, and
\* what a call was given is for the endpoint that it will contact, whatever
\* reconnects and repoints came in between: unless a superseded attempt has
\* written the server record (account.ts:357-359 has no check).
StoredForServer ==
  ~overwritten =>
    /\ (server # Nothing /\ tokens # Nothing) => tokens.ep = server.ep
    /\ (server # Nothing /\ sessionId # Nothing) => sessionId = server.ep
    /\ \A c \in Calls : call[c].bearer \in {Nothing, call[c].ep}

\* A healthy account is not reported expired: the stored refresh token is the one
\* that the authorization server accepts, or its successor is on its way here
\* (account.ts:709-717), and the Workshop has been told nothing else.  What may
\* kill the token: a grant revoked, an answer lost, by a crash or by a reconnect
\* that superseded the refresh, a reconnect whose OAuth client redeems the token
\* itself, which no call shares, or one whose code was exchanged while a call was
\* refreshing the tokens that it replaces, whose answer then replaces its own.
\* Tokens that are stored after that are healthy again.  And a call that does not
\* hold the stored token may mislead the account: see RejectionsDoNotPoison.
HealthyIsNotExpired ==
  (server # Nothing /\ server.auth = "oauth" /\ Life # "spent" /\ ~blame /\ ~overwritten) =>
    /\ tokens.n \in accepted \/ AnswerIsComing
    /\ notified => misled

\* A link whose attempt failed can be tried again: only a crash leaves a nonce
\* claimed with nobody to release it.
ClaimIsReleased ==
  (nonce # Nothing /\ nonce.stage = "connecting" /\ nonce.of # crashed)
    => attempt[nonce.of].pc # "idle"

\* "Redeems the refresh token, at most once at a time" (account.ts:709)
RedeemedOnceAtATime ==
  \A o, p \in Calls :
    (o # p /\ flight[o].st = "sent" /\ flight[p].st = "sent") => flight[o].token # flight[p].token

\* A superseded attempt leaves the connection alone: its probe is among what an
\* advance of the generation invalidates (account.ts:281-282).
SupersededIsInert == ~overwritten

\* "A rejection can arrive after reconnecting, where it belongs to the old generation
\* and must not poison the new" (account.ts:791-792): the tokens that a reconnect
\* stored, or a refresh, are not reported expired because of a bearer that a call
\* came with before they were there.
RejectionsDoNotPoison ==
  ~(misled /\ tokens # Nothing /\ tokens.life = "fresh" /\ tokens.n \in accepted)
=============================================================================
