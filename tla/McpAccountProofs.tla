-------------------------- MODULE McpAccountProofs --------------------------
(***************************************************************************)
(* Proofs about McpAccount: what the account stores is for the endpoint    *)
(* that it is connected to, a healthy account is not reported expired, and *)
(* the link of an attempt that failed can be used again, for every number  *)
(* of endpoints, attempts, calls and tokens.                               *)
(***************************************************************************)
EXTENDS McpAccount, TLAPS

Busy(a) == attempt[a].pc # "idle"
InFlight(o) == flight[o].st # "none"
Working(c) == call[c].pc \in {"awaiting", "using"}

\* A generation that was captured at a start: 0 stands for an account that was
\* never connected, or was deleted, which nothing connects again.
Captured(gen) == gen # 0 /\ (generation # 0 => gen <= generation)

\* What awaits has captured a generation, an endpoint and a token.
CapturesInv ==
  /\ \A a \in Attempts : Busy(a) => Captured(attempt[a].gen) /\ attempt[a].to \in Endpoints
  /\ \A a \in Attempts : attempt[a].pc \in {"redeemed", "exchanged"} => attempt[a].token \in Numbers
  /\ \A o \in Calls : InFlight(o) =>
       Captured(flight[o].gen) /\ flight[o].ep \in Endpoints /\ flight[o].token \in Numbers
  /\ \A c \in Calls : Working(c) => Captured(call[c].gen) /\ call[c].ep \in Endpoints
  /\ pendingAuth # Nothing => Captured(pendingAuth)

\* An account without a generation has no credentials, and it has no link either
\* but for the first, which nothing has used yet.
AbsentInv ==
  generation = 0 =>
    /\ tokens = Nothing /\ sessionId = Nothing /\ pendingAuth = Nothing /\ "connected" \notin flags
    /\ \/ nonce = Nothing
       \/ /\ nonce = [of |-> First, stage |-> "initiation"]
          /\ server = Nothing
          /\ \A a \in Attempts : ~Busy(a)
          /\ \A c \in Calls : ~InFlight(c) /\ ~Working(c)

\* Until it is connected, only the first attempt is under way, and no call.
UnconnectedInv ==
  ("connected" \notin flags /\ generation # 0) =>
    /\ nonce # Nothing => nonce.of = First
    /\ \A a \in Attempts : Busy(a) => a = First /\ attempt[a].gen = generation
    /\ \A c \in Calls : ~InFlight(c) /\ ~Working(c)

\* When the server record is there.
ServerInv ==
  /\ "connected" \in flags => server # Nothing /\ generation # 0
  /\ server = Nothing => tokens = Nothing /\ sessionId = Nothing
  /\ \A a \in Attempts :
       (attempt[a].pc \notin {"idle", "probing"} /\ attempt[a].gen = generation) => server # Nothing

\* The calls that await a refresh, and the refresh that they share.
FlightsInv ==
  /\ \A c \in Calls : InFlight(c) => call[c].pc = "awaiting" /\ call[c].on = c
  /\ \A c \in Calls : call[c].pc = "awaiting" =>
       call[c].on \in Calls /\ InFlight(call[c].on) /\ call[c].bearer = Nothing
  /\ refreshing # Nothing => InFlight(refreshing)
  /\ \A o \in Calls : (InFlight(o) /\ flight[o].gen = generation) => refreshing = o

\* What captured the present generation captured the present endpoint.
EndpointsInv ==
  ~overwritten =>
    /\ server # Nothing =>
         /\ \A a \in Attempts : (Busy(a) /\ attempt[a].gen = generation) => attempt[a].to = server.ep
         /\ \A o \in Calls : (InFlight(o) /\ flight[o].gen = generation) => flight[o].ep = server.ep
    /\ \A c \in Calls : call[c].pc = "awaiting" => call[c].ep = flight[call[c].on].ep

\* The exchange of a code has spent the nonce; every other attempt has it to release.
ClaimInv ==
  /\ \A a \in Attempts : attempt[a].pc \in {"exchanging", "exchanged", "checking"}
       => nonce # [of |-> a, stage |-> "connecting"]
  /\ ClaimIsReleased

\* Tokens are numbered as they are issued.
NumbersInv ==
  /\ \A n \in accepted : n <= issued
  /\ tokens # Nothing => tokens.n <= issued
  /\ \A o \in Calls : InFlight(o) => flight[o].token <= issued
  /\ \A a \in Attempts : attempt[a].pc \in {"redeemed", "exchanged"} => attempt[a].token <= issued

Holds(a) == attempt[a].pc \in {"redeemed", "exchanged"}

\* Nobody else knows the token that a code was exchanged for, or one that a
\* refresh was answered with.
UniqueInv ==
  /\ \A a \in Attempts : Holds(a) =>
       /\ tokens # Nothing => attempt[a].token # tokens.n
       /\ \A o \in Calls : InFlight(o) => attempt[a].token # flight[o].token
       /\ \A b \in Attempts \ {a} : Holds(b) => attempt[a].token # attempt[b].token
  /\ \A o \in Calls : flight[o].st = "answered" =>
       /\ tokens # Nothing => flight[o].token # tokens.n
       /\ \A p \in Calls \ {o} : InFlight(p) => flight[o].token # flight[p].token

\* The stored token is accepted, unless the refresh under way has redeemed it, and
\* only a call with another bearer has the account reported.
TokensSound ==
  (tokens # Nothing /\ tokens.life # "spent") =>
    /\ notified => misled
    /\ tokens.n \in accepted
       \/ \E o \in Calls : flight[o].st = "answered" /\ flight[o].gen = generation

\* The tokens are those that the refresh under way started from, unless it is
\* past its answer.
RefreshSound ==
  \A o \in Calls : (InFlight(o) /\ flight[o].gen = generation) =>
    /\ flight[o].st # "refused"
    /\ flight[o].st \in {"sent", "answered"} => tokens # Nothing /\ tokens.life = "stale"
    /\ flight[o].st = "sent" => flight[o].token = tokens.n
    /\ flight[o].st = "answered" => flight[o].token \in accepted

HealthInv == (~blame /\ ~overwritten) => TokensSound /\ RefreshSound

LifeInv == CapturesInv /\ AbsentInv /\ UnconnectedInv /\ ServerInv

IInv ==
  /\ TypeOK /\ LifeInv /\ FlightsInv /\ EndpointsInv /\ StoredForServer
  /\ ClaimInv /\ NumbersInv /\ UniqueInv /\ HealthInv

-----------------------------------------------------------------------------
(* Types *)

\* What stands for no attempt, call or refresh has a type.
LEMMA AbsentTypes ==
  NoAttempt \in AttemptState /\ NoCall \in CallState /\ NoFlight \in FlightState
BY AccountAssumption DEF NoAttempt, NoCall, NoFlight, AttemptState, CallState, FlightState,
   Generations

\* What complete() leaves of the nonce and the flags.
LEMMA TypesOfCompletion ==
  ASSUME Completes
  PROVE  /\ nonce' = Nothing /\ "connected" \in flags'
         /\ flags' \subseteq {"callback", "connected", "reconnecting", "alarm"}
<1>1. PICK f \in SUBSET (flags \cap {"alarm"}) : flags' = {"callback", "connected"} \cup f
  BY DEF Completes
<1>. QED
  BY <1>1 DEF Completes

\* What the deletion of the account leaves.
LEMMA TypesOfDeletion ==
  ASSUME DeleteAll
  PROVE  /\ server' \in Server \cup {Nothing} /\ generation' \in Generations
         /\ nonce' \in Nonce \cup {Nothing} /\ pendingAuth' \in Generations \cup {Nothing}
         /\ tokens' \in Token \cup {Nothing} /\ sessionId' \in Endpoints \cup {Nothing}
         /\ notified' \in BOOLEAN
         /\ flags' \subseteq {"callback", "connected", "reconnecting", "alarm"}
<1>1. generation' \in Generations
  BY AccountAssumption DEF DeleteAll, Generations
<1>2. flags' \subseteq {"callback", "connected", "reconnecting", "alarm"}
  BY DEF DeleteAll
<1>. QED
  BY <1>1, <1>2 DEF DeleteAll

\* Every step keeps the types: what awaits has an endpoint and a token when it needs one.
LEMMA TypesStep ==
  ASSUME TypeOK, CapturesInv, [Next]_vars
  PROVE  TypeOK'
<1>1. ASSUME NEW a \in Attempts, PrepareReconnect(a) PROVE TypeOK'
  <2>1. generation' \in Generations
    BY <1>1, AccountAssumption DEF PrepareReconnect, TypeOK, Generations
  <2>2. nonce' \in Nonce \cup {Nothing}
    BY <1>1 DEF PrepareReconnect, Nonce
  <2>3. flags' \subseteq {"callback", "connected", "reconnecting", "alarm"}
    BY <1>1, TypesOfCompletion DEF PrepareReconnect, TypeOK
  <2>. QED
    BY <1>1, <2>1, <2>2, <2>3 DEF PrepareReconnect, TypeOK, external
<1>2. ASSUME NEW a \in Attempts, NEW to \in Server, NEW by \in {"user", "deployment"}, ConnectBegins(a, to, by)
      PROVE  TypeOK'
  <2>1. generation' \in Generations
    BY <1>2, AccountAssumption DEF ConnectBegins, TypeOK, Generations
  <2>2. nonce' \in Nonce \cup {Nothing}
    BY <1>2 DEF ConnectBegins, Nonce
  <2>3. server' \in Server \cup {Nothing}
    BY <1>2 DEF ConnectBegins, TypeOK
  <2>4. sessionId' \in Endpoints \cup {Nothing}
    BY <1>2 DEF ConnectBegins, TypeOK
  <2>5. attempt' \in [Attempts -> AttemptState]
    BY <1>2, AccountAssumption DEF ConnectBegins, TypeOK, AttemptState, Generations, Server
  <2>. QED
    BY <1>2, <2>1, <2>2, <2>3, <2>4, <2>5 DEF ConnectBegins, TypeOK, external, history
<1>3. ASSUME NEW a \in Attempts, ProbeAnswers(a) PROVE TypeOK'
  <2>1. nonce' \in Nonce \cup {Nothing}
    BY <1>3 DEF ProbeAnswers, TypeOK, Nonce, Completes, Restored
  <2>2. flags' \subseteq {"callback", "connected", "reconnecting", "alarm"}
    BY <1>3, TypesOfCompletion DEF ProbeAnswers, TypeOK
  <2>3. server' \in Server \cup {Nothing}
    BY <1>3 DEF ProbeAnswers, TypeOK, Server, CapturesInv, Busy
  <2>4. sessionId' \in Endpoints \cup {Nothing}
    BY <1>3 DEF ProbeAnswers, TypeOK, CapturesInv, Busy
  <2>5. attempt' \in [Attempts -> AttemptState]
    BY <1>3, AbsentTypes DEF ProbeAnswers, TypeOK, Ends
  <2>. QED
    BY <1>3, <2>1, <2>2, <2>3, <2>4, <2>5 DEF ProbeAnswers, TypeOK, external, history
<1>4. ASSUME NEW a \in Attempts, ProbeChallenges(a) PROVE TypeOK'
  <2>1. nonce' \in Nonce \cup {Nothing}
    BY <1>4 DEF ProbeChallenges, TypeOK, Nonce, Restored
  <2>2. server' \in Server \cup {Nothing}
    BY <1>4 DEF ProbeChallenges, Server, CapturesInv, Busy
  <2>3. attempt' \in [Attempts -> AttemptState]
    BY <1>4, AbsentTypes DEF ProbeChallenges, TypeOK, Ends, Proceeds, AttemptState
  <2>. QED
    BY <1>4, <2>1, <2>2, <2>3 DEF ProbeChallenges, TypeOK, external
<1>5. ASSUME NEW a \in Attempts, ProbeFails(a) PROVE TypeOK'
  BY <1>5, AbsentTypes DEF ProbeFails, TypeOK, external, history, Ends, Restored, Nonce
<1>6. ASSUME NEW a \in Attempts, Redirects(a) PROVE TypeOK'
  BY <1>6, AbsentTypes DEF Redirects, TypeOK, external, Ends, IsCurrent, Current, Nonce
<1>7. ASSUME NEW a \in Attempts, Redeems(a) PROVE TypeOK'
  <2>1. issued + 1 \in Numbers
    BY <1>7, AccountAssumption DEF Redeems, TypeOK, Issues, Numbers
  <2>2. issued' \in 0..MaxTokens /\ accepted' \subseteq Numbers
    BY <1>7, AccountAssumption DEF Redeems, TypeOK, Issues, Numbers
  <2>3. [attempt[a] EXCEPT !.pc = "redeemed", !.token = issued + 1] \in AttemptState
    BY <1>7, <2>1 DEF Redeems, TypeOK, AttemptState
  <2>4. attempt' \in [Attempts -> AttemptState]
    BY <1>7, <2>3 DEF Redeems, TypeOK
  <2>5. blame' \in BOOLEAN
    BY <1>7 DEF Redeems
  <2>. QED
    BY <1>7, <2>1, <2>2, <2>3, <2>4, <2>5 DEF Redeems, TypeOK, durable
<1>8. ASSUME NEW a \in Attempts, AcceptCode(a) PROVE TypeOK'
  <2>1. attempt' \in [Attempts -> AttemptState]
    BY <1>8 DEF AcceptCode, TypeOK, AttemptState, Server
  <2>. QED
    BY <1>8, <2>1 DEF AcceptCode, TypeOK, external, history
<1>9. ASSUME NEW a \in Attempts, CodeIsExchanged(a) PROVE TypeOK'
  <2>1. issued + 1 \in Numbers
    BY <1>9, AccountAssumption DEF CodeIsExchanged, TypeOK, Issues, Numbers
  <2>2. issued' \in 0..MaxTokens /\ accepted' \subseteq Numbers
    BY <1>9, AccountAssumption DEF CodeIsExchanged, TypeOK, Issues, Numbers
  <2>3. [attempt[a] EXCEPT !.pc = "exchanged", !.token = issued + 1] \in AttemptState
    BY <1>9, <2>1 DEF CodeIsExchanged, TypeOK, AttemptState
  <2>4. attempt' \in [Attempts -> AttemptState]
    BY <1>9, <2>3 DEF CodeIsExchanged, TypeOK
  <2>. QED
    BY <1>9, <2>1, <2>2, <2>3, <2>4 DEF CodeIsExchanged, TypeOK, durable, history
<1>10. ASSUME NEW a \in Attempts, SaveTokens(a) PROVE TypeOK'
  <2>1. nonce' \in Nonce \cup {Nothing}
    BY <1>10 DEF SaveTokens, TypeOK, Nonce, Restored
  <2>2. tokens' \in Token \cup {Nothing}
    BY <1>10 DEF SaveTokens, TypeOK, Token, NewToken, CapturesInv, Busy
  <2>3. attempt' \in [Attempts -> AttemptState]
    BY <1>10, AbsentTypes DEF SaveTokens, TypeOK, Ends, Proceeds, AttemptState
  <2>4. blame' \in BOOLEAN /\ misled' \in BOOLEAN
    BY <1>10 DEF SaveTokens, TypeOK
  <2>. QED
    BY <1>10, <2>1, <2>2, <2>3, <2>4 DEF SaveTokens, TypeOK, external
<1>11. ASSUME NEW a \in Attempts, Reprobed(a) PROVE TypeOK'
  <2>1. nonce' \in Nonce \cup {Nothing}
    BY <1>11 DEF Reprobed, TypeOK, Nonce, Completes, Restored
  <2>2. flags' \subseteq {"callback", "connected", "reconnecting", "alarm"}
    BY <1>11, TypesOfCompletion DEF Reprobed, TypeOK
  <2>3. sessionId' \in Endpoints \cup {Nothing}
    BY <1>11 DEF Reprobed, TypeOK, CapturesInv, Busy
  <2>4. attempt' \in [Attempts -> AttemptState]
    BY <1>11, AbsentTypes DEF Reprobed, TypeOK, Ends
  <2>. QED
    BY <1>11, <2>1, <2>2, <2>3, <2>4 DEF Reprobed, TypeOK, external, history
<1>12. ASSUME NEW a \in Attempts, OAuthFails(a) PROVE TypeOK'
  BY <1>12, AbsentTypes DEF OAuthFails, history, TypeOK, external, Ends, Restored, Nonce
<1>13. ASSUME NEW a \in Attempts, ExchangeFails(a) PROVE TypeOK'
  BY <1>13, AbsentTypes DEF ExchangeFails, TypeOK, durable, external, history, Ends
<1>14. ASSUME NEW c \in Calls, GetConnection(c) PROVE TypeOK'
  <2>1. Uses(Nothing, 0) \in CallState
    BY <1>14, AccountAssumption DEF GetConnection, TypeOK, Uses, CallState, Server
  <2>2. Life = "fresh" => Uses(tokens.ep, tokens.n) \in CallState
    <3>1. Life = "fresh" => tokens.ep \in Endpoints /\ tokens.n \in 0..MaxTokens
      BY AccountAssumption DEF TypeOK, Life, Token, Numbers
    <3>. QED
      BY <1>14, <3>1 DEF GetConnection, TypeOK, Uses, CallState, Server
  <2>3. [NoCall EXCEPT !.pc = "notifying"] \in CallState
    BY <1>14, AbsentTypes DEF GetConnection, CallState
  <2>4. \A b \in Calls : [Uses(Nothing, 0) EXCEPT !.pc = "awaiting", !.on = b] \in CallState
    BY <2>1 DEF CallState
  <2>5. (IF ~Shared(generation) THEN c ELSE refreshing) \in Calls
    BY <1>14 DEF GetConnection, TypeOK, Shared
  <2>6. call' = call \/ \E s \in CallState : call' = [call EXCEPT ![c] = s]
    BY <1>14, <2>1, <2>2, <2>3, <2>4, <2>5 DEF GetConnection
  <2>7. call' \in [Calls -> CallState]
    BY <1>14, <2>6 DEF GetConnection, TypeOK
  <2>8. flight' \in [Calls -> FlightState]
    BY <1>14, AccountAssumption DEF GetConnection, TypeOK, FlightState, Server, Token, Numbers,
       Life, Shared
  <2>9. refreshing' \in Calls \cup {Nothing} /\ notified' \in BOOLEAN
    BY <1>14 DEF GetConnection, TypeOK, Noted
  <2>. QED
    BY <1>14, <2>1, <2>2, <2>3, <2>4, <2>5, <2>6, <2>7, <2>8, <2>9 DEF GetConnection, TypeOK,
       external, history
<1>15. ASSUME NEW c \in Calls, CallSetsSession(c) PROVE TypeOK'
  <2>1. sessionId' \in Endpoints \cup {Nothing}
    BY <1>15 DEF CallSetsSession, TypeOK, CapturesInv, Working
  <2>. QED
    BY <1>15, <2>1 DEF CallSetsSession, TypeOK, external, history
<1>16. ASSUME NEW c \in Calls, CallEnds(c) PROVE TypeOK'
  BY <1>16, AbsentTypes DEF CallEnds, TypeOK, durable, external, history
<1>17. ASSUME NEW c \in Calls, CallRefused(c) PROVE TypeOK'
  <2>1. call' \in [Calls -> CallState]
    BY <1>17, AbsentTypes DEF CallRefused, TypeOK, CallState
  <2>2. notified' \in BOOLEAN /\ misled' \in BOOLEAN
    BY <1>17 DEF CallRefused, TypeOK, Noted
  <2>. QED
    BY <1>17, <2>1, <2>2 DEF CallRefused, TypeOK, external
<1>18. ASSUME NEW c \in Calls, CallNotified(c) PROVE TypeOK'
  <2>1. call' \in [Calls -> CallState]
    BY <1>18, AbsentTypes DEF CallNotified, TypeOK
  <2>2. notified' \in BOOLEAN /\ misled' \in BOOLEAN
    BY <1>18 DEF CallNotified, TypeOK
  <2>. QED
    BY <1>18, <2>1, <2>2 DEF CallNotified, TypeOK, external
<1>19. ASSUME NEW o \in Calls, Redeemed(o) PROVE TypeOK'
  <2>1. flight' \in [Calls -> FlightState]
    BY <1>19 DEF Redeemed, TypeOK, FlightState
  <2>2. issued' \in 0..MaxTokens /\ accepted' \subseteq Numbers
    BY <1>19, AccountAssumption DEF Redeemed, TypeOK, Issues, Numbers, external
  <2>3. blame' \in BOOLEAN
    BY <1>19 DEF Redeemed, TypeOK
  <2>. QED
    BY <1>19, <2>1, <2>2, <2>3 DEF Redeemed, TypeOK, durable
<1>20. ASSUME NEW o \in Calls, RefreshAnswers(o) PROVE TypeOK'
  <2>1. flight[o].ep \in Endpoints /\ flight[o].token \in Numbers
    BY <1>20 DEF RefreshAnswers, CapturesInv, InFlight
  <2>2. NewToken(flight[o].ep, flight[o].token) \in Token
    BY <1>20, <2>1 DEF RefreshAnswers, Token, NewToken
  <2>3. tokens' \in Token \cup {Nothing}
    BY <1>20, <2>2 DEF RefreshAnswers, TypeOK
  <2>4. AllUse(flight[o]) \in [Calls -> CallState]
    <3>1. flight[o].token \in 0..MaxTokens
      BY <2>1, AccountAssumption DEF Numbers
    <3>2. \A d \in Calls :
            [call[d] EXCEPT !.pc = "using", !.on = Nothing, !.bearer = flight[o].ep, !.token = flight[o].token]
              \in CallState
      BY <2>1, <3>1 DEF TypeOK, CallState
    <3>. QED
      BY <3>2 DEF AllUse
  <2>5. Settles(o, AllFail) \/ Settles(o, AllUse(flight[o]))
    BY <1>20 DEF RefreshAnswers
  <2>6. \E to \in [Calls -> CallState] : Settles(o, to)
    BY <1>20, AbsentTypes, <2>4, <2>5 DEF RefreshAnswers, AllFail
  <2>7. call' \in [Calls -> CallState]
    BY <1>20, <2>6 DEF RefreshAnswers, TypeOK, Settles
  <2>8. flight' \in [Calls -> FlightState]
    BY <1>20, AbsentTypes DEF RefreshAnswers, TypeOK, Settles
  <2>9. refreshing' \in Calls \cup {Nothing} /\ notified' \in BOOLEAN
    BY <1>20 DEF RefreshAnswers, TypeOK, Settles
  <2>. QED
    BY <1>20, <2>1, <2>2, <2>3, <2>4, <2>5, <2>6, <2>7, <2>8, <2>9 DEF RefreshAnswers,
       TypeOK, external, history
<1>21. ASSUME NEW o \in Calls, RefreshFails(o) PROVE TypeOK'
  <2>1. call' \in [Calls -> CallState]
    BY <1>21, AbsentTypes DEF RefreshFails, TypeOK, Settles, AllFail
  <2>2. flight' \in [Calls -> FlightState]
    BY <1>21, AbsentTypes DEF RefreshFails, TypeOK, Settles
  <2>3. blame' \in BOOLEAN
    BY <1>21 DEF RefreshFails, TypeOK
  <2>4. refreshing' \in Calls \cup {Nothing}
    BY <1>21 DEF RefreshFails, TypeOK, Settles
  <2>. QED
    BY <1>21, <2>1, <2>2, <2>3, <2>4 DEF RefreshFails, TypeOK, durable, external
<1>22. ASSUME NEW o \in Calls, RefreshRefused(o) PROVE TypeOK'
  <2>1. call' \in [Calls -> CallState]
    BY <1>22, AbsentTypes DEF RefreshRefused, TypeOK, Settles, AllFail
  <2>2. flight' \in [Calls -> FlightState]
    BY <1>22, AbsentTypes DEF RefreshRefused, TypeOK, Settles, FlightState
  <2>3. notified' \in BOOLEAN
    BY <1>22 DEF RefreshRefused, Noted
  <2>4. refreshing' \in Calls \cup {Nothing}
    BY <1>22 DEF RefreshRefused, TypeOK, Settles
  <2>. QED
    BY <1>22, <2>1, <2>2, <2>3, <2>4 DEF RefreshRefused, TypeOK, external, history
<1>23. ASSUME NEW o \in Calls, RefreshNotified(o) PROVE TypeOK'
  <2>1. call' \in [Calls -> CallState]
    BY <1>23, AbsentTypes DEF RefreshNotified, TypeOK, Settles, AllFail
  <2>2. flight' \in [Calls -> FlightState]
    BY <1>23, AbsentTypes DEF RefreshNotified, TypeOK, Settles
  <2>3. refreshing' \in Calls \cup {Nothing} /\ notified' \in BOOLEAN /\ misled' \in BOOLEAN
    BY <1>23 DEF RefreshNotified, TypeOK, Settles
  <2>. QED
    BY <1>23, <2>1, <2>2, <2>3 DEF RefreshNotified, TypeOK, external
<1>24. CASE NonceExpires
  BY <1>24, AbsentTypes DEF NonceExpires, TypeOK, external, history
<1>25. CASE TokenExpires
  <2>1. tokens' \in Token \cup {Nothing}
    BY <1>25 DEF TokenExpires, TypeOK, Token
  <2>. QED
    BY <1>25, <2>1 DEF TokenExpires, TypeOK, external, history
<1>26. CASE GrantIsRevoked
  BY <1>26, AbsentTypes DEF GrantIsRevoked, TypeOK, durable
<1>27. CASE Alarm
  <2>1. CASE DeleteAll
    BY <1>27, <2>1, TypesOfDeletion DEF Alarm, TypeOK, external, history
  <2>2. CASE ~DeleteAll
    BY <1>27, <2>2 DEF Alarm, TypeOK, external, history
  <2>. QED
    BY <2>1, <2>2
<1>28. CASE Revoke
  BY <1>28, AbsentTypes DEF Revoke, TypeOK, durable, external, history
<1>29. CASE RevokeEnds
  BY <1>29, TypesOfDeletion DEF RevokeEnds, TypeOK, external, history
<1>30. CASE Restart
  <2>1. attempt' \in [Attempts -> AttemptState]
    BY <1>30, AbsentTypes DEF Restart, TypeOK
  <2>2. call' \in [Calls -> CallState]
    BY <1>30, AbsentTypes DEF Restart, TypeOK
  <2>3. flight' \in [Calls -> FlightState]
    BY <1>30, AbsentTypes DEF Restart, TypeOK
  <2>4. blame' \in BOOLEAN
    BY <1>30 DEF Restart, TypeOK
  <2>5. crashed' \in Attempts \cup {Nothing}
    BY <1>30 DEF Restart, TypeOK, Nonce
  <2>. QED
    BY <1>30, <2>1, <2>2, <2>3, <2>4, <2>5 DEF Restart, TypeOK, durable, external
<1>31. CASE UNCHANGED vars
  BY <1>31, AbsentTypes DEF TypeOK, vars, durable, external, history
<1>. QED
  BY <1>1, <1>2, <1>3, <1>4, <1>5, <1>6, <1>7, <1>8, <1>9, <1>10, <1>11, <1>12, <1>13, <1>14,
     <1>15, <1>16, <1>17, <1>18, <1>19, <1>20, <1>21, <1>22, <1>23, <1>24, <1>25, <1>26, <1>27,
     <1>28, <1>29, <1>30, <1>31 DEF Next
-----------------------------------------------------------------------------
(* What the steps do to one attempt, call or refresh *)

\* A probe that is challenged, and what it writes of the server.
LEMMA EffectOfChallenge ==
  ASSUME TypeOK, NEW a \in Attempts, ProbeChallenges(a)
  PROVE  /\ attempt[a].pc = "probing"
         /\ \A b \in Attempts \ {a} : attempt'[b] = attempt[b]
         /\ attempt[a].gen # generation => attempt'[a] = NoAttempt
         /\ attempt[a].gen = generation =>
              /\ attempt'[a].pc = "authorizing" /\ attempt'[a].gen = attempt[a].gen
              /\ attempt'[a].to = attempt[a].to /\ attempt'[a].token = attempt[a].token
<1>1. attempt[a] \in AttemptState
  BY DEF TypeOK
<1>2. attempt' = [attempt EXCEPT ![a] = IF attempt[a].gen = generation
                    THEN [attempt[a] EXCEPT !.pc = "authorizing"] ELSE NoAttempt]
  BY DEF ProbeChallenges, Ends, Proceeds
<1>. QED
  BY <1>1, <1>2 DEF ProbeChallenges, TypeOK

\* What saveTokens() leaves.
LEMMA EffectOfSave ==
  ASSUME TypeOK, NEW a \in Attempts, SaveTokens(a)
  PROVE  /\ attempt[a].pc \in {"redeemed", "exchanged"}
         /\ \A b \in Attempts \ {a} : attempt'[b] = attempt[b]
         /\ ~IsCurrent(a) => attempt'[a] = NoAttempt
         /\ IsCurrent(a) =>
              /\ attempt'[a].pc = IF attempt[a].pc = "redeemed" THEN "reprobing" ELSE "checking"
              /\ attempt'[a].gen = attempt[a].gen
              /\ attempt'[a].to = attempt[a].to /\ attempt'[a].token = attempt[a].token
<1>1. attempt[a] \in AttemptState
  BY DEF TypeOK
<1>. DEFINE pc == IF attempt[a].pc = "redeemed" THEN "reprobing" ELSE "checking"
<1>2. attempt' = [attempt EXCEPT ![a] = IF IsCurrent(a)
                    THEN [attempt[a] EXCEPT !.pc = pc] ELSE NoAttempt]
  BY DEF SaveTokens, Ends, Proceeds
<1>. HIDE DEF pc
<1>3. attempt'[a] = IF IsCurrent(a) THEN [attempt[a] EXCEPT !.pc = pc] ELSE NoAttempt
  BY <1>2 DEF TypeOK
<1>4. IsCurrent(a) => /\ attempt'[a].pc = pc /\ attempt'[a].gen = attempt[a].gen
                      /\ attempt'[a].to = attempt[a].to /\ attempt'[a].token = attempt[a].token
  BY <1>1, <1>3 DEF AttemptState
<1>5. \A b \in Attempts \ {a} : attempt'[b] = attempt[b]
  BY <1>2 DEF TypeOK
<1>. QED
  BY <1>3, <1>4, <1>5 DEF SaveTokens, pc

\* The call is given the token, or none; it reports the account; or it awaits the
\* refresh under way, which it starts when there is none of this generation.
LEMMA EffectOfGetConnection ==
  ASSUME TypeOK, NEW c \in Calls, GetConnection(c)
  PROVE  /\ call[c] = NoCall /\ server # Nothing /\ "connected" \in flags
         /\ \A d \in Calls \ {c} : call'[d] = call[d] /\ flight'[d] = flight[d]
         /\ \/ call'[c] = Uses(Nothing, 0) /\ UNCHANGED <<notified, flight, refreshing>>
            \/ /\ tokens # Nothing /\ call'[c] = Uses(tokens.ep, tokens.n)
               /\ UNCHANGED <<notified, flight, refreshing>>
            \/ /\ tokens = Nothing \/ tokens.life = "spent"
               /\ call'[c].pc \in {"idle", "notifying"} /\ call'[c].bearer = Nothing
               /\ UNCHANGED <<flight, refreshing>>
            \/ /\ tokens # Nothing /\ tokens.life = "stale" /\ UNCHANGED notified
               /\ call'[c].pc = "awaiting" /\ call'[c].on = refreshing'
               /\ call'[c].gen = generation /\ call'[c].ep = server.ep /\ call'[c].bearer = Nothing
               /\ \/ Shared(generation) /\ UNCHANGED <<flight, refreshing>>
                  \/ /\ ~Shared(generation) /\ refreshing' = c
                     /\ flight'[c].st = "sent" /\ flight'[c].gen = generation
                     /\ flight'[c].ep = server.ep /\ flight'[c].token = tokens.n
<1>1. \/ call' = [call EXCEPT ![c] = Uses(Nothing, 0)] /\ UNCHANGED <<notified, flight, refreshing>>
      \/ /\ Life = "fresh" /\ call' = [call EXCEPT ![c] = Uses(tokens.ep, tokens.n)]
         /\ UNCHANGED <<notified, flight, refreshing>>
      \/ /\ Life = "spent" /\ UNCHANGED <<flight, refreshing>>
         /\ call' = [call EXCEPT ![c] = [NoCall EXCEPT !.pc = "notifying"]] \/ call' = call
      \/ /\ Life = "stale" /\ UNCHANGED notified
         /\ refreshing' = IF ~Shared(generation) THEN c ELSE refreshing
         /\ call' = [call EXCEPT ![c] = [Uses(Nothing, 0) EXCEPT !.pc = "awaiting", !.on = refreshing']]
         /\ flight' = IF ~Shared(generation)
                      THEN [flight EXCEPT ![c] = [st |-> "sent", gen |-> generation,
                                                  ep |-> server.ep, token |-> tokens.n]]
                      ELSE flight
  BY DEF GetConnection
<1>2. call[c] = NoCall /\ server # Nothing /\ "connected" \in flags
  BY DEF GetConnection
<1>3. \A s : call' = [call EXCEPT ![c] = s] => call'[c] = s /\ \A d \in Calls \ {c} : call'[d] = call[d]
  BY DEF TypeOK
<1>4. \A s : flight' = [flight EXCEPT ![c] = s] => flight'[c] = s /\ \A d \in Calls \ {c} : flight'[d] = flight[d]
  BY DEF TypeOK
<1>5. CASE call' = [call EXCEPT ![c] = Uses(Nothing, 0)] /\ UNCHANGED <<notified, flight, refreshing>>
  BY <1>2, <1>3, <1>5
<1>6. CASE /\ Life = "fresh" /\ call' = [call EXCEPT ![c] = Uses(tokens.ep, tokens.n)]
           /\ UNCHANGED <<notified, flight, refreshing>>
  BY <1>2, <1>3, <1>6 DEF Life
<1>7. CASE /\ Life = "spent" /\ UNCHANGED <<flight, refreshing>>
           /\ call' = [call EXCEPT ![c] = [NoCall EXCEPT !.pc = "notifying"]] \/ call' = call
  <2>1. call'[c].pc \in {"idle", "notifying"} /\ call'[c].bearer = Nothing
    BY <1>2, <1>3, <1>7 DEF NoCall
  <2>2. \A d \in Calls \ {c} : call'[d] = call[d]
    BY <1>3, <1>7
  <2>. QED
    BY <2>1, <2>2, <1>2, <1>7 DEF Life
<1>8. CASE /\ Life = "stale" /\ UNCHANGED notified
           /\ refreshing' = IF ~Shared(generation) THEN c ELSE refreshing
           /\ call' = [call EXCEPT ![c] = [Uses(Nothing, 0) EXCEPT !.pc = "awaiting", !.on = refreshing']]
           /\ flight' = IF ~Shared(generation)
                        THEN [flight EXCEPT ![c] = [st |-> "sent", gen |-> generation,
                                                    ep |-> server.ep, token |-> tokens.n]]
                        ELSE flight
  <2>1. /\ \A d \in Calls \ {c} : call'[d] = call[d]
        /\ call'[c] = [Uses(Nothing, 0) EXCEPT !.pc = "awaiting", !.on = refreshing']
    BY <1>3, <1>8
  <2>2. /\ call'[c].pc = "awaiting" /\ call'[c].on = refreshing'
        /\ call'[c].gen = generation /\ call'[c].ep = server.ep /\ call'[c].bearer = Nothing
    BY <2>1 DEF Uses
  <2>3. tokens # Nothing /\ tokens.life = "stale"
    BY <1>8 DEF Life
  <2>. QED
    BY <1>2, <1>4, <1>8, <2>1, <2>2, <2>3
<1>. QED
  BY <1>1, <1>5, <1>6, <1>7, <1>8

\* A refresh that starts is of this generation, endpoint and token.
LEMMA RefreshThatStarts ==
  ASSUME TypeOK, NEW c \in Calls, GetConnection(c)
  PROVE  \A p \in Calls : \/ flight'[p] = flight[p]
                          \/ /\ p = c /\ flight'[p].st = "sent" /\ flight'[p].token = tokens.n
                             /\ tokens # Nothing /\ tokens.life = "stale"
<1>1. \/ UNCHANGED flight
      \/ /\ flight'[c].st = "sent" /\ flight'[c].token = tokens.n
         /\ tokens # Nothing /\ tokens.life = "stale"
  BY EffectOfGetConnection
<1>2. \A p \in Calls \ {c} : flight'[p] = flight[p]
  BY EffectOfGetConnection
<1>. QED
  BY <1>1, <1>2

\* The authorization server trades the token of the refresh, or refuses it.
LEMMA EffectOfRedemption ==
  ASSUME TypeOK, NEW o \in Calls, Redeemed(o)
  PROVE  /\ \A p \in Calls \ {o} : flight'[p] = flight[p]
         /\ flight[o].st = "sent" /\ flight'[o].gen = flight[o].gen /\ flight'[o].ep = flight[o].ep
         /\ \/ /\ flight[o].token \in accepted /\ Issues(flight[o].token)
               /\ flight'[o].st = "answered" /\ flight'[o].token = issued + 1
            \/ /\ flight[o].token \notin accepted /\ UNCHANGED external
               /\ flight'[o].st = "refused" /\ flight'[o].token = flight[o].token
<1>1. flight[o] \in FlightState
  BY DEF TypeOK
<1>2. CASE flight[o].token \in accepted
  <2>1. flight' = [flight EXCEPT ![o] = [flight[o] EXCEPT !.st = "answered", !.token = issued + 1]]
    BY <1>2 DEF Redeemed
  <2>2. /\ flight'[o] = [flight[o] EXCEPT !.st = "answered", !.token = issued + 1]
        /\ \A p \in Calls \ {o} : flight'[p] = flight[p]
    BY <2>1 DEF TypeOK
  <2>. QED
    BY <1>1, <1>2, <2>2 DEF Redeemed, FlightState
<1>3. CASE flight[o].token \notin accepted
  <2>1. flight' = [flight EXCEPT ![o] = [flight[o] EXCEPT !.st = "refused"]]
    BY <1>3 DEF Redeemed
  <2>2. /\ flight'[o] = [flight[o] EXCEPT !.st = "refused"]
        /\ \A p \in Calls \ {o} : flight'[p] = flight[p]
    BY <2>1 DEF TypeOK
  <2>. QED
    BY <1>1, <1>3, <2>2 DEF Redeemed, FlightState
<1>. QED
  BY <1>2, <1>3

\* Those who share a refresh are given its token, unless it was superseded.
LEMMA EffectOfAnswer ==
  ASSUME TypeOK, NEW o \in Calls, RefreshAnswers(o)
  PROVE  /\ flight[o].st = "answered"
         /\ \A p \in Calls \ {o} : flight'[p] = flight[p]
         /\ flight'[o] = NoFlight /\ refreshing' = IF refreshing = o THEN Nothing ELSE refreshing
         /\ IF FlightIsCurrent(o)
            THEN tokens' = NewToken(flight[o].ep, flight[o].token) ELSE tokens' = tokens
         /\ \A d \in Calls : IF call[d].pc = "awaiting" /\ call[d].on = o
              THEN IF FlightIsCurrent(o)
                   THEN /\ call'[d].pc = "using" /\ call'[d].gen = call[d].gen
                        /\ call'[d].ep = call[d].ep /\ call'[d].bearer = flight[o].ep
                   ELSE call'[d] = NoCall
              ELSE call'[d] = call[d]
<1>. DEFINE to == IF FlightIsCurrent(o) THEN AllUse(flight[o]) ELSE AllFail
<1>1. /\ Settles(o, to) /\ flight[o].st = "answered"
      /\ IF FlightIsCurrent(o)
         THEN tokens' = NewToken(flight[o].ep, flight[o].token) ELSE tokens' = tokens
  BY DEF RefreshAnswers
<1>2. FlightIsCurrent(o) => \A d \in Calls :
        /\ to[d].pc = "using" /\ to[d].gen = call[d].gen
        /\ to[d].ep = call[d].ep /\ to[d].bearer = flight[o].ep
  BY DEF TypeOK, CallState, AllUse
<1>3. ~FlightIsCurrent(o) => \A d \in Calls : to[d] = NoCall
  BY DEF AllFail
<1>. HIDE DEF to
<1>. QED
  BY <1>1, <1>2, <1>3 DEF Settles, TypeOK

\* A refresh that was refused reports the account, or ends.
LEMMA EffectOfRefusal ==
  ASSUME TypeOK, NEW o \in Calls, RefreshRefused(o)
  PROVE  /\ flight[o].st = "refused"
         /\ \A p \in Calls \ {o} : flight'[p] = flight[p]
         /\ \/ /\ flight'[o].st = "notifying" /\ flight'[o].gen = flight[o].gen
               /\ flight'[o].ep = flight[o].ep /\ flight'[o].token = flight[o].token
               /\ UNCHANGED <<call, refreshing>>
            \/ flight'[o] = NoFlight /\ Settles(o, AllFail)
<1>1. flight[o] \in FlightState
  BY DEF TypeOK
<1>2. CASE flight' = [flight EXCEPT ![o].st = "notifying"] /\ UNCHANGED <<call, refreshing>>
  <2>1. flight' = [flight EXCEPT ![o] = [flight[o] EXCEPT !.st = "notifying"]]
    BY <1>2
  <2>2. /\ flight'[o] = [flight[o] EXCEPT !.st = "notifying"]
        /\ \A p \in Calls \ {o} : flight'[p] = flight[p]
    BY <2>1 DEF TypeOK
  <2>. QED
    BY <1>1, <1>2, <2>2 DEF FlightState, RefreshRefused
<1>3. CASE Settles(o, AllFail)
  BY <1>3 DEF Settles, TypeOK, RefreshRefused
<1>. QED
  BY <1>2, <1>3 DEF RefreshRefused

\* Whoever starts captures the present generation, and no step moves it back.
LEMMA CapturesStep ==
  ASSUME TypeOK, LifeInv, FlightsInv, [Next]_vars
  PROVE  CapturesInv'
<1>1. ASSUME NEW a \in Attempts, PrepareReconnect(a) PROVE CapturesInv'
  BY <1>1 DEF PrepareReconnect, TypeOK, AttemptState, CallState, FlightState, Generations,
     LifeInv, CapturesInv, AbsentInv, Busy, InFlight, Working, Captured
<1>2. ASSUME NEW a \in Attempts, NEW to \in Server, NEW by \in {"user", "deployment"}, ConnectBegins(a, to, by)
      PROVE  CapturesInv'
  BY <1>2, AccountAssumption DEF ConnectBegins, TypeOK, AttemptState, CallState, FlightState,
     Generations, Nonce, Server, LifeInv, CapturesInv, AbsentInv, Busy, InFlight, Working,
     Captured
<1>3. ASSUME NEW a \in Attempts, ProbeAnswers(a) PROVE CapturesInv'
  BY <1>3 DEF ProbeAnswers, Ends, NoAttempt, LifeInv, CapturesInv, Busy, InFlight, Working, Captured
<1>4. ASSUME NEW a \in Attempts, ProbeChallenges(a) PROVE CapturesInv'
  <2>1. UNCHANGED <<generation, pendingAuth, tokens, sessionId, flags, call, flight, refreshing>>
    BY <1>4 DEF ProbeChallenges
  <2>. QED
    BY <1>4, <2>1, EffectOfChallenge DEF CapturesInv, LifeInv, Captured, Busy, InFlight, Working,
       NoAttempt
<1>5. ASSUME NEW a \in Attempts, ProbeFails(a) PROVE CapturesInv'
  BY <1>5 DEF ProbeFails, Ends, NoAttempt, LifeInv, CapturesInv, Busy, InFlight, Working, Captured
<1>6. ASSUME NEW a \in Attempts, Redirects(a) PROVE CapturesInv'
  BY <1>6 DEF Redirects, Ends, NoAttempt, LifeInv, CapturesInv, Busy, InFlight, Working, Captured
<1>7. ASSUME NEW a \in Attempts, Redeems(a) PROVE CapturesInv'
  BY <1>7, AccountAssumption DEF Redeems, durable, TypeOK, AttemptState, LifeInv, CapturesInv,
     Busy, InFlight, Working, Captured
<1>8. ASSUME NEW a \in Attempts, AcceptCode(a) PROVE CapturesInv'
  BY <1>8 DEF AcceptCode, TypeOK, Server, LifeInv, CapturesInv, Busy, InFlight, Working, Captured
<1>9. ASSUME NEW a \in Attempts, CodeIsExchanged(a) PROVE CapturesInv'
  BY <1>9, AccountAssumption DEF CodeIsExchanged, durable, TypeOK, AttemptState, LifeInv,
     CapturesInv, Busy, InFlight, Working, Captured
<1>10. ASSUME NEW a \in Attempts, SaveTokens(a) PROVE CapturesInv'
  <2>1. UNCHANGED <<server, generation, pendingAuth, sessionId, flags, call, flight, refreshing,
                    accepted, issued, overwritten>>
    BY <1>10 DEF SaveTokens, external
  <2>. QED
    BY <1>10, <2>1, EffectOfSave DEF CapturesInv, LifeInv, Captured, Busy, InFlight, Working,
       NoAttempt
<1>11. ASSUME NEW a \in Attempts, Reprobed(a) PROVE CapturesInv'
  BY <1>11 DEF Reprobed, Ends, NoAttempt, LifeInv, CapturesInv, Busy, InFlight, Working, Captured
<1>12. ASSUME NEW a \in Attempts, OAuthFails(a) PROVE CapturesInv'
  BY <1>12 DEF OAuthFails, history, Ends, NoAttempt, LifeInv, CapturesInv, Busy, InFlight, Working, Captured
<1>13. ASSUME NEW a \in Attempts, ExchangeFails(a) PROVE CapturesInv'
  BY <1>13 DEF ExchangeFails, durable, Ends, NoAttempt, LifeInv, CapturesInv, Busy, InFlight,
     Working, Captured
<1>14. ASSUME NEW c \in Calls, GetConnection(c) PROVE CapturesInv'
  <2>1. UNCHANGED <<server, generation, nonce, pendingAuth, tokens, sessionId, flags, attempt,
                    accepted, issued, overwritten>>
    BY <1>14 DEF GetConnection, external, history
  <2>. QED
    BY <1>14, <2>1, EffectOfGetConnection DEF CapturesInv, LifeInv, Captured, Busy, InFlight,
       Working, Uses, ServerInv, TypeOK, Server, Token, Generations
<1>15. ASSUME NEW c \in Calls, CallSetsSession(c) PROVE CapturesInv'
  BY <1>15 DEF CallSetsSession, LifeInv, CapturesInv, Busy, InFlight, Working, Captured
<1>16. ASSUME NEW c \in Calls, CallEnds(c) PROVE CapturesInv'
  BY <1>16 DEF CallEnds, durable, NoCall, LifeInv, CapturesInv, Busy, InFlight, Working, Captured
<1>17. ASSUME NEW c \in Calls, CallRefused(c) PROVE CapturesInv'
  BY <1>17 DEF CallRefused, NoCall, LifeInv, CapturesInv, Busy, InFlight, Working, Captured
<1>18. ASSUME NEW c \in Calls, CallNotified(c) PROVE CapturesInv'
  BY <1>18 DEF CallNotified, NoCall, LifeInv, CapturesInv, Busy, InFlight, Working, Captured
<1>19. ASSUME NEW o \in Calls, Redeemed(o) PROVE CapturesInv'
  <2>1. UNCHANGED <<server, generation, nonce, pendingAuth, tokens, sessionId, flags, attempt,
                    call, refreshing, overwritten>>
    BY <1>19 DEF Redeemed, durable, history
  <2>. QED
    BY <1>19, <2>1, EffectOfRedemption, AccountAssumption DEF CapturesInv, LifeInv, Captured,
       Busy, InFlight, Working, TypeOK, Issues, Numbers
<1>20. ASSUME NEW o \in Calls, RefreshAnswers(o) PROVE CapturesInv'
  <2>1. UNCHANGED <<server, generation, nonce, pendingAuth, sessionId, flags, attempt, accepted,
                    issued, overwritten>>
    BY <1>20 DEF RefreshAnswers, external, history
  <2>. QED
    BY <1>20, <2>1, EffectOfAnswer DEF CapturesInv, LifeInv, Captured, Busy, InFlight, Working,
       NoFlight, NoCall, FlightsInv
<1>21. ASSUME NEW o \in Calls, RefreshFails(o) PROVE CapturesInv'
  BY <1>21 DEF RefreshFails, durable, NoCall, NoFlight, Settles, AllFail, LifeInv, CapturesInv,
     Busy, InFlight, Working, Captured
<1>22. ASSUME NEW o \in Calls, RefreshRefused(o) PROVE CapturesInv'
  <2>1. UNCHANGED <<server, generation, nonce, pendingAuth, tokens, sessionId, flags, attempt,
                    accepted, issued, overwritten>>
    BY <1>22 DEF RefreshRefused, external, history
  <2>. QED
    BY <1>22, <2>1, EffectOfRefusal DEF CapturesInv, LifeInv, Captured, Busy, InFlight, Working,
       NoFlight, NoCall, Settles, AllFail
<1>23. ASSUME NEW o \in Calls, RefreshNotified(o) PROVE CapturesInv'
  BY <1>23 DEF RefreshNotified, NoCall, NoFlight, Settles, AllFail, LifeInv, CapturesInv, Busy,
     InFlight, Working, Captured
<1>24. CASE NonceExpires
  BY <1>24 DEF NonceExpires, LifeInv, CapturesInv, Busy, InFlight, Working, Captured
<1>25. CASE TokenExpires
  BY <1>25 DEF TokenExpires, LifeInv, CapturesInv, Busy, InFlight, Working, Captured
<1>26. CASE GrantIsRevoked
  BY <1>26 DEF GrantIsRevoked, durable, LifeInv, CapturesInv, Busy, InFlight, Working, Captured
<1>27. CASE Alarm
  BY <1>27 DEF Alarm, DeleteAll, LifeInv, CapturesInv, Busy, InFlight, Working, Captured
<1>28. CASE Revoke
  BY <1>28 DEF Revoke, durable, LifeInv, CapturesInv, Busy, InFlight, Working, Captured
<1>29. CASE RevokeEnds
  BY <1>29 DEF RevokeEnds, DeleteAll, LifeInv, CapturesInv, Busy, InFlight, Working, Captured
<1>30. CASE Restart
  BY <1>30 DEF Restart, durable, NoAttempt, NoCall, NoFlight, LifeInv, CapturesInv, Busy,
     InFlight, Working, Captured
<1>31. CASE UNCHANGED vars
  BY <1>31 DEF vars, durable, LifeInv, CapturesInv, Busy, InFlight, Working, Captured
<1>. QED
  BY <1>1, <1>2, <1>3, <1>4, <1>5, <1>6, <1>7, <1>8, <1>9, <1>10, <1>11, <1>12, <1>13, <1>14,
     <1>15, <1>16, <1>17, <1>18, <1>19, <1>20, <1>21, <1>22, <1>23, <1>24, <1>25, <1>26, <1>27,
     <1>28, <1>29, <1>30, <1>31 DEF Next

\* An account that was deleted, or never connected, gets no credentials: what comes back late
\* finds another generation than it captured.
LEMMA AbsentStep ==
  ASSUME TypeOK, LifeInv, [Next]_vars
  PROVE  AbsentInv'
<1>1. ASSUME NEW a \in Attempts, PrepareReconnect(a) PROVE AbsentInv'
  BY <1>1 DEF PrepareReconnect, TypeOK, Generations, AbsentInv
<1>2. ASSUME NEW a \in Attempts, NEW to \in Server, NEW by \in {"user", "deployment"}, ConnectBegins(a, to, by)
      PROVE  AbsentInv'
  BY <1>2 DEF ConnectBegins, TypeOK, Generations, AbsentInv
<1>3. ASSUME NEW a \in Attempts, ProbeAnswers(a) PROVE AbsentInv'
  BY <1>3, AccountAssumption DEF ProbeAnswers, Restored, Nonce, LifeInv, CapturesInv, AbsentInv,
     Busy, Captured
<1>4. ASSUME NEW a \in Attempts, ProbeChallenges(a) PROVE AbsentInv'
  BY <1>4, AccountAssumption DEF ProbeChallenges, Restored, Nonce, LifeInv, AbsentInv, Busy
<1>5. ASSUME NEW a \in Attempts, ProbeFails(a) PROVE AbsentInv'
  BY <1>5, AccountAssumption DEF ProbeFails, Restored, Nonce, LifeInv, AbsentInv, Busy
<1>6. ASSUME NEW a \in Attempts, Redirects(a) PROVE AbsentInv'
  BY <1>6 DEF Redirects, IsCurrent, Current, LifeInv, CapturesInv, AbsentInv, Busy, Captured
<1>7. ASSUME NEW a \in Attempts, Redeems(a) PROVE AbsentInv'
  BY <1>7 DEF Redeems, durable, LifeInv, AbsentInv
<1>8. ASSUME NEW a \in Attempts, AcceptCode(a) PROVE AbsentInv'
  BY <1>8 DEF AcceptCode, LifeInv, AbsentInv
<1>9. ASSUME NEW a \in Attempts, CodeIsExchanged(a) PROVE AbsentInv'
  BY <1>9 DEF CodeIsExchanged, durable, LifeInv, AbsentInv, Busy
<1>10. ASSUME NEW a \in Attempts, SaveTokens(a) PROVE AbsentInv'
  BY <1>10, AccountAssumption DEF SaveTokens, Restored, IsCurrent, Current, Nonce, LifeInv,
     CapturesInv, AbsentInv, Busy, Captured
<1>11. ASSUME NEW a \in Attempts, Reprobed(a) PROVE AbsentInv'
  BY <1>11, AccountAssumption DEF Reprobed, Restored, IsCurrent, Current, Nonce, LifeInv,
     CapturesInv, AbsentInv, Busy, Captured
<1>12. ASSUME NEW a \in Attempts, OAuthFails(a) PROVE AbsentInv'
  BY <1>12, AccountAssumption DEF OAuthFails, history, Restored, Nonce, LifeInv, AbsentInv, Busy
<1>13. ASSUME NEW a \in Attempts, ExchangeFails(a) PROVE AbsentInv'
  BY <1>13 DEF ExchangeFails, durable, LifeInv, AbsentInv, Busy
<1>14. ASSUME NEW c \in Calls, GetConnection(c) PROVE AbsentInv'
  BY <1>14 DEF GetConnection, LifeInv, AbsentInv
<1>15. ASSUME NEW c \in Calls, CallSetsSession(c) PROVE AbsentInv'
  BY <1>15 DEF CallSetsSession, Current, LifeInv, CapturesInv, AbsentInv, Working, Captured
<1>16. ASSUME NEW c \in Calls, CallEnds(c) PROVE AbsentInv'
  BY <1>16 DEF CallEnds, durable, LifeInv, AbsentInv, Working
<1>17. ASSUME NEW c \in Calls, CallRefused(c) PROVE AbsentInv'
  BY <1>17 DEF CallRefused, LifeInv, AbsentInv, Working
<1>18. ASSUME NEW c \in Calls, CallNotified(c) PROVE AbsentInv'
  BY <1>18 DEF CallNotified, NoCall, LifeInv, AbsentInv, Busy, InFlight, Working
<1>19. ASSUME NEW o \in Calls, Redeemed(o) PROVE AbsentInv'
  BY <1>19 DEF Redeemed, durable, LifeInv, AbsentInv, InFlight
<1>20. ASSUME NEW o \in Calls, RefreshAnswers(o) PROVE AbsentInv'
  BY <1>20 DEF RefreshAnswers, Current, FlightIsCurrent, LifeInv, CapturesInv, AbsentInv,
     InFlight, Captured
<1>21. ASSUME NEW o \in Calls, RefreshFails(o) PROVE AbsentInv'
  BY <1>21 DEF RefreshFails, durable, LifeInv, AbsentInv, InFlight
<1>22. ASSUME NEW o \in Calls, RefreshRefused(o) PROVE AbsentInv'
  BY <1>22 DEF RefreshRefused, LifeInv, AbsentInv, InFlight
<1>23. ASSUME NEW o \in Calls, RefreshNotified(o) PROVE AbsentInv'
  BY <1>23 DEF RefreshNotified, LifeInv, AbsentInv, InFlight
<1>24. CASE NonceExpires
  BY <1>24 DEF NonceExpires, LifeInv, AbsentInv
<1>25. CASE TokenExpires
  BY <1>25 DEF TokenExpires, LifeInv, AbsentInv
<1>26. CASE GrantIsRevoked
  BY <1>26 DEF GrantIsRevoked, durable, LifeInv, AbsentInv, Busy, InFlight, Working
<1>27. CASE Alarm
  BY <1>27 DEF Alarm, DeleteAll, LifeInv, AbsentInv
<1>28. CASE Revoke
  BY <1>28 DEF Revoke, durable, LifeInv, AbsentInv
<1>29. CASE RevokeEnds
  BY <1>29 DEF RevokeEnds, DeleteAll, AbsentInv
<1>30. CASE Restart
  BY <1>30 DEF Restart, durable, NoAttempt, NoCall, NoFlight, LifeInv, AbsentInv, Busy, InFlight,
     Working
<1>31. CASE UNCHANGED vars
  BY <1>31 DEF vars, durable, LifeInv, AbsentInv, Busy, InFlight, Working
<1>. QED
  BY <1>1, <1>2, <1>3, <1>4, <1>5, <1>6, <1>7, <1>8, <1>9, <1>10, <1>11, <1>12, <1>13, <1>14,
     <1>15, <1>16, <1>17, <1>18, <1>19, <1>20, <1>21, <1>22, <1>23, <1>24, <1>25, <1>26, <1>27,
     <1>28, <1>29, <1>30, <1>31 DEF Next

\* Until the first attempt has completed, nothing else starts.
LEMMA UnconnectedStep ==
  ASSUME TypeOK, LifeInv, [Next]_vars
  PROVE  UnconnectedInv'
<1>1. ASSUME NEW a \in Attempts, PrepareReconnect(a) PROVE UnconnectedInv'
  BY <1>1 DEF PrepareReconnect, UnconnectedInv
<1>2. ASSUME NEW a \in Attempts, NEW to \in Server, NEW by \in {"user", "deployment"}, ConnectBegins(a, to, by)
      PROVE  UnconnectedInv'
  BY <1>2, AccountAssumption DEF ConnectBegins, TypeOK, Nonce, LifeInv, AbsentInv, UnconnectedInv,
     Busy, InFlight, Working
<1>3. ASSUME NEW a \in Attempts, ProbeAnswers(a) PROVE UnconnectedInv'
  BY <1>3 DEF ProbeAnswers, Completes, LifeInv, UnconnectedInv, Busy
<1>4. ASSUME NEW a \in Attempts, ProbeChallenges(a) PROVE UnconnectedInv'
  BY <1>4 DEF ProbeChallenges, TypeOK, AttemptState, Proceeds, Numbers, LifeInv, UnconnectedInv,
     Busy, InFlight, Working
<1>5. ASSUME NEW a \in Attempts, ProbeFails(a) PROVE UnconnectedInv'
  BY <1>5 DEF ProbeFails, Ends, Restored, NoAttempt, LifeInv, UnconnectedInv, Busy, InFlight,
     Working
<1>6. ASSUME NEW a \in Attempts, Redirects(a) PROVE UnconnectedInv'
  BY <1>6 DEF Redirects, Ends, NoAttempt, LifeInv, UnconnectedInv, Busy, InFlight, Working
<1>7. ASSUME NEW a \in Attempts, Redeems(a) PROVE UnconnectedInv'
  BY <1>7 DEF Redeems, durable, TypeOK, LifeInv, UnconnectedInv, Busy, InFlight, Working
<1>8. ASSUME NEW a \in Attempts, AcceptCode(a) PROVE UnconnectedInv'
  BY <1>8, AccountAssumption DEF AcceptCode, Current, Nonce, LifeInv, UnconnectedInv, Busy,
     InFlight, Working
<1>9. ASSUME NEW a \in Attempts, CodeIsExchanged(a) PROVE UnconnectedInv'
  BY <1>9 DEF CodeIsExchanged, durable, TypeOK, LifeInv, UnconnectedInv, Busy, InFlight, Working
<1>10. ASSUME NEW a \in Attempts, SaveTokens(a) PROVE UnconnectedInv'
  BY <1>10 DEF SaveTokens, TypeOK, AttemptState, Ends, Proceeds, Restored, NoAttempt,
     FlightIsCurrent, Nonce, LifeInv, UnconnectedInv, Busy, InFlight, Working
<1>11. ASSUME NEW a \in Attempts, Reprobed(a) PROVE UnconnectedInv'
  BY <1>11 DEF Reprobed, Ends, Restored, Completes, NoAttempt, LifeInv, UnconnectedInv, Busy,
     InFlight, Working
<1>12. ASSUME NEW a \in Attempts, OAuthFails(a) PROVE UnconnectedInv'
  BY <1>12 DEF OAuthFails, history, Ends, Restored, NoAttempt, LifeInv, UnconnectedInv, Busy, InFlight,
     Working
<1>13. ASSUME NEW a \in Attempts, ExchangeFails(a) PROVE UnconnectedInv'
  BY <1>13 DEF ExchangeFails, durable, Ends, NoAttempt, LifeInv, UnconnectedInv, Busy, InFlight,
     Working
<1>14. ASSUME NEW c \in Calls, GetConnection(c) PROVE UnconnectedInv'
  BY <1>14 DEF GetConnection, UnconnectedInv
<1>15. ASSUME NEW c \in Calls, CallSetsSession(c) PROVE UnconnectedInv'
  BY <1>15 DEF CallSetsSession, LifeInv, UnconnectedInv, Working
<1>16. ASSUME NEW c \in Calls, CallEnds(c) PROVE UnconnectedInv'
  BY <1>16 DEF CallEnds, durable, LifeInv, UnconnectedInv, Working
<1>17. ASSUME NEW c \in Calls, CallRefused(c) PROVE UnconnectedInv'
  BY <1>17 DEF CallRefused, LifeInv, UnconnectedInv, Working
<1>18. ASSUME NEW c \in Calls, CallNotified(c) PROVE UnconnectedInv'
  BY <1>18 DEF CallNotified, NoCall, LifeInv, UnconnectedInv, Busy, InFlight, Working
<1>19. ASSUME NEW o \in Calls, Redeemed(o) PROVE UnconnectedInv'
  BY <1>19 DEF Redeemed, durable, LifeInv, UnconnectedInv, InFlight
<1>20. ASSUME NEW o \in Calls, RefreshAnswers(o) PROVE UnconnectedInv'
  BY <1>20 DEF RefreshAnswers, LifeInv, UnconnectedInv, InFlight
<1>21. ASSUME NEW o \in Calls, RefreshFails(o) PROVE UnconnectedInv'
  BY <1>21 DEF RefreshFails, durable, LifeInv, UnconnectedInv, InFlight
<1>22. ASSUME NEW o \in Calls, RefreshRefused(o) PROVE UnconnectedInv'
  BY <1>22 DEF RefreshRefused, LifeInv, UnconnectedInv, InFlight
<1>23. ASSUME NEW o \in Calls, RefreshNotified(o) PROVE UnconnectedInv'
  BY <1>23 DEF RefreshNotified, LifeInv, UnconnectedInv, InFlight
<1>24. CASE NonceExpires
  BY <1>24 DEF NonceExpires, LifeInv, UnconnectedInv, Busy, InFlight, Working
<1>25. CASE TokenExpires
  BY <1>25 DEF TokenExpires, LifeInv, UnconnectedInv, Busy, InFlight, Working
<1>26. CASE GrantIsRevoked
  BY <1>26 DEF GrantIsRevoked, durable, LifeInv, UnconnectedInv, Busy, InFlight, Working
<1>27. CASE Alarm
  BY <1>27 DEF Alarm, DeleteAll, UnconnectedInv
<1>28. CASE Revoke
  BY <1>28 DEF Revoke, durable, UnconnectedInv
<1>29. CASE RevokeEnds
  BY <1>29 DEF RevokeEnds, DeleteAll, UnconnectedInv
<1>30. CASE Restart
  BY <1>30 DEF Restart, durable, NoAttempt, NoCall, NoFlight, LifeInv, UnconnectedInv, Busy,
     InFlight, Working
<1>31. CASE UNCHANGED vars
  BY <1>31 DEF vars, durable, LifeInv, UnconnectedInv, Busy, InFlight, Working
<1>. QED
  BY <1>1, <1>2, <1>3, <1>4, <1>5, <1>6, <1>7, <1>8, <1>9, <1>10, <1>11, <1>12, <1>13, <1>14,
     <1>15, <1>16, <1>17, <1>18, <1>19, <1>20, <1>21, <1>22, <1>23, <1>24, <1>25, <1>26, <1>27,
     <1>28, <1>29, <1>30, <1>31 DEF Next

\* The server record is written before what depends on it, and deleted with it.
LEMMA ServerStep ==
  ASSUME TypeOK, LifeInv, [Next]_vars
  PROVE  ServerInv'
<1>1. ASSUME NEW a \in Attempts, PrepareReconnect(a) PROVE ServerInv'
  BY <1>1 DEF PrepareReconnect, TypeOK, Generations, LifeInv, ServerInv
<1>2. ASSUME NEW a \in Attempts, NEW to \in Server, NEW by \in {"user", "deployment"}, ConnectBegins(a, to, by)
      PROVE  ServerInv'
  BY <1>2, AccountAssumption DEF ConnectBegins, TypeOK, Generations, Nonce, LifeInv, AbsentInv,
     UnconnectedInv, ServerInv, Busy
<1>3. ASSUME NEW a \in Attempts, ProbeAnswers(a) PROVE ServerInv'
  BY <1>3, AccountAssumption DEF ProbeAnswers, Ends, NoAttempt, Server, LifeInv, CapturesInv,
     ServerInv, Busy, Captured
<1>4. ASSUME NEW a \in Attempts, ProbeChallenges(a) PROVE ServerInv'
  BY <1>4, AccountAssumption DEF ProbeChallenges, Server, LifeInv, CapturesInv, ServerInv, Busy
<1>5. ASSUME NEW a \in Attempts, ProbeFails(a) PROVE ServerInv'
  BY <1>5 DEF ProbeFails, Ends, NoAttempt, LifeInv, ServerInv
<1>6. ASSUME NEW a \in Attempts, Redirects(a) PROVE ServerInv'
  BY <1>6 DEF Redirects, IsCurrent, Current, LifeInv, ServerInv
<1>7. ASSUME NEW a \in Attempts, Redeems(a) PROVE ServerInv'
  BY <1>7 DEF Redeems, durable, LifeInv, ServerInv
<1>8. ASSUME NEW a \in Attempts, AcceptCode(a) PROVE ServerInv'
  BY <1>8 DEF AcceptCode, LifeInv, ServerInv
<1>9. ASSUME NEW a \in Attempts, CodeIsExchanged(a) PROVE ServerInv'
  BY <1>9 DEF CodeIsExchanged, durable, TypeOK, LifeInv, ServerInv
<1>10. ASSUME NEW a \in Attempts, SaveTokens(a) PROVE ServerInv'
  BY <1>10 DEF SaveTokens, TypeOK, Ends, IsCurrent, Current, NoAttempt, LifeInv, ServerInv
<1>11. ASSUME NEW a \in Attempts, Reprobed(a) PROVE ServerInv'
  BY <1>11 DEF Reprobed, Ends, IsCurrent, Current, NoAttempt, LifeInv, CapturesInv, ServerInv,
     Busy, Captured
<1>12. ASSUME NEW a \in Attempts, OAuthFails(a) PROVE ServerInv'
  BY <1>12 DEF OAuthFails, history, Ends, NoAttempt, LifeInv, ServerInv
<1>13. ASSUME NEW a \in Attempts, ExchangeFails(a) PROVE ServerInv'
  BY <1>13 DEF ExchangeFails, durable, Ends, NoAttempt, LifeInv, ServerInv
<1>14. ASSUME NEW c \in Calls, GetConnection(c) PROVE ServerInv'
  BY <1>14 DEF GetConnection, LifeInv, ServerInv
<1>15. ASSUME NEW c \in Calls, CallSetsSession(c) PROVE ServerInv'
  BY <1>15 DEF CallSetsSession, Current, LifeInv, ServerInv
<1>16. ASSUME NEW c \in Calls, CallEnds(c) PROVE ServerInv'
  BY <1>16 DEF CallEnds, durable, LifeInv, ServerInv
<1>17. ASSUME NEW c \in Calls, CallRefused(c) PROVE ServerInv'
  BY <1>17 DEF CallRefused, LifeInv, ServerInv
<1>18. ASSUME NEW c \in Calls, CallNotified(c) PROVE ServerInv'
  BY <1>18 DEF CallNotified, LifeInv, ServerInv
<1>19. ASSUME NEW o \in Calls, Redeemed(o) PROVE ServerInv'
  BY <1>19 DEF Redeemed, durable, LifeInv, ServerInv
<1>20. ASSUME NEW o \in Calls, RefreshAnswers(o) PROVE ServerInv'
  BY <1>20 DEF RefreshAnswers, Current, FlightIsCurrent, LifeInv, ServerInv
<1>21. ASSUME NEW o \in Calls, RefreshFails(o) PROVE ServerInv'
  BY <1>21 DEF RefreshFails, durable, LifeInv, ServerInv
<1>22. ASSUME NEW o \in Calls, RefreshRefused(o) PROVE ServerInv'
  BY <1>22 DEF RefreshRefused, LifeInv, ServerInv
<1>23. ASSUME NEW o \in Calls, RefreshNotified(o) PROVE ServerInv'
  BY <1>23 DEF RefreshNotified, LifeInv, ServerInv
<1>24. CASE NonceExpires
  BY <1>24 DEF NonceExpires, LifeInv, ServerInv
<1>25. CASE TokenExpires
  BY <1>25 DEF TokenExpires, LifeInv, ServerInv
<1>26. CASE GrantIsRevoked
  BY <1>26 DEF GrantIsRevoked, durable, LifeInv, ServerInv
<1>27. CASE Alarm
  BY <1>27 DEF Alarm, DeleteAll, LifeInv, CapturesInv, ServerInv, Busy, Captured
<1>28. CASE Revoke
  BY <1>28 DEF Revoke, durable, LifeInv, ServerInv
<1>29. CASE RevokeEnds
  BY <1>29 DEF RevokeEnds, DeleteAll, LifeInv, CapturesInv, ServerInv, Busy, Captured
<1>30. CASE Restart
  BY <1>30 DEF Restart, durable, NoAttempt, LifeInv, ServerInv
<1>31. CASE UNCHANGED vars
  BY <1>31 DEF vars, durable, LifeInv, ServerInv
<1>. QED
  BY <1>1, <1>2, <1>3, <1>4, <1>5, <1>6, <1>7, <1>8, <1>9, <1>10, <1>11, <1>12, <1>13, <1>14,
     <1>15, <1>16, <1>17, <1>18, <1>19, <1>20, <1>21, <1>22, <1>23, <1>24, <1>25, <1>26, <1>27,
     <1>28, <1>29, <1>30, <1>31 DEF Next

\* Calls join the refresh under way, or start it, and go on when it settles.
LEMMA FlightsStep ==
  ASSUME TypeOK, LifeInv, FlightsInv, [Next]_vars
  PROVE  FlightsInv'
<1>1. ASSUME NEW a \in Attempts, PrepareReconnect(a) PROVE FlightsInv'
  BY <1>1 DEF PrepareReconnect, TypeOK, Generations, LifeInv, CapturesInv, AbsentInv, InFlight,
     Captured, FlightsInv
<1>2. ASSUME NEW a \in Attempts, NEW to \in Server, NEW by \in {"user", "deployment"}, ConnectBegins(a, to, by)
      PROVE  FlightsInv'
  BY <1>2, AccountAssumption DEF ConnectBegins, TypeOK, Generations, Nonce, LifeInv, CapturesInv,
     AbsentInv, InFlight, Captured, FlightsInv
<1>3. ASSUME NEW a \in Attempts, ProbeAnswers(a) PROVE FlightsInv'
  BY <1>3 DEF ProbeAnswers, InFlight, FlightsInv
<1>4. ASSUME NEW a \in Attempts, ProbeChallenges(a) PROVE FlightsInv'
  BY <1>4 DEF ProbeChallenges, InFlight, FlightsInv
<1>5. ASSUME NEW a \in Attempts, ProbeFails(a) PROVE FlightsInv'
  BY <1>5 DEF ProbeFails, InFlight, FlightsInv
<1>6. ASSUME NEW a \in Attempts, Redirects(a) PROVE FlightsInv'
  BY <1>6 DEF Redirects, InFlight, FlightsInv
<1>7. ASSUME NEW a \in Attempts, Redeems(a) PROVE FlightsInv'
  BY <1>7 DEF Redeems, durable, InFlight, FlightsInv
<1>8. ASSUME NEW a \in Attempts, AcceptCode(a) PROVE FlightsInv'
  BY <1>8 DEF AcceptCode, InFlight, FlightsInv
<1>9. ASSUME NEW a \in Attempts, CodeIsExchanged(a) PROVE FlightsInv'
  BY <1>9 DEF CodeIsExchanged, durable, InFlight, FlightsInv
<1>10. ASSUME NEW a \in Attempts, SaveTokens(a) PROVE FlightsInv'
  BY <1>10 DEF SaveTokens, InFlight, FlightsInv
<1>11. ASSUME NEW a \in Attempts, Reprobed(a) PROVE FlightsInv'
  BY <1>11 DEF Reprobed, InFlight, FlightsInv
<1>12. ASSUME NEW a \in Attempts, OAuthFails(a) PROVE FlightsInv'
  BY <1>12 DEF OAuthFails, history, InFlight, FlightsInv
<1>13. ASSUME NEW a \in Attempts, ExchangeFails(a) PROVE FlightsInv'
  BY <1>13 DEF ExchangeFails, durable, InFlight, FlightsInv
<1>14. ASSUME NEW c \in Calls, GetConnection(c) PROVE FlightsInv'
  <2>1. UNCHANGED <<server, generation, nonce, pendingAuth, tokens, sessionId, flags, attempt,
                    accepted, issued, overwritten>>
    BY <1>14 DEF GetConnection, external, history
  <2>. QED
    BY <1>14, <2>1, EffectOfGetConnection, AccountAssumption DEF FlightsInv, InFlight, Uses,
       NoCall, Shared, TypeOK
<1>15. ASSUME NEW c \in Calls, CallSetsSession(c) PROVE FlightsInv'
  BY <1>15 DEF CallSetsSession, InFlight, FlightsInv
<1>16. ASSUME NEW c \in Calls, CallEnds(c) PROVE FlightsInv'
  BY <1>16 DEF CallEnds, durable, NoCall, InFlight, FlightsInv
<1>17. ASSUME NEW c \in Calls, CallRefused(c) PROVE FlightsInv'
  BY <1>17 DEF CallRefused, NoCall, InFlight, FlightsInv
<1>18. ASSUME NEW c \in Calls, CallNotified(c) PROVE FlightsInv'
  BY <1>18 DEF CallNotified, NoCall, InFlight, FlightsInv
<1>19. ASSUME NEW o \in Calls, Redeemed(o) PROVE FlightsInv'
  <2>1. UNCHANGED <<generation, call, refreshing>>
    BY <1>19 DEF Redeemed, durable
  <2>2. \A p \in Calls : (InFlight(p)' <=> InFlight(p)) /\ flight'[p].gen = flight[p].gen
    BY <1>19, EffectOfRedemption DEF InFlight
  <2>. QED
    BY <2>1, <2>2, AccountAssumption DEF FlightsInv, TypeOK
<1>20. ASSUME NEW o \in Calls, RefreshAnswers(o) PROVE FlightsInv'
  <2>1. UNCHANGED generation
    BY <1>20 DEF RefreshAnswers
  <2>2. \A p \in Calls \ {o} : (InFlight(p)' <=> InFlight(p)) /\ flight'[p].gen = flight[p].gen
    BY <1>20, EffectOfAnswer DEF InFlight
  <2>3. ~InFlight(o)' /\ refreshing' = IF refreshing = o THEN Nothing ELSE refreshing
    BY <1>20, EffectOfAnswer DEF InFlight, NoFlight
  <2>4. \A d \in Calls : IF call[d].pc = "awaiting" /\ call[d].on = o
          THEN call'[d].pc # "awaiting" ELSE call'[d] = call[d]
    BY <1>20, EffectOfAnswer DEF NoCall
  <2>. QED
    BY <2>1, <2>2, <2>3, <2>4, AccountAssumption DEF FlightsInv, TypeOK
<1>21. ASSUME NEW o \in Calls, RefreshFails(o) PROVE FlightsInv'
  BY <1>21 DEF RefreshFails, durable, TypeOK, NoCall, NoFlight, Settles, AllFail, InFlight,
     FlightsInv
<1>22. ASSUME NEW o \in Calls, RefreshRefused(o) PROVE FlightsInv'
  <2>1. UNCHANGED generation
    BY <1>22 DEF RefreshRefused
  <2>2. \A p \in Calls \ {o} : (InFlight(p)' <=> InFlight(p)) /\ flight'[p].gen = flight[p].gen
    BY <1>22, EffectOfRefusal DEF InFlight
  <2>3. CASE InFlight(o)' /\ InFlight(o) /\ flight'[o].gen = flight[o].gen /\ UNCHANGED <<call, refreshing>>
    BY <2>1, <2>2, <2>3, AccountAssumption DEF FlightsInv, TypeOK
  <2>4. CASE flight'[o] = NoFlight /\ Settles(o, AllFail)
    <3>1. ~InFlight(o)' /\ refreshing' = IF refreshing = o THEN Nothing ELSE refreshing
      BY <2>4 DEF Settles, InFlight, NoFlight
    <3>2. \A d \in Calls : IF call[d].pc = "awaiting" /\ call[d].on = o
            THEN call'[d].pc # "awaiting" ELSE call'[d] = call[d]
      BY <2>4 DEF Settles, AllFail, NoCall
    <3>. QED
      BY <2>1, <2>2, <3>1, <3>2, AccountAssumption DEF FlightsInv, TypeOK
  <2>. QED
    BY <1>22, <2>3, <2>4, EffectOfRefusal DEF InFlight
<1>23. ASSUME NEW o \in Calls, RefreshNotified(o) PROVE FlightsInv'
  BY <1>23 DEF RefreshNotified, TypeOK, NoCall, NoFlight, Settles, AllFail, InFlight, FlightsInv
<1>24. CASE NonceExpires
  BY <1>24 DEF NonceExpires, InFlight, FlightsInv
<1>25. CASE TokenExpires
  BY <1>25 DEF TokenExpires, InFlight, FlightsInv
<1>26. CASE GrantIsRevoked
  BY <1>26 DEF GrantIsRevoked, durable, InFlight, FlightsInv
<1>27. CASE Alarm
  BY <1>27 DEF Alarm, DeleteAll, LifeInv, UnconnectedInv, InFlight, FlightsInv
<1>28. CASE Revoke
  BY <1>28 DEF Revoke, durable, InFlight, FlightsInv
<1>29. CASE RevokeEnds
  BY <1>29 DEF RevokeEnds, DeleteAll, LifeInv, CapturesInv, InFlight, Captured, FlightsInv
<1>30. CASE Restart
  BY <1>30 DEF Restart, NoCall, NoFlight, InFlight, FlightsInv
<1>31. CASE UNCHANGED vars
  BY <1>31 DEF vars, durable, InFlight, FlightsInv
<1>. QED
  BY <1>1, <1>2, <1>3, <1>4, <1>5, <1>6, <1>7, <1>8, <1>9, <1>10, <1>11, <1>12, <1>13, <1>14,
     <1>15, <1>16, <1>17, <1>18, <1>19, <1>20, <1>21, <1>22, <1>23, <1>24, <1>25, <1>26, <1>27,
     <1>28, <1>29, <1>30, <1>31 DEF Next

\* The endpoint changes with a new generation only, save for a superseded probe.
LEMMA EndpointsStep ==
  ASSUME TypeOK, LifeInv, FlightsInv, EndpointsInv, [Next]_vars
  PROVE  EndpointsInv'
<1>1. ASSUME NEW a \in Attempts, PrepareReconnect(a) PROVE EndpointsInv'
  BY <1>1 DEF PrepareReconnect, TypeOK, Generations, LifeInv, CapturesInv, AbsentInv, Busy,
     InFlight, Captured, EndpointsInv
<1>2. ASSUME NEW a \in Attempts, NEW to \in Server, NEW by \in {"user", "deployment"}, ConnectBegins(a, to, by)
      PROVE  EndpointsInv'
  BY <1>2, AccountAssumption DEF ConnectBegins, history, TypeOK, Generations, Nonce, LifeInv,
     CapturesInv, AbsentInv, Busy, InFlight, Captured, EndpointsInv
<1>3. ASSUME NEW a \in Attempts, ProbeAnswers(a) PROVE EndpointsInv'
  BY <1>3 DEF ProbeAnswers, history, Ends, NoAttempt, LifeInv, CapturesInv, UnconnectedInv,
     ServerInv, Busy, InFlight, Captured, EndpointsInv
<1>4. ASSUME NEW a \in Attempts, ProbeChallenges(a) PROVE EndpointsInv'
  <2>1. /\ UNCHANGED <<generation, flags, call, flight>> /\ server' = [ep |-> attempt[a].to, auth |-> "oauth"]
        /\ (attempt[a].gen # generation /\ ~overwritten') => (server = Nothing \/ server' = server)
        /\ ~overwritten' => ~overwritten
    BY <1>4 DEF ProbeChallenges
  <2>2. Busy(a) /\ \A b \in Attempts :
          Busy(b)' => Busy(b) /\ attempt'[b].gen = attempt[b].gen /\ attempt'[b].to = attempt[b].to
    BY <1>4, EffectOfChallenge DEF Busy, NoAttempt
  <2>3. CASE server # Nothing
    <3>1. ~overwritten' => server'.ep = server.ep
      BY <2>1, <2>2, <2>3 DEF EndpointsInv
    <3>. QED
      BY <2>1, <2>2, <2>3, <3>1 DEF EndpointsInv, InFlight
  <2>4. CASE server = Nothing
    <3>1. \A b \in Attempts : (Busy(b) /\ attempt[b].gen = generation) => b = a
      BY <2>2, <2>4 DEF LifeInv, CapturesInv, Captured, UnconnectedInv, ServerInv
    <3>2. \A p \in Calls : ~(InFlight(p) /\ flight[p].gen = generation)
      BY <2>4 DEF LifeInv, CapturesInv, Captured, UnconnectedInv, ServerInv
    <3>. QED
      BY <2>1, <2>2, <3>1, <3>2 DEF EndpointsInv, InFlight
  <2>. QED
    BY <2>3, <2>4
<1>5. ASSUME NEW a \in Attempts, ProbeFails(a) PROVE EndpointsInv'
  BY <1>5 DEF ProbeFails, history, Ends, NoAttempt, Busy, InFlight, EndpointsInv
<1>6. ASSUME NEW a \in Attempts, Redirects(a) PROVE EndpointsInv'
  BY <1>6 DEF Redirects, Ends, NoAttempt, Busy, InFlight, EndpointsInv
<1>7. ASSUME NEW a \in Attempts, Redeems(a) PROVE EndpointsInv'
  BY <1>7 DEF Redeems, durable, TypeOK, Busy, InFlight, EndpointsInv
<1>8. ASSUME NEW a \in Attempts, AcceptCode(a) PROVE EndpointsInv'
  BY <1>8 DEF AcceptCode, history, Busy, InFlight, EndpointsInv
<1>9. ASSUME NEW a \in Attempts, CodeIsExchanged(a) PROVE EndpointsInv'
  BY <1>9 DEF CodeIsExchanged, durable, history, TypeOK, Busy, InFlight, EndpointsInv
<1>10. ASSUME NEW a \in Attempts, SaveTokens(a) PROVE EndpointsInv'
  <2>1. UNCHANGED <<server, generation, pendingAuth, sessionId, flags, call, flight, refreshing,
                    accepted, issued, overwritten>>
    BY <1>10 DEF SaveTokens, external
  <2>. QED
    BY <1>10, <2>1, EffectOfSave DEF EndpointsInv, Busy, InFlight, NoAttempt
<1>11. ASSUME NEW a \in Attempts, Reprobed(a) PROVE EndpointsInv'
  BY <1>11 DEF Reprobed, history, Ends, NoAttempt, Busy, InFlight, EndpointsInv
<1>12. ASSUME NEW a \in Attempts, OAuthFails(a) PROVE EndpointsInv'
  BY <1>12 DEF OAuthFails, history, Ends, NoAttempt, Busy, InFlight, EndpointsInv
<1>13. ASSUME NEW a \in Attempts, ExchangeFails(a) PROVE EndpointsInv'
  BY <1>13 DEF ExchangeFails, durable, history, Ends, NoAttempt, Busy, InFlight, EndpointsInv
<1>14. ASSUME NEW c \in Calls, GetConnection(c) PROVE EndpointsInv'
  <2>1. UNCHANGED <<server, generation, nonce, pendingAuth, tokens, sessionId, flags, attempt,
                    accepted, issued, overwritten>>
    BY <1>14 DEF GetConnection, external, history
  <2>. QED
    BY <1>14, <2>1, EffectOfGetConnection DEF EndpointsInv, FlightsInv, InFlight, Busy, Uses,
       NoCall, Shared, TypeOK
<1>15. ASSUME NEW c \in Calls, CallSetsSession(c) PROVE EndpointsInv'
  BY <1>15 DEF CallSetsSession, history, Busy, InFlight, EndpointsInv
<1>16. ASSUME NEW c \in Calls, CallEnds(c) PROVE EndpointsInv'
  BY <1>16 DEF CallEnds, durable, history, NoCall, Busy, InFlight, EndpointsInv
<1>17. ASSUME NEW c \in Calls, CallRefused(c) PROVE EndpointsInv'
  BY <1>17 DEF CallRefused, history, NoCall, Busy, InFlight, EndpointsInv
<1>18. ASSUME NEW c \in Calls, CallNotified(c) PROVE EndpointsInv'
  BY <1>18 DEF CallNotified, history, NoCall, Busy, InFlight, EndpointsInv
<1>19. ASSUME NEW o \in Calls, Redeemed(o) PROVE EndpointsInv'
  <2>1. UNCHANGED <<server, generation, nonce, pendingAuth, tokens, sessionId, flags, attempt,
                    call, refreshing, overwritten>>
    BY <1>19 DEF Redeemed, durable, history
  <2>. QED
    BY <1>19, <2>1, EffectOfRedemption DEF EndpointsInv, FlightsInv, InFlight, Busy
<1>20. ASSUME NEW o \in Calls, RefreshAnswers(o) PROVE EndpointsInv'
  <2>1. UNCHANGED <<server, generation, nonce, pendingAuth, sessionId, flags, attempt, accepted,
                    issued, overwritten>>
    BY <1>20 DEF RefreshAnswers, external, history
  <2>. QED
    BY <1>20, <2>1, EffectOfAnswer DEF EndpointsInv, FlightsInv, InFlight, NoFlight, NoCall, Busy
<1>21. ASSUME NEW o \in Calls, RefreshFails(o) PROVE EndpointsInv'
  BY <1>21 DEF RefreshFails, durable, NoCall, NoFlight, Settles, AllFail, Busy, InFlight,
     EndpointsInv
<1>22. ASSUME NEW o \in Calls, RefreshRefused(o) PROVE EndpointsInv'
  <2>1. UNCHANGED <<server, generation, nonce, pendingAuth, tokens, sessionId, flags, attempt,
                    accepted, issued, overwritten>>
    BY <1>22 DEF RefreshRefused, external, history
  <2>. QED
    BY <1>22, <2>1, EffectOfRefusal DEF EndpointsInv, FlightsInv, InFlight, NoFlight, NoCall,
       Settles, AllFail, Busy
<1>23. ASSUME NEW o \in Calls, RefreshNotified(o) PROVE EndpointsInv'
  BY <1>23 DEF RefreshNotified, history, NoCall, NoFlight, Settles, AllFail, Busy, InFlight,
     EndpointsInv
<1>24. CASE NonceExpires
  BY <1>24 DEF NonceExpires, history, Busy, InFlight, EndpointsInv
<1>25. CASE TokenExpires
  BY <1>25 DEF TokenExpires, history, Busy, InFlight, EndpointsInv
<1>26. CASE GrantIsRevoked
  BY <1>26 DEF GrantIsRevoked, durable, Busy, InFlight, EndpointsInv
<1>27. CASE Alarm
  BY <1>27 DEF Alarm, history, DeleteAll, Busy, InFlight, EndpointsInv
<1>28. CASE Revoke
  BY <1>28 DEF Revoke, durable, history, Busy, InFlight, EndpointsInv
<1>29. CASE RevokeEnds
  BY <1>29 DEF RevokeEnds, history, DeleteAll, EndpointsInv
<1>30. CASE Restart
  BY <1>30 DEF Restart, NoAttempt, NoCall, NoFlight, Busy, InFlight, EndpointsInv
<1>31. CASE UNCHANGED vars
  BY <1>31 DEF vars, durable, history, Busy, InFlight, EndpointsInv
<1>. QED
  BY <1>1, <1>2, <1>3, <1>4, <1>5, <1>6, <1>7, <1>8, <1>9, <1>10, <1>11, <1>12, <1>13, <1>14,
     <1>15, <1>16, <1>17, <1>18, <1>19, <1>20, <1>21, <1>22, <1>23, <1>24, <1>25, <1>26, <1>27,
     <1>28, <1>29, <1>30, <1>31 DEF Next

\* Whatever comes back late leaves nothing of another endpoint.
LEMMA StoredStep ==
  ASSUME TypeOK, LifeInv, FlightsInv, EndpointsInv, StoredForServer, [Next]_vars
  PROVE  StoredForServer'
<1>1. ASSUME NEW a \in Attempts, PrepareReconnect(a) PROVE StoredForServer'
  BY <1>1 DEF PrepareReconnect, StoredForServer
<1>2. ASSUME NEW a \in Attempts, NEW to \in Server, NEW by \in {"user", "deployment"}, ConnectBegins(a, to, by)
      PROVE  StoredForServer'
  BY <1>2 DEF ConnectBegins, history, StoredForServer
<1>3. ASSUME NEW a \in Attempts, ProbeAnswers(a) PROVE StoredForServer'
  BY <1>3 DEF ProbeAnswers, history, LifeInv, ServerInv, Busy, EndpointsInv, StoredForServer
<1>4. ASSUME NEW a \in Attempts, ProbeChallenges(a) PROVE StoredForServer'
  BY <1>4 DEF ProbeChallenges, LifeInv, ServerInv, Busy, EndpointsInv, StoredForServer
<1>5. ASSUME NEW a \in Attempts, ProbeFails(a) PROVE StoredForServer'
  BY <1>5 DEF ProbeFails, history, StoredForServer
<1>6. ASSUME NEW a \in Attempts, Redirects(a) PROVE StoredForServer'
  BY <1>6 DEF Redirects, StoredForServer
<1>7. ASSUME NEW a \in Attempts, Redeems(a) PROVE StoredForServer'
  BY <1>7 DEF Redeems, durable, StoredForServer
<1>8. ASSUME NEW a \in Attempts, AcceptCode(a) PROVE StoredForServer'
  BY <1>8 DEF AcceptCode, history, StoredForServer
<1>9. ASSUME NEW a \in Attempts, CodeIsExchanged(a) PROVE StoredForServer'
  BY <1>9 DEF CodeIsExchanged, durable, history, StoredForServer
<1>10. ASSUME NEW a \in Attempts, SaveTokens(a) PROVE StoredForServer'
  BY <1>10 DEF SaveTokens, IsCurrent, Current, NewToken, StoredForServer
<1>11. ASSUME NEW a \in Attempts, Reprobed(a) PROVE StoredForServer'
  BY <1>11 DEF Reprobed, history, Busy, EndpointsInv, StoredForServer
<1>12. ASSUME NEW a \in Attempts, OAuthFails(a) PROVE StoredForServer'
  BY <1>12 DEF OAuthFails, history, StoredForServer
<1>13. ASSUME NEW a \in Attempts, ExchangeFails(a) PROVE StoredForServer'
  BY <1>13 DEF ExchangeFails, durable, history, StoredForServer
<1>14. ASSUME NEW c \in Calls, GetConnection(c) PROVE StoredForServer'
  <2>1. UNCHANGED <<server, generation, nonce, pendingAuth, tokens, sessionId, flags, attempt,
                    accepted, issued, overwritten>>
    BY <1>14 DEF GetConnection, external, history
  <2>. QED
    BY <1>14, <2>1, EffectOfGetConnection DEF StoredForServer, Uses
<1>15. ASSUME NEW c \in Calls, CallSetsSession(c) PROVE StoredForServer'
  BY <1>15 DEF CallSetsSession, history, Current, StoredForServer
<1>16. ASSUME NEW c \in Calls, CallEnds(c) PROVE StoredForServer'
  BY <1>16 DEF CallEnds, durable, history, NoCall, StoredForServer
<1>17. ASSUME NEW c \in Calls, CallRefused(c) PROVE StoredForServer'
  BY <1>17 DEF CallRefused, history, NoCall, StoredForServer
<1>18. ASSUME NEW c \in Calls, CallNotified(c) PROVE StoredForServer'
  BY <1>18 DEF CallNotified, history, NoCall, StoredForServer
<1>19. ASSUME NEW o \in Calls, Redeemed(o) PROVE StoredForServer'
  BY <1>19 DEF Redeemed, durable, history, StoredForServer
<1>20. ASSUME NEW o \in Calls, RefreshAnswers(o) PROVE StoredForServer'
  <2>1. UNCHANGED <<server, generation, nonce, pendingAuth, sessionId, flags, attempt, accepted,
                    issued, overwritten>>
    BY <1>20 DEF RefreshAnswers, external, history
  <2>. QED
    BY <1>20, <2>1, EffectOfAnswer DEF StoredForServer, NoCall, NewToken, FlightIsCurrent,
       Current, EndpointsInv, InFlight, FlightsInv
<1>21. ASSUME NEW o \in Calls, RefreshFails(o) PROVE StoredForServer'
  BY <1>21 DEF RefreshFails, durable, NoCall, Settles, AllFail, StoredForServer
<1>22. ASSUME NEW o \in Calls, RefreshRefused(o) PROVE StoredForServer'
  BY <1>22 DEF RefreshRefused, history, NoCall, Settles, AllFail, StoredForServer
<1>23. ASSUME NEW o \in Calls, RefreshNotified(o) PROVE StoredForServer'
  BY <1>23 DEF RefreshNotified, history, NoCall, Settles, AllFail, StoredForServer
<1>24. CASE NonceExpires
  BY <1>24 DEF NonceExpires, history, StoredForServer
<1>25. CASE TokenExpires
  BY <1>25 DEF TokenExpires, history, StoredForServer
<1>26. CASE GrantIsRevoked
  BY <1>26 DEF GrantIsRevoked, durable, StoredForServer
<1>27. CASE Alarm
  BY <1>27 DEF Alarm, history, DeleteAll, StoredForServer
<1>28. CASE Revoke
  BY <1>28 DEF Revoke, durable, history, StoredForServer
<1>29. CASE RevokeEnds
  BY <1>29 DEF RevokeEnds, history, DeleteAll, StoredForServer
<1>30. CASE Restart
  BY <1>30 DEF Restart, durable, NoCall, StoredForServer
<1>31. CASE UNCHANGED vars
  BY <1>31 DEF vars, durable, history, StoredForServer
<1>. QED
  BY <1>1, <1>2, <1>3, <1>4, <1>5, <1>6, <1>7, <1>8, <1>9, <1>10, <1>11, <1>12, <1>13, <1>14,
     <1>15, <1>16, <1>17, <1>18, <1>19, <1>20, <1>21, <1>22, <1>23, <1>24, <1>25, <1>26, <1>27,
     <1>28, <1>29, <1>30, <1>31 DEF Next

\* An attempt that fails releases the link it holds.
LEMMA ClaimStep ==
  ASSUME TypeOK, ClaimInv, [Next]_vars
  PROVE  ClaimInv'
<1>1. ASSUME NEW a \in Attempts, PrepareReconnect(a) PROVE ClaimInv'
  BY <1>1 DEF PrepareReconnect, ClaimInv, ClaimIsReleased
<1>2. ASSUME NEW a \in Attempts, NEW to \in Server, NEW by \in {"user", "deployment"}, ConnectBegins(a, to, by)
      PROVE  ClaimInv'
  BY <1>2 DEF ConnectBegins, TypeOK, ClaimInv, ClaimIsReleased
<1>3. ASSUME NEW a \in Attempts, ProbeAnswers(a) PROVE ClaimInv'
  BY <1>3, AccountAssumption DEF ProbeAnswers, history, TypeOK, Ends, Restored, Completes, Nonce, ClaimInv, ClaimIsReleased
<1>4. ASSUME NEW a \in Attempts, ProbeChallenges(a) PROVE ClaimInv'
  BY <1>4 DEF ProbeChallenges, TypeOK, AttemptState, Ends, Proceeds, Restored, Nonce, ClaimInv, ClaimIsReleased
<1>5. ASSUME NEW a \in Attempts, ProbeFails(a) PROVE ClaimInv'
  BY <1>5 DEF ProbeFails, history, TypeOK, Ends, Restored, Nonce, ClaimInv, ClaimIsReleased
<1>6. ASSUME NEW a \in Attempts, Redirects(a) PROVE ClaimInv'
  BY <1>6 DEF Redirects, ClaimInv, ClaimIsReleased
<1>7. ASSUME NEW a \in Attempts, Redeems(a) PROVE ClaimInv'
  BY <1>7 DEF Redeems, durable, TypeOK, Nonce, ClaimInv, ClaimIsReleased
<1>8. ASSUME NEW a \in Attempts, AcceptCode(a) PROVE ClaimInv'
  BY <1>8, AccountAssumption DEF AcceptCode, history, Nonce, ClaimInv, ClaimIsReleased
<1>9. ASSUME NEW a \in Attempts, CodeIsExchanged(a) PROVE ClaimInv'
  BY <1>9 DEF CodeIsExchanged, history, durable, TypeOK, Nonce, ClaimInv, ClaimIsReleased
<1>10. ASSUME NEW a \in Attempts, SaveTokens(a) PROVE ClaimInv'
  BY <1>10 DEF SaveTokens, TypeOK, AttemptState, Ends, Proceeds, Restored, Nonce, ClaimInv, ClaimIsReleased
<1>11. ASSUME NEW a \in Attempts, Reprobed(a) PROVE ClaimInv'
  BY <1>11, AccountAssumption DEF Reprobed, history, TypeOK, Ends, Restored, Completes, Nonce, ClaimInv, ClaimIsReleased
<1>12. ASSUME NEW a \in Attempts, OAuthFails(a) PROVE ClaimInv'
  BY <1>12 DEF OAuthFails, history, TypeOK, Ends, Restored, Nonce, ClaimInv, ClaimIsReleased
<1>13. ASSUME NEW a \in Attempts, ExchangeFails(a) PROVE ClaimInv'
  BY <1>13 DEF ExchangeFails, history, durable, TypeOK, Ends, Nonce, ClaimInv, ClaimIsReleased
<1>14. ASSUME NEW c \in Calls, GetConnection(c) PROVE ClaimInv'
  BY <1>14 DEF GetConnection, history, ClaimInv, ClaimIsReleased
<1>15. ASSUME NEW c \in Calls, CallSetsSession(c) PROVE ClaimInv'
  BY <1>15 DEF CallSetsSession, history, ClaimInv, ClaimIsReleased
<1>16. ASSUME NEW c \in Calls, CallEnds(c) PROVE ClaimInv'
  BY <1>16 DEF CallEnds, history, durable, ClaimInv, ClaimIsReleased
<1>17. ASSUME NEW c \in Calls, CallRefused(c) PROVE ClaimInv'
  BY <1>17 DEF CallRefused, ClaimInv, ClaimIsReleased
<1>18. ASSUME NEW c \in Calls, CallNotified(c) PROVE ClaimInv'
  BY <1>18 DEF CallNotified, ClaimInv, ClaimIsReleased
<1>19. ASSUME NEW o \in Calls, Redeemed(o) PROVE ClaimInv'
  BY <1>19 DEF Redeemed, durable, ClaimInv, ClaimIsReleased
<1>20. ASSUME NEW o \in Calls, RefreshAnswers(o) PROVE ClaimInv'
  BY <1>20 DEF RefreshAnswers, history, ClaimInv, ClaimIsReleased
<1>21. ASSUME NEW o \in Calls, RefreshFails(o) PROVE ClaimInv'
  BY <1>21 DEF RefreshFails, durable, ClaimInv, ClaimIsReleased
<1>22. ASSUME NEW o \in Calls, RefreshRefused(o) PROVE ClaimInv'
  BY <1>22 DEF RefreshRefused, history, ClaimInv, ClaimIsReleased
<1>23. ASSUME NEW o \in Calls, RefreshNotified(o) PROVE ClaimInv'
  BY <1>23 DEF RefreshNotified, ClaimInv, ClaimIsReleased
<1>24. CASE NonceExpires
  BY <1>24, AccountAssumption DEF NonceExpires, history, Nonce, ClaimInv, ClaimIsReleased
<1>25. CASE TokenExpires
  BY <1>25 DEF TokenExpires, history, ClaimInv, ClaimIsReleased
<1>26. CASE GrantIsRevoked
  BY <1>26 DEF GrantIsRevoked, durable, ClaimInv, ClaimIsReleased
<1>27. CASE Alarm
  BY <1>27, AccountAssumption DEF Alarm, history, DeleteAll, Nonce, ClaimInv, ClaimIsReleased
<1>28. CASE Revoke
  BY <1>28 DEF Revoke, history, durable, ClaimInv, ClaimIsReleased
<1>29. CASE RevokeEnds
  BY <1>29, AccountAssumption DEF RevokeEnds, history, DeleteAll, Nonce, ClaimInv, ClaimIsReleased
<1>30. CASE Restart
  BY <1>30 DEF Restart, durable, NoAttempt, ClaimInv, ClaimIsReleased
<1>31. CASE UNCHANGED vars
  BY <1>31 DEF vars, history, durable, ClaimInv, ClaimIsReleased
<1>. QED
  BY <1>1, <1>2, <1>3, <1>4, <1>5, <1>6, <1>7, <1>8, <1>9, <1>10, <1>11, <1>12, <1>13, <1>14,
     <1>15, <1>16, <1>17, <1>18, <1>19, <1>20, <1>21, <1>22, <1>23, <1>24, <1>25, <1>26, <1>27,
     <1>28, <1>29, <1>30, <1>31 DEF Next

\* A token that is issued gets a new number, and no token is made up.
LEMMA NumbersStep ==
  ASSUME TypeOK, LifeInv, NumbersInv, [Next]_vars
  PROVE  NumbersInv'
<1>1. ASSUME NEW a \in Attempts, PrepareReconnect(a) PROVE NumbersInv'
  BY <1>1 DEF PrepareReconnect, external, NumbersInv, InFlight
<1>2. ASSUME NEW a \in Attempts, NEW to \in Server, NEW by \in {"user", "deployment"}, ConnectBegins(a, to, by)
      PROVE  NumbersInv'
  BY <1>2 DEF ConnectBegins, external, NumbersInv, InFlight
<1>3. ASSUME NEW a \in Attempts, ProbeAnswers(a) PROVE NumbersInv'
  BY <1>3 DEF ProbeAnswers, external, Ends, NoAttempt, NumbersInv, InFlight
<1>4. ASSUME NEW a \in Attempts, ProbeChallenges(a) PROVE NumbersInv'
  BY <1>4 DEF ProbeChallenges, external, TypeOK, AttemptState, Ends, Proceeds, Restored,
     NoAttempt, Numbers, NumbersInv, InFlight
<1>5. ASSUME NEW a \in Attempts, ProbeFails(a) PROVE NumbersInv'
  BY <1>5 DEF ProbeFails, external, Ends, NoAttempt, NumbersInv, InFlight
<1>6. ASSUME NEW a \in Attempts, Redirects(a) PROVE NumbersInv'
  BY <1>6 DEF Redirects, external, Ends, NoAttempt, NumbersInv, InFlight
<1>7. ASSUME NEW a \in Attempts, Redeems(a) PROVE NumbersInv'
  BY <1>7 DEF Redeems, durable, TypeOK, Issues, Numbers, NumbersInv, InFlight, LifeInv, CapturesInv
<1>8. ASSUME NEW a \in Attempts, AcceptCode(a) PROVE NumbersInv'
  BY <1>8 DEF AcceptCode, external, NumbersInv, InFlight
<1>9. ASSUME NEW a \in Attempts, CodeIsExchanged(a) PROVE NumbersInv'
  BY <1>9 DEF CodeIsExchanged, durable, TypeOK, Issues, Numbers, Token, NumbersInv, InFlight,
     LifeInv, CapturesInv
<1>10. ASSUME NEW a \in Attempts, SaveTokens(a) PROVE NumbersInv'
  <2>1. UNCHANGED <<accepted, issued, flight>>
    BY <1>10 DEF SaveTokens, external
  <2>2. attempt[a].pc \in {"redeemed", "exchanged"} /\ (tokens' = tokens \/ tokens'.n = attempt[a].token)
    BY <1>10 DEF SaveTokens, NewToken
  <2>3. \A b \in Attempts : attempt'[b].pc \in {"redeemed", "exchanged"} => attempt'[b] = attempt[b]
    BY <1>10, EffectOfSave DEF NoAttempt
  <2>. QED
    BY <2>1, <2>2, <2>3 DEF NumbersInv, InFlight
<1>11. ASSUME NEW a \in Attempts, Reprobed(a) PROVE NumbersInv'
  BY <1>11 DEF Reprobed, external, Ends, NoAttempt, NumbersInv, InFlight
<1>12. ASSUME NEW a \in Attempts, OAuthFails(a) PROVE NumbersInv'
  BY <1>12 DEF OAuthFails, history, external, Ends, NoAttempt, NumbersInv, InFlight
<1>13. ASSUME NEW a \in Attempts, ExchangeFails(a) PROVE NumbersInv'
  BY <1>13 DEF ExchangeFails, durable, external, Ends, NoAttempt, NumbersInv, InFlight
<1>14. ASSUME NEW c \in Calls, GetConnection(c) PROVE NumbersInv'
  BY <1>14 DEF GetConnection, external, TypeOK, Life, NumbersInv, InFlight
<1>15. ASSUME NEW c \in Calls, CallSetsSession(c) PROVE NumbersInv'
  BY <1>15 DEF CallSetsSession, external, NumbersInv, InFlight
<1>16. ASSUME NEW c \in Calls, CallEnds(c) PROVE NumbersInv'
  BY <1>16 DEF CallEnds, durable, external, NumbersInv, InFlight
<1>17. ASSUME NEW c \in Calls, CallRefused(c) PROVE NumbersInv'
  BY <1>17 DEF CallRefused, external, NumbersInv, InFlight
<1>18. ASSUME NEW c \in Calls, CallNotified(c) PROVE NumbersInv'
  BY <1>18 DEF CallNotified, external, NumbersInv, InFlight
<1>19. ASSUME NEW o \in Calls, Redeemed(o) PROVE NumbersInv'
  BY <1>19 DEF Redeemed, durable, external, TypeOK, FlightState, Nonce, Server, NumbersInv,
     InFlight, CapturesInv
<1>20. ASSUME NEW o \in Calls, RefreshAnswers(o) PROVE NumbersInv'
  <2>1. UNCHANGED <<server, generation, nonce, pendingAuth, sessionId, flags, attempt, accepted,
                    issued, overwritten>>
    BY <1>20 DEF RefreshAnswers, external, history
  <2>. QED
    BY <1>20, <2>1, EffectOfAnswer DEF NumbersInv, InFlight, NoFlight, NewToken
<1>21. ASSUME NEW o \in Calls, RefreshFails(o) PROVE NumbersInv'
  BY <1>21 DEF RefreshFails, durable, external, NoFlight, Settles, NumbersInv, InFlight
<1>22. ASSUME NEW o \in Calls, RefreshRefused(o) PROVE NumbersInv'
  <2>1. UNCHANGED <<server, generation, nonce, pendingAuth, tokens, sessionId, flags, attempt,
                    accepted, issued, overwritten>>
    BY <1>22 DEF RefreshRefused, external, history
  <2>. QED
    BY <1>22, <2>1, EffectOfRefusal DEF NumbersInv, InFlight, NoFlight
<1>23. ASSUME NEW o \in Calls, RefreshNotified(o) PROVE NumbersInv'
  BY <1>23 DEF RefreshNotified, external, NoFlight, Settles, NumbersInv, InFlight
<1>24. CASE NonceExpires
  BY <1>24 DEF NonceExpires, external, NumbersInv, InFlight
<1>25. CASE TokenExpires
  BY <1>25 DEF TokenExpires, external, NumbersInv, InFlight
<1>26. CASE GrantIsRevoked
  BY <1>26 DEF GrantIsRevoked, durable, NumbersInv, InFlight
<1>27. CASE Alarm
  BY <1>27 DEF Alarm, external, DeleteAll, NumbersInv, InFlight
<1>28. CASE Revoke
  BY <1>28 DEF Revoke, durable, external, NumbersInv, InFlight
<1>29. CASE RevokeEnds
  BY <1>29 DEF RevokeEnds, external, DeleteAll, NumbersInv, InFlight
<1>30. CASE Restart
  BY <1>30 DEF Restart, durable, external, TypeOK, NoAttempt, NoFlight, NumbersInv
<1>31. CASE UNCHANGED vars
  BY <1>31 DEF vars, durable, external, NumbersInv, InFlight
<1>. QED
  BY <1>1, <1>2, <1>3, <1>4, <1>5, <1>6, <1>7, <1>8, <1>9, <1>10, <1>11, <1>12, <1>13, <1>14,
     <1>15, <1>16, <1>17, <1>18, <1>19, <1>20, <1>21, <1>22, <1>23, <1>24, <1>25, <1>26, <1>27,
     <1>28, <1>29, <1>30, <1>31 DEF Next

\* A refresh of the generation is one of the connection.
LEMMA FlightOfGeneration ==
  ASSUME EndpointsInv, ~overwritten, server # Nothing, NEW o \in Calls, InFlight(o),
         flight[o].gen = generation
  PROVE  FlightIsCurrent(o)
BY DEF EndpointsInv, FlightIsCurrent, Current

\* A refresh of the generation that was answered is on its way to the account.
LEMMA AnswerOfGeneration ==
  ASSUME LifeInv, EndpointsInv, RefreshSound, ~overwritten, ~AnswerIsComing
  PROVE  /\ ~\E o \in Calls : flight[o].st = "answered" /\ flight[o].gen = generation
         /\ TokensSound /\ tokens # Nothing /\ tokens.life # "spent" => tokens.n \in accepted
<1>1. ASSUME NEW o \in Calls, flight[o].st = "answered", flight[o].gen = generation PROVE FALSE
  <2>1. InFlight(o) /\ server # Nothing
    BY <1>1 DEF InFlight, RefreshSound, LifeInv, ServerInv
  <2>. QED
    BY <1>1, <2>1, FlightOfGeneration DEF AnswerIsComing
<1>. QED
  BY <1>1 DEF TokensSound

\* The tokens that an attempt stores are sound, unless there is something to blame:
\* they were revoked before they got here, or a refresh of the generation was under way.
LEMMA SaveIsHealthy ==
  ASSUME TypeOK, EndpointsInv, ~overwritten, NEW a \in Attempts, SaveTokens(a), IsCurrent(a), ~blame'
  PROVE  TokensSound' /\ RefreshSound'
<1>1. /\ tokens' = NewToken(attempt[a].to, attempt[a].token) /\ ~notified'
      /\ attempt[a].token \in accepted
      /\ \A o \in Calls : flight[o].st \in {"sent", "answered", "refused"} => ~FlightIsCurrent(o)
      /\ UNCHANGED <<server, generation, flight, accepted>>
  BY DEF SaveTokens, external, RefreshIsUnderWay
<1>2. ASSUME NEW o \in Calls, InFlight(o), flight[o].gen = generation PROVE flight[o].st = "notifying"
  <2>1. flight[o].ep = server.ep /\ server # Nothing
    BY <1>2 DEF EndpointsInv, IsCurrent, Current
  <2>2. flight[o].st \in {"sent", "answered", "refused", "notifying"}
    BY <1>2 DEF InFlight, TypeOK, FlightState
  <2>. QED
    BY <1>1, <1>2, <2>1, <2>2 DEF FlightIsCurrent, Current
<1>3. TokensSound'
  BY <1>1 DEF TokensSound, NewToken
<1>. QED
  BY <1>1, <1>2, <1>3 DEF RefreshSound, InFlight

\* While nothing is to blame, the stored token stays accepted, or is being traded.
LEMMA TokensStep ==
  ASSUME TypeOK, LifeInv, FlightsInv, EndpointsInv, NumbersInv, UniqueInv, TokensSound,
         RefreshSound, ~overwritten, ~blame, ~blame', [Next]_vars
  PROVE  TokensSound'
<1>1. ASSUME NEW a \in Attempts, PrepareReconnect(a) PROVE TokensSound'
  <2>1. ~AnswerIsComing /\ notified' = FALSE /\ UNCHANGED <<tokens, accepted>>
    BY <1>1 DEF PrepareReconnect, external
  <2>. QED
    BY <2>1, AnswerOfGeneration DEF TokensSound
<1>2. ASSUME NEW a \in Attempts, NEW to \in Server, NEW by \in {"user", "deployment"}, ConnectBegins(a, to, by)
      PROVE  TokensSound'
  <2>1. /\ ~AnswerIsComing /\ UNCHANGED accepted
        /\ tokens' = Nothing \/ UNCHANGED <<tokens, notified, misled>>
    BY <1>2 DEF ConnectBegins, external
  <2>. QED
    BY <2>1, AnswerOfGeneration DEF TokensSound
<1>3. ASSUME NEW a \in Attempts, ProbeAnswers(a) PROVE TokensSound'
  BY <1>3 DEF ProbeAnswers, history, external, TokensSound
<1>4. ASSUME NEW a \in Attempts, ProbeChallenges(a) PROVE TokensSound'
  BY <1>4, EffectOfChallenge DEF ProbeChallenges, external, TokensSound
<1>5. ASSUME NEW a \in Attempts, ProbeFails(a) PROVE TokensSound'
  BY <1>5 DEF ProbeFails, history, external, TokensSound
<1>6. ASSUME NEW a \in Attempts, Redirects(a) PROVE TokensSound'
  BY <1>6 DEF Redirects, external, TokensSound
<1>7. ASSUME NEW a \in Attempts, Redeems(a) PROVE TokensSound'
  BY <1>7 DEF Redeems
<1>8. ASSUME NEW a \in Attempts, AcceptCode(a) PROVE TokensSound'
  BY <1>8 DEF AcceptCode, history, external, TokensSound
<1>9. ASSUME NEW a \in Attempts, CodeIsExchanged(a) PROVE TokensSound'
  BY <1>9 DEF CodeIsExchanged, history, durable, Issues, TokensSound, TypeOK, Numbers
<1>10. ASSUME NEW a \in Attempts, SaveTokens(a) PROVE TokensSound'
  <2>1. CASE IsCurrent(a)
    BY <1>10, <2>1, SaveIsHealthy
  <2>2. CASE ~IsCurrent(a)
    BY <1>10, <2>2 DEF SaveTokens, external, TokensSound
  <2>. QED
    BY <2>1, <2>2
<1>11. ASSUME NEW a \in Attempts, Reprobed(a) PROVE TokensSound'
  BY <1>11 DEF Reprobed, history, external, TokensSound
<1>12. ASSUME NEW a \in Attempts, OAuthFails(a) PROVE TokensSound'
  BY <1>12 DEF OAuthFails, history, external, TokensSound
<1>13. ASSUME NEW a \in Attempts, ExchangeFails(a) PROVE TokensSound'
  BY <1>13 DEF ExchangeFails, history, durable, external, TokensSound
<1>14. ASSUME NEW c \in Calls, GetConnection(c) PROVE TokensSound'
  <2>1. UNCHANGED <<generation, tokens, accepted, misled>> /\ call[c] = NoCall
    BY <1>14 DEF GetConnection, external, history
  <2>2. ~InFlight(c)
    BY <2>1 DEF FlightsInv, NoCall
  <2>3. /\ \A p \in Calls \ {c} : flight'[p] = flight[p]
        /\ (tokens # Nothing /\ tokens.life # "spent") => UNCHANGED notified
    BY <1>14, EffectOfGetConnection
  <2>4. ASSUME NEW p \in Calls, flight[p].st = "answered" PROVE flight'[p] = flight[p]
    BY <2>2, <2>3, <2>4 DEF InFlight
  <2>. QED
    BY <2>1, <2>3, <2>4 DEF TokensSound
<1>15. ASSUME NEW c \in Calls, CallSetsSession(c) PROVE TokensSound'
  BY <1>15 DEF CallSetsSession, history, external, TokensSound
<1>16. ASSUME NEW c \in Calls, CallEnds(c) PROVE TokensSound'
  BY <1>16 DEF CallEnds, history, durable, external, TokensSound
<1>17. ASSUME NEW c \in Calls, CallRefused(c) PROVE TokensSound'
  <2>1. /\ UNCHANGED <<generation, tokens, accepted, flight>>
        /\ call[c].token \notin accepted \/ IsOutdated(c)
        /\ notified' = (notified \/ Notes(call[c].ep, call[c].gen))
        /\ misled' = (misled \/ (Notes(call[c].ep, call[c].gen) /\ IsOutdated(c)))
    BY <1>17 DEF CallRefused, Noted, external
  <2>2. ASSUME ~IsOutdated(c), tokens # Nothing, tokens.life # "spent" PROVE FALSE
    <3>1. tokens.life = "fresh" /\ tokens.n \notin accepted
      BY <2>1, <2>2 DEF IsOutdated
    <3>2. PICK o \in Calls : flight[o].st = "answered" /\ flight[o].gen = generation
      BY <2>2, <3>1 DEF TokensSound
    <3>. QED
      BY <3>1, <3>2 DEF RefreshSound, InFlight
  <2>. QED
    BY <2>1, <2>2 DEF TokensSound
<1>18. ASSUME NEW c \in Calls, CallNotified(c) PROVE TokensSound'
  BY <1>18 DEF CallNotified, external, TokensSound
<1>19. ASSUME NEW o \in Calls, Redeemed(o) PROVE TokensSound'
  <2>1. UNCHANGED <<generation, tokens, notified, misled>>
    BY <1>19 DEF Redeemed, durable
  <2>2. CASE flight[o].token \notin accepted
    <3>1. UNCHANGED accepted /\ \A p \in Calls \ {o} : flight'[p] = flight[p]
      BY <1>19, <2>2, EffectOfRedemption DEF external
    <3>2. flight[o].st = "sent"
      BY <1>19, EffectOfRedemption
    <3>3. \A p \in Calls : flight[p].st = "answered" => flight'[p] = flight[p]
      BY <3>1, <3>2
    <3>. QED
      BY <2>1, <3>1, <3>3 DEF TokensSound
  <2>3. CASE flight[o].token \in accepted
    <3>1. /\ flight[o].st = "sent" /\ accepted \ {flight[o].token} \subseteq accepted'
          /\ flight'[o].st = "answered" /\ flight'[o].gen = flight[o].gen
          /\ \A p \in Calls \ {o} : flight'[p] = flight[p]
      BY <1>19, <2>3, EffectOfRedemption DEF Issues
    <3>2. ~FlightIsCurrent(o) => ~IsStored(flight[o].token)
      BY <1>19, <2>3 DEF Redeemed
    <3>3. \A p \in Calls : flight[p].st = "answered" => flight'[p] = flight[p]
      BY <3>1
    <3>. QED
      BY <2>1, <3>1, <3>2, <3>3 DEF TokensSound, IsStored, FlightIsCurrent, Current
  <2>. QED
    BY <2>2, <2>3
<1>20. ASSUME NEW o \in Calls, RefreshAnswers(o) PROVE TokensSound'
  <2>1. flight[o].st = "answered" /\ UNCHANGED <<generation, notified, misled, accepted>>
    BY <1>20 DEF RefreshAnswers, external, history
  <2>2. CASE FlightIsCurrent(o)
    <3>1. tokens # Nothing /\ tokens.life = "stale" /\ flight[o].token \in accepted
      BY <2>1, <2>2 DEF RefreshSound, InFlight, FlightIsCurrent, Current
    <3>2. tokens'.n = flight[o].token
      BY <1>20, <2>2, EffectOfAnswer DEF NewToken
    <3>. QED
      BY <2>1, <3>1, <3>2 DEF TokensSound
  <2>3. CASE ~FlightIsCurrent(o)
    <3>1. UNCHANGED tokens /\ \A p \in Calls \ {o} : flight'[p] = flight[p]
      BY <1>20, <2>3, EffectOfAnswer
    <3>2. tokens # Nothing => flight[o].gen # generation
      BY <2>1, <2>3, FlightOfGeneration DEF InFlight, LifeInv, ServerInv
    <3>. QED
      BY <2>1, <3>1, <3>2 DEF TokensSound
  <2>. QED
    BY <2>2, <2>3
<1>21. ASSUME NEW o \in Calls, RefreshFails(o) PROVE TokensSound'
  <2>1. /\ UNCHANGED <<server, generation, tokens, notified, misled, accepted>>
        /\ ~(flight[o].st = "answered" /\ FlightIsCurrent(o))
        /\ \A p \in Calls \ {o} : flight'[p] = flight[p]
    BY <1>21 DEF RefreshFails, durable, external, Settles, TypeOK
  <2>2. tokens # Nothing => ~(flight[o].st = "answered" /\ flight[o].gen = generation)
    BY <2>1, FlightOfGeneration DEF InFlight, LifeInv, ServerInv
  <2>. QED
    BY <2>1, <2>2 DEF TokensSound
<1>22. ASSUME NEW o \in Calls, RefreshRefused(o) PROVE TokensSound'
  BY <1>22, EffectOfRefusal DEF RefreshRefused, history, external, Current, Noted, Notes, TokensSound, RefreshSound, InFlight, TypeOK
<1>23. ASSUME NEW o \in Calls, RefreshNotified(o) PROVE TokensSound'
  <2>1. /\ UNCHANGED <<generation, tokens, accepted>>
        /\ notified' \in {notified, FALSE} /\ misled' = (misled /\ notified')
        /\ flight[o].st = "notifying" /\ flight' = [flight EXCEPT ![o] = NoFlight]
    BY <1>23 DEF RefreshNotified, Settles, external
  <2>2. ASSUME NEW p \in Calls, flight[p].st = "answered" PROVE flight'[p] = flight[p]
    BY <2>1, <2>2 DEF TypeOK
  <2>. QED
    BY <2>1, <2>2 DEF TokensSound
<1>24. CASE NonceExpires
  BY <1>24 DEF NonceExpires, history, external, TokensSound, RefreshSound, LifeInv, CapturesInv, Captured, FlightsInv
<1>25. CASE TokenExpires
  BY <1>25 DEF TokenExpires, history, external, TokensSound
<1>26. CASE GrantIsRevoked
  BY <1>26 DEF GrantIsRevoked
<1>27. CASE Alarm
  BY <1>27 DEF Alarm, history, external, DeleteAll, TokensSound
<1>28. CASE Revoke
  BY <1>28 DEF Revoke, history, durable, external, TokensSound
<1>29. CASE RevokeEnds
  BY <1>29 DEF RevokeEnds, history, DeleteAll, TokensSound
<1>30. CASE Restart
  <2>1. ~AnswerIsComing /\ UNCHANGED <<tokens, notified, misled, accepted>>
    BY <1>30 DEF Restart, durable, external
  <2>. QED
    BY <2>1, AnswerOfGeneration DEF TokensSound
<1>31. CASE UNCHANGED vars
  BY <1>31 DEF vars, history, durable, external, TokensSound
<1>. QED
  BY <1>1, <1>2, <1>3, <1>4, <1>5, <1>6, <1>7, <1>8, <1>9, <1>10, <1>11, <1>12, <1>13, <1>14,
     <1>15, <1>16, <1>17, <1>18, <1>19, <1>20, <1>21, <1>22, <1>23, <1>24, <1>25, <1>26, <1>27,
     <1>28, <1>29, <1>30, <1>31 DEF Next

\* While nothing is to blame, the refresh under way is about the stored tokens.
LEMMA RefreshStep ==
  ASSUME TypeOK, LifeInv, FlightsInv, EndpointsInv, NumbersInv, UniqueInv, TokensSound,
         RefreshSound, ~overwritten, ~blame, ~blame', [Next]_vars
  PROVE  RefreshSound'
<1>1. ASSUME NEW a \in Attempts, PrepareReconnect(a) PROVE RefreshSound'
  <2>1. generation # 0 /\ generation' = generation + 1 /\ UNCHANGED flight
    BY <1>1 DEF PrepareReconnect, LifeInv, ServerInv
  <2>2. ASSUME NEW p \in Calls, InFlight(p) PROVE flight[p].gen # generation + 1
    BY <2>1, <2>2 DEF LifeInv, CapturesInv, Captured, TypeOK, Generations
  <2>. QED
    BY <2>1, <2>2 DEF RefreshSound, InFlight
<1>2. ASSUME NEW a \in Attempts, NEW to \in Server, NEW by \in {"user", "deployment"}, ConnectBegins(a, to, by)
      PROVE  RefreshSound'
  <2>1. nonce # Nothing /\ generation' = generation + 1 /\ UNCHANGED flight
        /\ nonce = [of |-> a, stage |-> "initiation"]
    BY <1>2, AccountAssumption DEF ConnectBegins, Nonce
  <2>2. ASSUME NEW p \in Calls, InFlight(p) PROVE flight[p].gen # generation + 1
    <3>1. generation # 0
      BY <2>1, <2>2 DEF LifeInv, AbsentInv
    <3>. QED
      BY <2>2, <3>1 DEF LifeInv, CapturesInv, Captured, TypeOK, Generations
  <2>. QED
    BY <2>1, <2>2 DEF RefreshSound, InFlight
<1>3. ASSUME NEW a \in Attempts, ProbeAnswers(a) PROVE RefreshSound'
  BY <1>3 DEF ProbeAnswers, external, RefreshSound, InFlight
<1>4. ASSUME NEW a \in Attempts, ProbeChallenges(a) PROVE RefreshSound'
  BY <1>4, EffectOfChallenge DEF ProbeChallenges, external, RefreshSound, InFlight
<1>5. ASSUME NEW a \in Attempts, ProbeFails(a) PROVE RefreshSound'
  BY <1>5 DEF ProbeFails, external, RefreshSound, InFlight
<1>6. ASSUME NEW a \in Attempts, Redirects(a) PROVE RefreshSound'
  BY <1>6 DEF Redirects, external, RefreshSound, InFlight
<1>7. ASSUME NEW a \in Attempts, Redeems(a) PROVE RefreshSound'
  BY <1>7 DEF Redeems
<1>8. ASSUME NEW a \in Attempts, AcceptCode(a) PROVE RefreshSound'
  BY <1>8 DEF AcceptCode, external, RefreshSound, InFlight
<1>9. ASSUME NEW a \in Attempts, CodeIsExchanged(a) PROVE RefreshSound'
  BY <1>9 DEF CodeIsExchanged, durable, Issues, RefreshSound, LifeInv, CapturesInv, InFlight, Numbers
<1>10. ASSUME NEW a \in Attempts, SaveTokens(a) PROVE RefreshSound'
  <2>1. CASE IsCurrent(a)
    BY <1>10, <2>1, SaveIsHealthy
  <2>2. CASE ~IsCurrent(a)
    BY <1>10, <2>2 DEF SaveTokens, external, RefreshSound, InFlight
  <2>. QED
    BY <2>1, <2>2
<1>11. ASSUME NEW a \in Attempts, Reprobed(a) PROVE RefreshSound'
  BY <1>11 DEF Reprobed, external, RefreshSound, InFlight
<1>12. ASSUME NEW a \in Attempts, OAuthFails(a) PROVE RefreshSound'
  BY <1>12 DEF OAuthFails, history, external, RefreshSound, InFlight
<1>13. ASSUME NEW a \in Attempts, ExchangeFails(a) PROVE RefreshSound'
  BY <1>13 DEF ExchangeFails, durable, external, RefreshSound, InFlight
<1>14. ASSUME NEW c \in Calls, GetConnection(c) PROVE RefreshSound'
  <2>1. UNCHANGED <<generation, tokens, accepted>> /\ call[c] = NoCall
    BY <1>14 DEF GetConnection, external
  <2>2. ~InFlight(c)
    BY <2>1 DEF FlightsInv, NoCall
  <2>3. \A p \in Calls \ {c} : flight'[p] = flight[p]
    BY <1>14, EffectOfGetConnection
  <2>4. \/ flight'[c] = flight[c]
        \/ /\ flight'[c].st = "sent" /\ flight'[c].token = tokens.n
           /\ tokens # Nothing /\ tokens.life = "stale"
    BY <1>14, RefreshThatStarts
  <2>. QED
    BY <2>1, <2>2, <2>3, <2>4 DEF RefreshSound, InFlight
<1>15. ASSUME NEW c \in Calls, CallSetsSession(c) PROVE RefreshSound'
  BY <1>15 DEF CallSetsSession, external, RefreshSound, InFlight
<1>16. ASSUME NEW c \in Calls, CallEnds(c) PROVE RefreshSound'
  BY <1>16 DEF CallEnds, durable, external, RefreshSound, InFlight
<1>17. ASSUME NEW c \in Calls, CallRefused(c) PROVE RefreshSound'
  BY <1>17 DEF CallRefused, external, RefreshSound, InFlight
<1>18. ASSUME NEW c \in Calls, CallNotified(c) PROVE RefreshSound'
  BY <1>18 DEF CallNotified, external, RefreshSound, InFlight
<1>19. ASSUME NEW o \in Calls, Redeemed(o) PROVE RefreshSound'
  <2>1. UNCHANGED <<generation, tokens>>
    BY <1>19 DEF Redeemed, durable
  <2>2. /\ flight[o].st = "sent" /\ InFlight(o) /\ flight'[o].gen = flight[o].gen
        /\ \A p \in Calls \ {o} : flight'[p] = flight[p]
    BY <1>19, EffectOfRedemption DEF InFlight
  <2>3. CASE flight[o].token \notin accepted
    <3>1. UNCHANGED accepted
      BY <1>19, <2>3, EffectOfRedemption DEF external
    <3>2. flight[o].gen # generation
      <4>1. SUFFICES ASSUME flight[o].gen = generation PROVE FALSE
        OBVIOUS
      <4>2. tokens # Nothing /\ tokens.life = "stale" /\ tokens.n \notin accepted /\ refreshing = o
        BY <2>2, <2>3, <4>1 DEF RefreshSound, FlightsInv
      <4>3. PICK p \in Calls : flight[p].st = "answered" /\ flight[p].gen = generation
        BY <4>2 DEF TokensSound
      <4>. QED
        BY <2>2, <4>2, <4>3 DEF FlightsInv, InFlight
    <3>. QED
      BY <2>1, <2>2, <3>1, <3>2 DEF RefreshSound, InFlight
  <2>4. CASE flight[o].token \in accepted
    <3>1. /\ accepted' = (accepted \ {flight[o].token}) \cup {issued + 1}
          /\ flight'[o].st = "answered" /\ flight'[o].token = issued + 1
      BY <1>19, <2>4, EffectOfRedemption DEF Issues
    <3>2. \A p \in Calls \ {o} : flight[p].st = "answered" => flight[p].token # flight[o].token
      BY <2>2 DEF UniqueInv
    <3>. QED
      BY <2>1, <2>2, <3>1, <3>2 DEF RefreshSound, InFlight
  <2>. QED
    BY <2>3, <2>4
<1>20. ASSUME NEW o \in Calls, RefreshAnswers(o) PROVE RefreshSound'
  <2>1. flight[o].st = "answered" /\ InFlight(o) /\ UNCHANGED <<generation, accepted>>
    BY <1>20 DEF RefreshAnswers, external, InFlight
  <2>2. ASSUME NEW p \in Calls, InFlight(p)' PROVE p # o /\ InFlight(p) /\ flight'[p] = flight[p]
    BY <1>20, <2>2, EffectOfAnswer DEF InFlight, NoFlight
  <2>3. CASE FlightIsCurrent(o)
    <3>1. refreshing = o
      BY <2>1, <2>3 DEF FlightsInv, FlightIsCurrent, Current
    <3>. QED
      BY <2>1, <2>2, <3>1 DEF FlightsInv, RefreshSound
  <2>4. CASE ~FlightIsCurrent(o)
    <3>1. UNCHANGED tokens
      BY <1>20, <2>4, EffectOfAnswer
    <3>. QED
      BY <2>1, <2>2, <3>1 DEF RefreshSound
  <2>. QED
    BY <2>3, <2>4
<1>21. ASSUME NEW o \in Calls, RefreshFails(o) PROVE RefreshSound'
  BY <1>21 DEF RefreshFails, durable, external, NoFlight, Settles, RefreshSound, InFlight
<1>22. ASSUME NEW o \in Calls, RefreshRefused(o) PROVE RefreshSound'
  BY <1>22, EffectOfRefusal DEF RefreshRefused, external, NoFlight, RefreshSound, InFlight
<1>23. ASSUME NEW o \in Calls, RefreshNotified(o) PROVE RefreshSound'
  BY <1>23 DEF RefreshNotified, external, NoFlight, Settles, RefreshSound, InFlight
<1>24. CASE NonceExpires
  BY <1>24 DEF NonceExpires, external, RefreshSound, InFlight
<1>25. CASE TokenExpires
  BY <1>25 DEF TokenExpires, RefreshSound, InFlight
<1>26. CASE GrantIsRevoked
  BY <1>26 DEF GrantIsRevoked
<1>27. CASE Alarm
  BY <1>27 DEF Alarm, external, DeleteAll, RefreshSound, LifeInv, CapturesInv, Captured, InFlight
<1>28. CASE Revoke
  BY <1>28 DEF Revoke, durable, external, RefreshSound, InFlight
<1>29. CASE RevokeEnds
  BY <1>29 DEF RevokeEnds, DeleteAll, RefreshSound, LifeInv, CapturesInv, Captured, InFlight
<1>30. CASE Restart
  BY <1>30 DEF Restart, NoFlight, RefreshSound, InFlight
<1>31. CASE UNCHANGED vars
  BY <1>31 DEF vars, durable, external, RefreshSound, InFlight
<1>. QED
  BY <1>1, <1>2, <1>3, <1>4, <1>5, <1>6, <1>7, <1>8, <1>9, <1>10, <1>11, <1>12, <1>13, <1>14,
     <1>15, <1>16, <1>17, <1>18, <1>19, <1>20, <1>21, <1>22, <1>23, <1>24, <1>25, <1>26, <1>27,
     <1>28, <1>29, <1>30, <1>31 DEF Next

\* The number of the next token is nobody's.
LEMMA NewNumber ==
  ASSUME TypeOK, LifeInv, NumbersInv
  PROVE  /\ tokens # Nothing => tokens.n # issued + 1
         /\ \A o \in Calls : InFlight(o) => flight[o].token # issued + 1
         /\ \A b \in Attempts : Holds(b) => attempt[b].token # issued + 1
<1>1. \A n \in Numbers : n <= issued => n # issued + 1
  BY DEF Numbers, TypeOK
<1>2. tokens # Nothing => tokens.n \in Numbers
  BY DEF TypeOK, Token
<1>. QED
  BY <1>1, <1>2 DEF NumbersInv, LifeInv, CapturesInv, Holds, InFlight

\* What was issued to one stays his, and only the account and its refresh may share a number.
LEMMA UniqueStep ==
  ASSUME TypeOK, LifeInv, FlightsInv, NumbersInv, UniqueInv, [Next]_vars
  PROVE  UniqueInv'
<1>1. ASSUME NEW a \in Attempts, PrepareReconnect(a) PROVE UniqueInv'
  BY <1>1 DEF PrepareReconnect, external, UniqueInv, Holds, InFlight
<1>2. ASSUME NEW a \in Attempts, NEW to \in Server, NEW by \in {"user", "deployment"}, ConnectBegins(a, to, by)
      PROVE  UniqueInv'
  BY <1>2 DEF ConnectBegins, external, UniqueInv, Holds, InFlight
<1>3. ASSUME NEW a \in Attempts, ProbeAnswers(a) PROVE UniqueInv'
  BY <1>3 DEF ProbeAnswers, external, Ends, NoAttempt, UniqueInv, Holds, InFlight
<1>4. ASSUME NEW a \in Attempts, ProbeChallenges(a) PROVE UniqueInv'
  <2>1. UNCHANGED <<tokens, accepted, flight>>
    BY <1>4 DEF ProbeChallenges, external
  <2>2. \A b \in Attempts : attempt'[b].pc \in {"idle", "authorizing"} \/ attempt'[b] = attempt[b]
    BY <1>4, EffectOfChallenge DEF NoAttempt
  <2>. QED
    BY <2>1, <2>2 DEF UniqueInv, Holds, InFlight
<1>5. ASSUME NEW a \in Attempts, ProbeFails(a) PROVE UniqueInv'
  BY <1>5 DEF ProbeFails, external, Ends, NoAttempt, UniqueInv, Holds, InFlight
<1>6. ASSUME NEW a \in Attempts, Redirects(a) PROVE UniqueInv'
  BY <1>6 DEF Redirects, external, Ends, NoAttempt, UniqueInv, Holds, InFlight
<1>7. ASSUME NEW a \in Attempts, Redeems(a) PROVE UniqueInv'
  <2>1. /\ UNCHANGED <<tokens, flight>> /\ attempt[a].pc = "authorizing" /\ a \in Attempts
        /\ attempt'[a].token = issued + 1
        /\ \A b \in Attempts \ {a} : attempt'[b] = attempt[b]
    BY <1>7 DEF Redeems, durable, TypeOK, AttemptState
  <2>2. /\ tokens # Nothing => tokens.n # issued + 1
        /\ \A o \in Calls : InFlight(o) => flight[o].token # issued + 1
        /\ \A b \in Attempts : Holds(b) => attempt[b].token # issued + 1
    BY NewNumber
  <2>. QED
    BY <2>1, <2>2 DEF UniqueInv, Holds, InFlight
<1>8. ASSUME NEW a \in Attempts, AcceptCode(a) PROVE UniqueInv'
  BY <1>8 DEF AcceptCode, external, UniqueInv, Holds, InFlight
<1>9. ASSUME NEW a \in Attempts, CodeIsExchanged(a) PROVE UniqueInv'
  <2>1. /\ UNCHANGED <<tokens, flight>> /\ attempt[a].pc = "exchanging" /\ a \in Attempts
        /\ attempt'[a].token = issued + 1
        /\ \A b \in Attempts \ {a} : attempt'[b] = attempt[b]
    BY <1>9 DEF CodeIsExchanged, durable, TypeOK, AttemptState
  <2>2. /\ tokens # Nothing => tokens.n # issued + 1
        /\ \A o \in Calls : InFlight(o) => flight[o].token # issued + 1
        /\ \A b \in Attempts : Holds(b) => attempt[b].token # issued + 1
    BY NewNumber
  <2>. QED
    BY <2>1, <2>2 DEF UniqueInv, Holds, InFlight
<1>10. ASSUME NEW a \in Attempts, SaveTokens(a) PROVE UniqueInv'
  <2>1. /\ UNCHANGED flight /\ Holds(a)
        /\ tokens' = tokens \/ tokens'.n = attempt[a].token
    BY <1>10 DEF SaveTokens, NewToken, Holds
  <2>2. /\ attempt'[a].pc \in {"idle", "reprobing", "checking"}
        /\ \A b \in Attempts \ {a} : attempt'[b] = attempt[b]
    BY <1>10, EffectOfSave DEF NoAttempt
  <2>. QED
    BY <2>1, <2>2 DEF UniqueInv, Holds, InFlight
<1>11. ASSUME NEW a \in Attempts, Reprobed(a) PROVE UniqueInv'
  BY <1>11 DEF Reprobed, external, Ends, NoAttempt, UniqueInv, Holds, InFlight
<1>12. ASSUME NEW a \in Attempts, OAuthFails(a) PROVE UniqueInv'
  BY <1>12 DEF OAuthFails, history, external, Ends, NoAttempt, UniqueInv, Holds, InFlight
<1>13. ASSUME NEW a \in Attempts, ExchangeFails(a) PROVE UniqueInv'
  BY <1>13 DEF ExchangeFails, durable, external, Ends, NoAttempt, UniqueInv, Holds, InFlight
<1>14. ASSUME NEW c \in Calls, GetConnection(c) PROVE UniqueInv'
  <2>1. UNCHANGED <<tokens, attempt>>
    BY <1>14 DEF GetConnection
  <2>2. ASSUME NEW p \in Calls
        PROVE  \/ flight'[p] = flight[p]
               \/ tokens # Nothing /\ flight'[p].st = "sent" /\ flight'[p].token = tokens.n
    BY <1>14, RefreshThatStarts
  <2>. QED
    BY <2>1, <2>2 DEF UniqueInv, Holds, InFlight
<1>15. ASSUME NEW c \in Calls, CallSetsSession(c) PROVE UniqueInv'
  BY <1>15 DEF CallSetsSession, external, UniqueInv, Holds, InFlight
<1>16. ASSUME NEW c \in Calls, CallEnds(c) PROVE UniqueInv'
  BY <1>16 DEF CallEnds, durable, external, UniqueInv, Holds, InFlight
<1>17. ASSUME NEW c \in Calls, CallRefused(c) PROVE UniqueInv'
  BY <1>17 DEF CallRefused, UniqueInv, Holds, InFlight
<1>18. ASSUME NEW c \in Calls, CallNotified(c) PROVE UniqueInv'
  BY <1>18 DEF CallNotified, external, UniqueInv, Holds, InFlight
<1>19. ASSUME NEW o \in Calls, Redeemed(o) PROVE UniqueInv'
  <2>1. UNCHANGED <<tokens, attempt>> /\ InFlight(o)
    BY <1>19 DEF Redeemed, durable, InFlight
  <2>2. /\ \A p \in Calls \ {o} : flight'[p] = flight[p]
        /\ \/ flight'[o].token = issued + 1
           \/ flight'[o].st = "refused" /\ flight'[o].token = flight[o].token
    BY <1>19, EffectOfRedemption
  <2>3. /\ tokens # Nothing => tokens.n # issued + 1
        /\ \A p \in Calls : InFlight(p) => flight[p].token # issued + 1
        /\ \A b \in Attempts : Holds(b) => attempt[b].token # issued + 1
    BY NewNumber
  <2>. QED
    BY <2>1, <2>2, <2>3 DEF UniqueInv, Holds, InFlight
<1>20. ASSUME NEW o \in Calls, RefreshAnswers(o) PROVE UniqueInv'
  <2>1. flight[o].st = "answered" /\ InFlight(o) /\ UNCHANGED attempt
    BY <1>20 DEF RefreshAnswers, InFlight
  <2>2. tokens' = tokens \/ tokens'.n = flight[o].token
    BY <1>20, EffectOfAnswer DEF NewToken
  <2>3. \A p \in Calls : InFlight(p)' => p # o /\ InFlight(p) /\ flight'[p] = flight[p]
    BY <1>20, EffectOfAnswer DEF InFlight, NoFlight
  <2>4. \A p \in Calls : (flight[p].st = "answered")' => InFlight(p)'
    BY DEF InFlight
  <2>. QED
    BY <2>1, <2>2, <2>3, <2>4 DEF UniqueInv, Holds
<1>21. ASSUME NEW o \in Calls, RefreshFails(o) PROVE UniqueInv'
  BY <1>21 DEF RefreshFails, durable, external, NoFlight, Settles, UniqueInv, Holds, InFlight
<1>22. ASSUME NEW o \in Calls, RefreshRefused(o) PROVE UniqueInv'
  <2>1. UNCHANGED <<tokens, attempt>>
    BY <1>22 DEF RefreshRefused
  <2>2. \A p \in Calls : InFlight(p)' => InFlight(p) /\ flight'[p].token = flight[p].token
    BY <1>22, EffectOfRefusal DEF InFlight, NoFlight
  <2>3. \A p \in Calls : (flight[p].st = "answered")' => flight[p].st = "answered" /\ InFlight(p)'
    BY <1>22, EffectOfRefusal DEF InFlight, NoFlight
  <2>. QED
    BY <2>1, <2>2, <2>3 DEF UniqueInv, Holds
<1>23. ASSUME NEW o \in Calls, RefreshNotified(o) PROVE UniqueInv'
  BY <1>23 DEF RefreshNotified, external, NoFlight, Settles, UniqueInv, Holds, InFlight
<1>24. CASE NonceExpires
  BY <1>24 DEF NonceExpires, external, UniqueInv, Holds, InFlight
<1>25. CASE TokenExpires
  BY <1>25 DEF TokenExpires, external, UniqueInv, Holds, InFlight
<1>26. CASE GrantIsRevoked
  BY <1>26 DEF GrantIsRevoked, durable, UniqueInv, Holds, InFlight
<1>27. CASE Alarm
  BY <1>27 DEF Alarm, external, DeleteAll, UniqueInv, Holds, InFlight
<1>28. CASE Revoke
  BY <1>28 DEF Revoke, durable, external, UniqueInv, Holds, InFlight
<1>29. CASE RevokeEnds
  BY <1>29 DEF RevokeEnds, external, DeleteAll, UniqueInv, Holds, InFlight
<1>30. CASE Restart
  BY <1>30 DEF Restart, NoAttempt, NoFlight, UniqueInv, Holds
<1>31. CASE UNCHANGED vars
  BY <1>31 DEF vars, durable, external, UniqueInv, Holds, InFlight
<1>. QED
  BY <1>1, <1>2, <1>3, <1>4, <1>5, <1>6, <1>7, <1>8, <1>9, <1>10, <1>11, <1>12, <1>13, <1>14,
     <1>15, <1>16, <1>17, <1>18, <1>19, <1>20, <1>21, <1>22, <1>23, <1>24, <1>25, <1>26, <1>27,
     <1>28, <1>29, <1>30, <1>31 DEF Next

\* Only the tokens that a current attempt stores are free of what was to blame before.
Recorded ==
  /\ ~overwritten' => ~overwritten
  /\ (blame /\ ~blame') => \E a \in Attempts : SaveTokens(a) /\ IsCurrent(a)

\* What the history has recorded stays recorded.
LEMMA HistoryStays ==
  ASSUME TypeOK, [Next]_vars
  PROVE  Recorded
<1>1. ASSUME NEW a \in Attempts, PrepareReconnect(a)
      PROVE  Recorded
  BY <1>1 DEF PrepareReconnect, Recorded
<1>2. ASSUME NEW a \in Attempts, NEW to \in Server, NEW by \in {"user", "deployment"}, ConnectBegins(a, to, by)
      PROVE  Recorded
  BY <1>2 DEF ConnectBegins, Recorded
<1>3. ASSUME NEW a \in Attempts, ProbeAnswers(a)
      PROVE  Recorded
  BY <1>3 DEF ProbeAnswers, history, Recorded
<1>4. ASSUME NEW a \in Attempts, ProbeChallenges(a)
      PROVE  Recorded
  BY <1>4 DEF ProbeChallenges, Recorded
<1>5. ASSUME NEW a \in Attempts, ProbeFails(a)
      PROVE  Recorded
  BY <1>5 DEF ProbeFails, history, Recorded
<1>6. ASSUME NEW a \in Attempts, Redirects(a)
      PROVE  Recorded
  BY <1>6 DEF Redirects, Recorded
<1>7. ASSUME NEW a \in Attempts, Redeems(a)
      PROVE  Recorded
  BY <1>7 DEF Redeems, Recorded
<1>8. ASSUME NEW a \in Attempts, AcceptCode(a)
      PROVE  Recorded
  BY <1>8 DEF AcceptCode, history, Recorded
<1>9. ASSUME NEW a \in Attempts, CodeIsExchanged(a)
      PROVE  Recorded
  BY <1>9 DEF CodeIsExchanged, history, Recorded
<1>10. ASSUME NEW a \in Attempts, SaveTokens(a)
      PROVE  Recorded
  BY <1>10 DEF SaveTokens, Recorded
<1>11. ASSUME NEW a \in Attempts, Reprobed(a)
      PROVE  Recorded
  BY <1>11 DEF Reprobed, history, Recorded
<1>12. ASSUME NEW a \in Attempts, OAuthFails(a)
      PROVE  Recorded
  BY <1>12 DEF OAuthFails, history, Recorded
<1>13. ASSUME NEW a \in Attempts, ExchangeFails(a)
      PROVE  Recorded
  BY <1>13 DEF ExchangeFails, history, Recorded
<1>14. ASSUME NEW c \in Calls, GetConnection(c)
      PROVE  Recorded
  BY <1>14 DEF GetConnection, history, Recorded
<1>15. ASSUME NEW c \in Calls, CallSetsSession(c)
      PROVE  Recorded
  BY <1>15 DEF CallSetsSession, history, Recorded
<1>16. ASSUME NEW c \in Calls, CallEnds(c)
      PROVE  Recorded
  BY <1>16 DEF CallEnds, history, Recorded
<1>17. ASSUME NEW c \in Calls, CallRefused(c)
      PROVE  Recorded
  BY <1>17 DEF CallRefused, Recorded
<1>18. ASSUME NEW c \in Calls, CallNotified(c)
      PROVE  Recorded
  BY <1>18 DEF CallNotified, Recorded
<1>19. ASSUME NEW o \in Calls, Redeemed(o)
      PROVE  Recorded
  BY <1>19 DEF Redeemed, Recorded
<1>20. ASSUME NEW o \in Calls, RefreshAnswers(o)
      PROVE  Recorded
  BY <1>20 DEF RefreshAnswers, history, Recorded
<1>21. ASSUME NEW o \in Calls, RefreshFails(o)
      PROVE  Recorded
  BY <1>21 DEF RefreshFails, Recorded
<1>22. ASSUME NEW o \in Calls, RefreshRefused(o)
      PROVE  Recorded
  BY <1>22 DEF RefreshRefused, history, Recorded
<1>23. ASSUME NEW o \in Calls, RefreshNotified(o)
      PROVE  Recorded
  BY <1>23 DEF RefreshNotified, Recorded
<1>24. CASE NonceExpires
  BY <1>24 DEF NonceExpires, history, Recorded
<1>25. CASE TokenExpires
  BY <1>25 DEF TokenExpires, history, Recorded
<1>26. CASE GrantIsRevoked
  BY <1>26 DEF GrantIsRevoked, Recorded
<1>27. CASE Alarm
  BY <1>27 DEF Alarm, history, Recorded
<1>28. CASE Revoke
  BY <1>28 DEF Revoke, history, Recorded
<1>29. CASE RevokeEnds
  BY <1>29 DEF RevokeEnds, history, Recorded
<1>30. CASE Restart
  BY <1>30 DEF Restart, Recorded
<1>31. CASE UNCHANGED vars
  BY <1>31 DEF vars, history, Recorded
<1>. QED
  BY <1>1, <1>2, <1>3, <1>4, <1>5, <1>6, <1>7, <1>8, <1>9, <1>10, <1>11, <1>12, <1>13, <1>14,
     <1>15, <1>16, <1>17, <1>18, <1>19, <1>20, <1>21, <1>22, <1>23, <1>24, <1>25, <1>26, <1>27,
     <1>28, <1>29, <1>30, <1>31 DEF Next

\* A healthy account stays so, or it is known why not.
LEMMA HealthStep ==
  ASSUME TypeOK, LifeInv, FlightsInv, EndpointsInv, NumbersInv, UniqueInv, HealthInv, [Next]_vars
  PROVE  HealthInv'
<1>1. SUFFICES ASSUME ~blame', ~overwritten' PROVE TokensSound' /\ RefreshSound'
  BY DEF HealthInv
<1>2. ~overwritten
  BY <1>1, HistoryStays DEF Recorded
<1>3. CASE blame
  <2>1. PICK a \in Attempts : SaveTokens(a) /\ IsCurrent(a)
    BY <1>1, <1>3, HistoryStays DEF Recorded
  <2>. QED
    BY <1>1, <1>2, <2>1, SaveIsHealthy
<1>4. CASE ~blame
  <2>1. TokensSound /\ RefreshSound
    BY <1>2, <1>4 DEF HealthInv
  <2>. QED
    BY <1>1, <1>2, <1>4, <2>1, TokensStep, RefreshStep
<1>. QED
  BY <1>3, <1>4
-----------------------------------------------------------------------------
(* The theorems *)

\* The invariant holds before anything has happened.
LEMMA InitInv ==
  ASSUME Init
  PROVE  IInv
<1>1. TypeOK
  <2>1. nonce \in Nonce /\ flags \subseteq {"callback", "connected", "reconnecting", "alarm"}
    BY AccountAssumption DEF Init, Nonce
  <2>2. /\ attempt \in [Attempts -> AttemptState] /\ call \in [Calls -> CallState]
        /\ flight \in [Calls -> FlightState]
    BY AbsentTypes DEF Init
  <2>3. generation \in Generations /\ issued \in 0..MaxTokens
    BY AccountAssumption DEF Init, Generations
  <2>4. accepted \subseteq Numbers /\ used \subseteq Attempts
    BY AccountAssumption DEF Init
  <2>. QED
    BY <2>1, <2>2, <2>3, <2>4 DEF Init, TypeOK
<1>2. /\ \A a \in Attempts : attempt[a] = NoAttempt
      /\ \A c \in Calls : call[c] = NoCall /\ flight[c] = NoFlight
  BY DEF Init
<1>3. LifeInv
  BY <1>2, AccountAssumption DEF Init, LifeInv, CapturesInv, AbsentInv, UnconnectedInv, ServerInv,
     Busy, InFlight, Working, NoAttempt, NoCall, NoFlight
<1>4. FlightsInv /\ EndpointsInv /\ StoredForServer
  BY <1>2 DEF Init, FlightsInv, EndpointsInv, StoredForServer, InFlight, NoCall, NoFlight
<1>5. ClaimInv /\ NumbersInv
  BY <1>2 DEF Init, ClaimInv, ClaimIsReleased, NumbersInv, NoAttempt, NoFlight
<1>6. UniqueInv /\ HealthInv
  BY <1>2 DEF Init, UniqueInv, Holds, HealthInv, TokensSound, RefreshSound, InFlight, NoAttempt,
     NoFlight
<1>. QED
  BY <1>1, <1>3, <1>4, <1>5, <1>6 DEF IInv

\* The invariant is inductive: every state of the account, with whatever awaits in
\* it, satisfies it.
THEOREM InductiveInvariant == Spec => []IInv
<1>1. IInv /\ [Next]_vars => IInv'
  <2>1. SUFFICES ASSUME IInv, [Next]_vars PROVE IInv'
    OBVIOUS
  <2>2. /\ TypeOK /\ LifeInv /\ FlightsInv /\ EndpointsInv /\ StoredForServer
        /\ ClaimInv /\ NumbersInv /\ UniqueInv /\ HealthInv
    BY <2>1 DEF IInv
  <2>3. TypeOK'
    BY <2>1, <2>2, TypesStep DEF LifeInv
  <2>4. LifeInv'
    BY <2>1, <2>2, CapturesStep, AbsentStep, UnconnectedStep, ServerStep DEF LifeInv
  <2>5. FlightsInv' /\ EndpointsInv' /\ StoredForServer'
    BY <2>1, <2>2, FlightsStep, EndpointsStep, StoredStep
  <2>6. ClaimInv' /\ NumbersInv'
    BY <2>1, <2>2, ClaimStep, NumbersStep
  <2>7. UniqueInv' /\ HealthInv'
    BY <2>1, <2>2, UniqueStep, HealthStep
  <2>. QED
    BY <2>3, <2>4, <2>5, <2>6, <2>7 DEF IInv
<1>. QED
  BY <1>1, InitInv, PTL DEF Spec

\* What the account stores, and what its calls were given, is for the endpoint that
\* it is connected to: a reconnect or a repoint leaves nothing of the endpoint before.
THEOREM CredentialsStayHome == Spec => []StoredForServer
<1>1. IInv => StoredForServer
  BY DEF IInv
<1>. QED
  BY <1>1, InductiveInvariant, PTL

\* A healthy account is not reported expired: the stored refresh token is accepted
\* or its successor is on its way, and nothing but a call with another bearer told
\* the Workshop otherwise, whatever reconnects, refreshes and calls overlap.
THEOREM HealthyAccountsStay == Spec => []HealthyIsNotExpired
<1>1. IInv => HealthyIsNotExpired
  <2>1. SUFFICES ASSUME IInv, server # Nothing, Life # "spent", ~blame, ~overwritten
                 PROVE  (tokens.n \in accepted \/ AnswerIsComing) /\ (notified => misled)
    BY DEF HealthyIsNotExpired
  <2>2. tokens # Nothing /\ tokens.life # "spent"
    BY <2>1 DEF Life
  <2>3. TokensSound /\ EndpointsInv
    BY <2>1 DEF IInv, HealthInv
  <2>4. ASSUME NEW o \in Calls, flight[o].st = "answered", flight[o].gen = generation
        PROVE  FlightIsCurrent(o)
    BY <2>1, <2>3, <2>4 DEF EndpointsInv, InFlight, FlightIsCurrent, Current
  <2>. QED
    BY <2>2, <2>3, <2>4 DEF TokensSound, AnswerIsComing
<1>. QED
  BY <1>1, InductiveInvariant, PTL

\* The link of an attempt that failed can be used again.
THEOREM LinksAreReleased == Spec => []ClaimIsReleased
<1>1. IInv => ClaimIsReleased
  BY DEF IInv, ClaimInv
<1>. QED
  BY <1>1, InductiveInvariant, PTL
=============================================================================
