-------------------------------- MODULE Session --------------------------------
(***************************************************************************)
(* The session of the device: the tokens of AuthService.ts, and the        *)
(* interceptors of client.ts that answer a 401 by refreshing the access    *)
(* token.  The refresh is a request of the same client, so that a 401 to   *)
(* it is answered by another refresh, inside the first.  Each write of the *)
(* secure store is awaited, and others run in between; none of them fails. *)
(***************************************************************************)
EXTENDS Naturals

CONSTANTS
  Calls,          \* requests of the app
  MaxDepth,       \* bound: refreshes inside one another that are told apart
  MaxLaunches     \* bound: starts of the app

VARIABLES
  storedAccess,   \* SECURE_STORE_TOKEN_KEY
  storedRefresh,  \* SECURE_STORE_REFRESH_KEY
  accessToken,    \* of the client
  refresher,      \* onTokenRefresh is set
  user,           \* the login or logout the user has under way
  call,           \* the requests under way
  launches        \* starts of the app

tokens == <<storedAccess, storedRefresh, accessToken, refresher>>
vars == <<tokens, user, call, launches>>

Token == {"none", "good", "stale"}

\* depth: the refreshes that a call has under way, each waiting for the next.
\* carries: the token of the innermost request, or the access token that a
\* refresh was given.  again: it has its _retry mark.  step: of what it stores or
\* deletes, the next to do.
\* part: a plain request, or, of restoreSession, the first getMe, the refresh
\* when that has failed, or the second getMe.
Call == [at : {"idle", "wait", "read", "store", "drop"}, depth : 0 .. MaxDepth,
         carries : Token, again : BOOLEAN, step : 1 .. 3,
         part : {"plain", "first", "refresh", "second"}]

NoCall == [at |-> "idle", depth |-> 0, carries |-> "none", again |-> FALSE, step |-> 1,
           part |-> "plain"]

\* step: what comes next, or 0 when there is nothing under way.
User == [step : 0 .. 3, access : Token, refresh : Token]

NoUser == [step |-> 0, access |-> "none", refresh |-> "none"]

TypeOK ==
  /\ {storedAccess, storedRefresh, accessToken} \subseteq Token
  /\ refresher \in BOOLEAN
  /\ user \in User
  /\ call \in [Calls -> Call]
  /\ launches \in 0 .. MaxLaunches

Init ==
  /\ storedAccess = "none" /\ storedRefresh = "none" /\ accessToken = "none"
  /\ refresher = FALSE
  /\ user = NoUser
  /\ call = [c \in Calls |-> NoCall]
  /\ launches = 0

\* Login and logout change the two items of the secure store, one after the
\* other, and then the client.
SetTokens(step, access, refresh) ==
  /\ storedAccess' = IF step = 1 THEN access ELSE storedAccess
  /\ storedRefresh' = IF step = 2 THEN refresh ELSE storedRefresh
  /\ accessToken' = IF step = 3 THEN access ELSE accessToken
  /\ refresher' = IF step = 3 THEN access # "none" ELSE refresher

\* The server has answered with tokens, to a user without a session.
Login == /\ user.step = 0 /\ ~refresher
         /\ user' = [step |-> 1, access |-> "good", refresh |-> "good"]
         /\ UNCHANGED <<tokens, call, launches>>

Logout == /\ user.step = 0
          /\ user' = [NoUser EXCEPT !.step = 1]
          /\ UNCHANGED <<tokens, call, launches>>

UserStep == /\ user.step > 0
            /\ SetTokens(user.step, user.access, user.refresh)
            /\ user' = IF user.step = 3 THEN NoUser ELSE [user EXCEPT !.step = @ + 1]
            /\ UNCHANGED <<call, launches>>

\* The tokens run out, those under way as well: of an outer refresh, the token
\* was refused already.
Expired(t) == IF t = "good" THEN "stale" ELSE t

HoldsAccess(k) == k.depth = 0 \/ k.at = "store"

AccessExpires ==
  /\ storedAccess' = Expired(storedAccess) /\ accessToken' = Expired(accessToken)
  /\ user' = [user EXCEPT !.access = Expired(@)]
  /\ call' = [c \in Calls |-> IF HoldsAccess(call[c])
                              THEN [call[c] EXCEPT !.carries = Expired(@)] ELSE call[c]]
  /\ UNCHANGED <<storedRefresh, refresher, launches>>

RefreshExpires ==
  /\ storedRefresh' = Expired(storedRefresh)
  /\ user' = [user EXCEPT !.refresh = Expired(@)]
  /\ call' = [c \in Calls |-> IF HoldsAccess(call[c]) THEN call[c]
                              ELSE [call[c] EXCEPT !.carries = Expired(@)]]
  /\ UNCHANGED <<storedAccess, accessToken, refresher, launches>>

-----------------------------------------------------------------------------
Request(part, token) ==
  [NoCall EXCEPT !.at = "wait", !.carries = token, !.part = part]

Send(c) ==
  /\ call[c].at = "idle"
  /\ call' = [call EXCEPT ![c] = Request("plain", accessToken)]
  /\ UNCHANGED <<tokens, user, launches>>

\* The app is started anew, whatever was under way, and restores the session.
RestoreSession(c) ==
  LET known == "none" \notin {storedAccess, storedRefresh} IN
  /\ launches < MaxLaunches /\ launches' = launches + 1
  /\ accessToken' = IF known THEN storedAccess ELSE "none"
  /\ refresher' = known
  /\ user' = NoUser
  /\ call' = [q \in Calls |-> IF known /\ q = c THEN Request("first", storedAccess) ELSE NoCall]
  /\ UNCHANGED <<storedAccess, storedRefresh>>

\* One refresh more: MaxDepth stands for that many or more.
Deeper(n) == IF n = MaxDepth THEN n ELSE n + 1

Shallower(n) == IF n = MaxDepth THEN {n, n - 1} ELSE {n - 1}

\* The innermost request fails.  A refresh then logs out; restoreSession has a
\* refresh of its own to try; any other request fails.
Rejected(k) ==
  IF k.depth > 0 THEN [k EXCEPT !.at = "drop", !.step = 1]
  ELSE IF k.part = "first"
       THEN [k EXCEPT !.at = "read", !.depth = 1, !.part = "refresh"]
       ELSE NoCall

\* The refresh k has ended without a token, and with it the request it was for.
WithoutToken(k) ==
  {Rejected([k EXCEPT !.depth = n]) : n \in Shallower(k.depth)}

\* The server accepts the token.
Accepted(c) ==
  /\ call[c].at = "wait" /\ call[c].carries = "good"
  /\ call' = [call EXCEPT ![c] = IF @.depth = 0 THEN NoCall
                                       ELSE [@ EXCEPT !.at = "store", !.step = 1]]
  /\ UNCHANGED <<tokens, user, launches>>

\* 401: a request that has not been retried is, after a refresh.
Refused(c) ==
  /\ call[c].at = "wait" /\ call[c].carries # "good"
  /\ call' = [call EXCEPT ![c] =
       IF ~@.again /\ refresher
       THEN [@ EXCEPT !.at = "read", !.depth = Deeper(@)]
       ELSE Rejected(@)]
  /\ UNCHANGED <<tokens, user, launches>>

\* No answer: the request fails as well.
NetworkError(c) ==
  /\ call[c].at = "wait"
  /\ call' = [call EXCEPT ![c] = Rejected(@)]
  /\ UNCHANGED <<tokens, user, launches>>

\* refreshAccessToken reads the refresh token and posts it.
PostRefresh(c) ==
  /\ call[c].at = "read"
  /\ IF storedRefresh = "none"
     THEN \E k \in WithoutToken(call[c]) : call' = [call EXCEPT ![c] = k]
     ELSE call' = [call EXCEPT ![c] = [@ EXCEPT !.at = "wait", !.carries = storedRefresh,
                                               !.again = FALSE]]
  /\ UNCHANGED <<tokens, user, launches>>

\* It stores the new token, hands it to the client and returns it: what was
\* refused is sent again, a refresh with the same refresh token; restoreSession
\* sends a new getMe.
StoreToken(c) ==
  /\ call[c].at = "store" /\ call[c].step = 1
  /\ storedAccess' = call[c].carries
  /\ call' = [call EXCEPT ![c].step = 2]
  /\ UNCHANGED <<storedRefresh, accessToken, refresher, user, launches>>

ReturnToken(c) ==
  /\ call[c].at = "store" /\ call[c].step = 2
  /\ accessToken' = call[c].carries
  /\ \E n \in Shallower(call[c].depth) :
       LET anew == n = 0 /\ call[c].part = "refresh" IN
       call' = [call EXCEPT ![c] =
         [@ EXCEPT !.at = "wait", !.depth = n, !.again = ~anew,
                   !.part = IF anew THEN "second" ELSE @,
                   !.carries = IF n = 0 THEN @ ELSE "stale"]]
  /\ UNCHANGED <<storedAccess, storedRefresh, refresher, user, launches>>

\* It has failed, and logs out.
LogOutAfter(c) ==
  /\ call[c].at = "drop"
  /\ SetTokens(call[c].step, "none", "none")
  /\ IF call[c].step < 3 THEN call' = [call EXCEPT ![c].step = @ + 1]
     ELSE \E k \in WithoutToken(call[c]) : call' = [call EXCEPT ![c] = k]
  /\ UNCHANGED <<user, launches>>

Answer(c) == Accepted(c) \/ Refused(c) \/ NetworkError(c)

Work(c) == PostRefresh(c) \/ StoreToken(c) \/ ReturnToken(c) \/ LogOutAfter(c)

Next ==
  \/ Login \/ Logout \/ UserStep \/ AccessExpires \/ RefreshExpires
  \/ \E c \in Calls : Send(c) \/ RestoreSession(c) \/ Answer(c) \/ Work(c)

\* Every request is answered or times out, and the app goes on with it, and with
\* what the user has asked for.
Spec == /\ Init /\ [][Next]_vars /\ WF_vars(UserStep)
        /\ \A c \in Calls : WF_vars(Answer(c)) /\ WF_vars(Work(c))

-----------------------------------------------------------------------------
\* A refresh token that the server does not accept any more, found out when a
\* refresh is tried with it, leads to the login screen: the tokens are deleted,
\* and the catch of refreshAccessToken (AuthService.ts:183) is reached.
RefusedMeansLoggedOut ==
  \A c \in Calls :
    (call[c].depth > 0 /\ call[c].carries = "stale") ~> storedRefresh # "stale"
=============================================================================
