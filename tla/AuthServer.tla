----------------------------- MODULE AuthServer -----------------------------
(***************************************************************************)
(* What bzy-interface answers to its clients about tokens: JWTService      *)
(* (internal/auth/jwt.go), the login and refresh handlers                  *)
(* (internal/httpserver/server.go) and RequireAuth                         *)
(* (internal/middleware/middleware.go).  The server keeps no token: what a *)
(* request is answered depends on the token it carries and on the time of  *)
(* its arrival.                                                            *)
(*                                                                         *)
(* A signed token is reduced to its expiry: both tokens of a pair are      *)
(* signed alike, and Validate takes either for the other.                  *)
(***************************************************************************)
EXTENDS Integers

CONSTANTS
  AccessExpiry,    \* life of an access token (24 h)
  RefreshExpiry,   \* life of a refresh token (7 days)
  Second,          \* units of time in a second
  NoToken

ASSUME ExpiryAssumption ==
  AccessExpiry \in Nat \ {0} /\ RefreshExpiry \in Nat \ {0} /\ Second \in Nat \ {0}
  /\ NoToken \notin [exp : Nat]

VARIABLE now   \* the time, for server and clients alike

Tokens == [exp : Nat]
Pairs == [access : Tokens \cup {NoToken}, refresh : Tokens \cup {NoToken}, expiry : Nat]
NoPair == [access |-> NoToken, refresh |-> NoToken, expiry |-> 0]

\* A token says its expiry in whole seconds, rounded down.
NumericDate(t) == t - (t % Second)

\* The pair's own expiry is exact.
Issue ==
  [access  |-> [exp |-> NumericDate(now + AccessExpiry)],
   refresh |-> [exp |-> NumericDate(now + RefreshExpiry)],
   expiry  |-> now + AccessExpiry]

Validate(token) == token # NoToken /\ now < token.exp

Answer(code, pair) == [code |-> code, pair |-> pair]

\* Variant for mutation: the new pair lives as long as the old token.
HandleRefreshOld(token) ==
  IF Validate(token)
    THEN Answer(200, [Issue EXCEPT !.access.exp = token.exp])
    ELSE Answer(IF token = NoToken THEN 400 ELSE 401, NoPair)

HandleRefresh(token) ==
  IF Validate(token) THEN Answer(200, Issue)
                     ELSE Answer(IF token = NoToken THEN 400 ELSE 401, NoPair)

\* The database may know the user, not know it, or fail.
HandleLogin == {Answer(200, Issue), Answer(401, NoPair), Answer(500, NoPair)}

RequireAuth(token) == IF Validate(token) THEN Answer(200, NoPair) ELSE Answer(401, NoPair)
RateLimited == Answer(429, NoPair)
=============================================================================
