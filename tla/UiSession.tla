------------------------------ MODULE UiSession ------------------------------
(***************************************************************************)
(* The session of a page of bzy-ui (src/api/client.ts and auth.ts): a      *)
(* store with one pair of tokens, kept in localStorage as well, requests   *)
(* that carry the access token, and a refresh that runs when one of them   *)
(* finds the token expired, once for all that find it so meanwhile.        *)
(*                                                                         *)
(* The page runs one task at a time: an action is what runs from one await *)
(* to the next.  The refresh sends its own request the way the others are  *)
(* sent.  A token is "stale" within a minute of its expiry and after it.   *)
(***************************************************************************)
CONSTANTS Requests   \* requests under way at one time

VARIABLES
  session,     \* the tokens in the store: "none", "fresh" or "stale"
  refreshing,  \* _refreshPromise: "none", or where doRefresh is
  requests     \* what each request is, where it is, and what it was sent with

uiVars == <<session, refreshing, requests>>

NoRequest == [kind |-> "api", at |-> "idle", with |-> "none"]

UiTypeOK ==
  /\ session \in {"none", "fresh", "stale"}
  /\ refreshing \in {"none", "import", "itself", "fetch"}
  /\ requests \in [Requests -> [kind : {"api", "login"}, at : {"idle", "headers", "waiting", "fetch"},
                                with : {"none", "fresh", "stale"}]]

UiInit ==
  /\ session = "none" /\ refreshing = "none"
  /\ requests = [r \in Requests |-> NoRequest]

Waiting(r) == requests[r].at = "waiting"

-----------------------------------------------------------------------------
(* request                                                                 *)

\* By a component of the page, or by the login form.
Begins(r, kind) ==
  /\ requests[r].at = "idle"
  /\ requests' = [requests EXCEPT ![r] = [kind |-> kind, at |-> "headers", with |-> "none"]]
  /\ UNCHANGED <<session, refreshing>>

Fetch(r) == requests' = [requests EXCEPT ![r].at = "fetch", ![r].with = session]

\* Variant for mutation: any token will do.
HeadersAnyToken(r) ==
  /\ requests[r].at = "headers"
  /\ Fetch(r)
  /\ UNCHANGED <<session, refreshing>>

\* authHeaders, with ensureFresh: the first to find the token stale starts the
\* refresh, and all wait for it.
AuthHeaders(r) ==
  /\ requests[r].at = "headers"
  /\ IF session = "stale"
       THEN /\ requests' = [requests EXCEPT ![r].at = "waiting"]
            /\ refreshing' = IF refreshing = "none" THEN "import" ELSE refreshing
       ELSE Fetch(r) /\ UNCHANGED refreshing
  /\ UNCHANGED session

\* login puts the pair into the store.
Succeeds(r) ==
  /\ requests[r].at = "fetch"
  /\ session' = IF requests[r].kind = "login" THEN "fresh" ELSE session
  /\ requests' = [requests EXCEPT ![r] = NoRequest]
  /\ UNCHANGED refreshing

Fails(r) ==
  /\ requests[r].at = "fetch"
  /\ requests' = [requests EXCEPT ![r] = NoRequest]
  /\ UNCHANGED <<session, refreshing>>

-----------------------------------------------------------------------------
(* doRefresh                                                               *)

\* The module is loaded, and refresh sends its request, whose authHeaders waits
\* for _refreshPromise if the token is stale still.
Imported ==
  /\ refreshing = "import"
  /\ refreshing' = IF session = "stale" THEN "itself" ELSE "fetch"
  /\ UNCHANGED <<session, requests>>

\* _refreshPromise is settled: those that wait are sent with what is stored.
Settles(pair) ==
  /\ session' = pair /\ refreshing' = "none"
  /\ requests' = [r \in Requests |-> IF Waiting(r)
                                       THEN [requests[r] EXCEPT !.at = "fetch", !.with = pair]
                                       ELSE requests[r]]

\* Variant for mutation: the promise is left as it is, and nobody told.
RefreshedQuietly ==
  /\ refreshing = "fetch"
  /\ session' = "fresh"
  /\ UNCHANGED <<refreshing, requests>>

Refreshed ==
  /\ refreshing = "fetch"
  /\ Settles("fresh")

\* The tokens are cleared, whichever they are, and the page goes to /login,
\* which is a Reload.
RefreshRefused ==
  /\ refreshing = "fetch"
  /\ Settles("none")

-----------------------------------------------------------------------------
(* The user and the time                                                   *)

Logout ==
  /\ session' = "none"
  /\ UNCHANGED <<refreshing, requests>>

Ages ==
  /\ session = "fresh"
  /\ session' = "stale"
  /\ UNCHANGED <<refreshing, requests>>

\* The page is loaded anew: the store comes from localStorage.
Reload ==
  /\ refreshing' = "none"
  /\ requests' = [r \in Requests |-> NoRequest]
  /\ UNCHANGED session

-----------------------------------------------------------------------------
UiStep(r) == AuthHeaders(r) \/ Succeeds(r) \/ Fails(r)
RefreshStep == Imported \/ Refreshed \/ RefreshRefused

UiNext ==
  \/ Logout \/ Ages \/ Reload \/ RefreshStep
  \/ \E r \in Requests : UiStep(r) \/ (\E kind \in {"api", "login"} : Begins(r, kind))

\* Tasks of the page run and fetch ends.
UiFairness == WF_uiVars(RefreshStep) /\ \A r \in Requests : WF_uiVars(UiStep(r))

-----------------------------------------------------------------------------
(* Properties                                                              *)

\* A request is sent with a token that is good for a minute, or with none; and
\* one that waits is never left behind by the refresh it waits for.
UiSendsFresh ==
  \A r \in Requests :
    /\ requests[r].at = "fetch" => requests[r].with # "stale"
    /\ Waiting(r) => refreshing # "none"

\* Every request returns, but for those that wait for a refresh which waits for
\* itself: a page whose token is stale when the refresh sends its request gets
\* none through again before it is reloaded or the user logs out.
UiReturns ==
  \A r \in Requests :
    requests[r].at # "idle" ~> (requests[r].at = "idle" \/ (Waiting(r) /\ refreshing = "itself"))
=============================================================================
