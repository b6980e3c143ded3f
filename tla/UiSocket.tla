------------------------------ MODULE UiSocket ------------------------------
(***************************************************************************)
(* The WebSocket of bzy-ui (src/api/ws.ts, hooks/useWS.ts, store/ws.ts):   *)
(* one client for the page, which the layout connects when it is mounted   *)
(* and disconnects when it is unmounted (signing out, and, as main.tsx has *)
(* StrictMode, once at once in a development build).                       *)
(*                                                                         *)
(* An action is an event of the page: what the browser does about a socket *)
(* changes its state and calls the client's handlers in one task.  "failed"*)
(* is a socket closed before it was open, whose end is always an error.    *)
(***************************************************************************)
EXTENDS Naturals, FiniteSets

CONSTANTS
  Sockets,    \* bound: WebSockets the client makes, each used once
  NoSocket    \* null

ASSUME SocketAssumption == NoSocket \notin Sockets

VARIABLES
  mounted,    \* the layout is
  socket,     \* this.ws
  ready,      \* readyState of each socket
  again,      \* this.shouldReconnect
  retryTimer, \* this.reconnectTimer, as the socket whose end set it
  retries,    \* timers set by the end of a socket that have not fired
  pingTimer,  \* this.pingTimer, as the socket whose start set it
  pings,      \* intervals that run
  connected   \* what the sidebar shows

socketVars == <<mounted, socket, ready, again, retryTimer, retries, pingTimer, pings, connected>>

SocketTypeOK ==
  /\ mounted \in BOOLEAN /\ again \in BOOLEAN /\ connected \in BOOLEAN
  /\ {socket, retryTimer, pingTimer} \subseteq Sockets \cup {NoSocket}
  /\ ready \in [Sockets -> {"unused", "connecting", "open", "closing", "failed", "closed"}]
  /\ retries \subseteq Sockets /\ pings \subseteq Sockets

SocketInit ==
  /\ mounted = FALSE /\ again = TRUE /\ connected = FALSE
  /\ socket = NoSocket /\ retryTimer = NoSocket /\ pingTimer = NoSocket
  /\ ready = [s \in Sockets |-> "unused"]
  /\ retries = {} /\ pings = {}

-----------------------------------------------------------------------------
(* BzyWebSocket                                                            *)

Unused == {s \in Sockets : ready[s] = "unused"}
IsOpen == socket # NoSocket /\ ready[socket] = "open"

\* A socket that is still connecting, or closing, is replaced.
ConnectSocket ==
  IF IsOpen
    THEN UNCHANGED <<socket, ready>>
    ELSE /\ Unused # {}
         /\ socket' = CHOOSE s \in Unused : TRUE
         /\ ready' = [ready EXCEPT ![socket'] = "connecting"]

\* What close() makes of a socket in this state.
AfterClose(r) == IF r = "connecting" THEN "failed" ELSE IF r = "open" THEN "closing" ELSE r

\* The interval pingTimer holds is cleared; it may have been before.
StopPing == pings' = pings \ {pingTimer}

\* onopen
Opens(s) ==
  /\ ready[s] = "connecting"
  /\ ready' = [ready EXCEPT ![s] = "open"]
  /\ pingTimer' = s /\ pings' = pings \cup {s}
  /\ connected' = TRUE
  /\ UNCHANGED <<mounted, socket, again, retryTimer, retries>>

\* onclose, and before it, if the socket failed, onerror, which closes the
\* client's socket, be it this one (that is closed) or the one that replaced it.
Closes(s, failed) ==
  /\ ready[s] \in {"connecting", "open", "closing", "failed"}
  /\ ready[s] \in {"connecting", "failed"} => failed
  /\ ready' = [t \in Sockets |-> IF t = s THEN "closed"
                                  ELSE IF failed /\ t = socket THEN AfterClose(ready[t])
                                  ELSE ready[t]]
  /\ StopPing
  /\ connected' = FALSE
  /\ retryTimer' = IF again THEN s ELSE retryTimer
  /\ retries' = IF again THEN retries \cup {s} ELSE retries
  /\ UNCHANGED <<mounted, socket, again, pingTimer>>

\* Variant for mutation: the timer only makes up its mind to wait longer.
RetryNever(s) ==
  /\ s \in retries
  /\ retries' = retries \ {s}
  /\ UNCHANGED <<mounted, socket, ready, again, retryTimer, pingTimer, pings, connected>>

\* The timer of reconnectDelay.
Retry(s) ==
  /\ s \in retries
  /\ retries' = retries \ {s}
  /\ ConnectSocket
  /\ UNCHANGED <<mounted, again, retryTimer, pingTimer, pings, connected>>

-----------------------------------------------------------------------------
(* useWS                                                                   *)

Mount ==
  /\ ~mounted /\ mounted' = TRUE
  /\ ConnectSocket
  /\ UNCHANGED <<again, retryTimer, retries, pingTimer, pings, connected>>

\* Variant for mutation: disconnect leaves the timer alone.
UnmountKeepsTimer ==
  /\ mounted /\ mounted' = FALSE
  /\ again' = FALSE
  /\ StopPing
  /\ ready' = [s \in Sockets |-> IF s = socket THEN AfterClose(ready[s]) ELSE ready[s]]
  /\ UNCHANGED <<socket, retryTimer, retries, pingTimer, connected>>

\* disconnect; nothing sets shouldReconnect again.
Unmount ==
  /\ mounted /\ mounted' = FALSE
  /\ again' = FALSE
  /\ StopPing
  /\ retries' = retries \ {retryTimer}
  /\ ready' = [s \in Sockets |-> IF s = socket THEN AfterClose(ready[s]) ELSE ready[s]]
  /\ UNCHANGED <<socket, retryTimer, pingTimer, connected>>

-----------------------------------------------------------------------------
SocketNext ==
  \/ Mount \/ Unmount
  \/ \E s \in Sockets : Opens(s) \/ Retry(s) \/ \E failed \in BOOLEAN : Closes(s, failed)

\* Timers fire and a socket that was closed ends; no server has to accept one.
SocketFairness ==
  \A s \in Sockets :
    /\ WF_socketVars(Retry(s))
    /\ WF_socketVars(ready[s] \in {"closing", "failed"} /\ \E failed \in BOOLEAN : Closes(s, failed))

-----------------------------------------------------------------------------
(* Properties                                                              *)

\* However connections, timers and the layout come and go: no message is
\* handled twice, by two sockets that are open at a time; the sidebar shows a
\* connection only while a socket is open or closing, and no ping interval
\* outlives it.  Until the layout is unmounted for the first time the sidebar
\* shows a connection exactly while one is open, and that one is pinged; after
\* that the end of a socket that was replaced may hide an open one and stop its
\* pings (ws.ts:49).
OneConnection ==
  /\ Cardinality({s \in Sockets : ready[s] \in {"connecting", "open"}}) <= 1
  /\ connected => \E s \in Sockets : ready[s] \in {"open", "closing"}
  /\ Cardinality(pings) <= 1
  /\ pings # {} => \E s \in Sockets : ready[s] \in {"open", "closing"}
  /\ again => LET open == {s \in Sockets : ready[s] = "open"} IN
                (connected <=> open # {}) /\ pings = open

\* A page whose layout has been mounted once and stays has a connection, or
\* tries for one, again and again.  Once it was unmounted it does so no more:
\* a connection that is lost after that is not made again (ws.ts:86), nor is
\* the one that the error of its predecessor closed (ws.ts:60).
Reconnects ==
  again /\ mounted ~> \/ \E s \in Sockets : ready[s] \in {"connecting", "open"}
                      \/ ~again \/ Unused = {}
=============================================================================
