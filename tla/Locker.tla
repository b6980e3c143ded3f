------------------------------- MODULE Locker -------------------------------
(***************************************************************************)
(* The distributed lock of bzy-runner (internal/locks/locks.go): one Redis *)
(* key holding a token with a time to live, and the clients that acquire,  *)
(* extend and release it.  Different lock names are different keys and     *)
(* never interact, so one key is enough.                                   *)
(*                                                                         *)
(* Time is kept in timers that Tick counts down together.  A command takes *)
(* effect on the server at any moment between its call and its return; one *)
(* that fails (a timeout, a broken connection) may have run before, may    *)
(* never run, or may still run later.                                      *)
(***************************************************************************)
EXTENDS Naturals, FiniteSets

CONSTANTS
  Clients,   \* goroutines using a lock
  Tokens,    \* UUIDs; fresh means used by nobody and not in the key
  None,      \* no token: the key does not exist
  TTLs,      \* times to live passed to Acquire and Extend
  Waits,     \* timeouts passed to TryAcquire
  Backoff,   \* first backoff of TryAcquire (50 ms)
  BackoffCap,\* backoffs below it are doubled (500 ms)
  MaxLate    \* bound: failed commands still to run

ASSUME NoneAssumption == None \notin Tokens
ASSUME TimesAssumption ==
  /\ TTLs \subseteq Nat \ {0}
  /\ Waits \subseteq Nat
  /\ Backoff \in Nat \ {0} /\ BackoffCap \in Nat /\ MaxLate \in Nat

VARIABLES
  val,       \* the token in the key
  left,      \* what is left of the key's time to live
  pc,        \* where each client is
  tok,       \* the token of the client's call or handle
  ttl,       \* the TTL of the command under way
  grant,     \* what is left of it, counted from the call
  trying,    \* the client is inside TryAcquire
  deadline,  \* what is left of TryAcquire's timeout
  wait,      \* what is left of the current backoff
  back,      \* the backoff of the next round
  late,      \* failed commands that may still run
  lease      \* how long the client can still rely on the lock

kvars == <<val, left>>
tvars == <<trying, deadline, wait, back>>
vars == <<kvars, pc, tok, ttl, grant, tvars, late, lease>>

Commands == [op : {"set", "del", "pexpire"}, tok : Tokens, ttl : Nat]

PC == {"idle", "loop", "setnx", "backoff", "held", "del", "pexpire"}

TypeOK ==
  /\ val \in Tokens \cup {None}
  /\ left \in Nat /\ (left = 0 <=> val = None)
  /\ pc \in [Clients -> PC]
  /\ tok \in [Clients -> Tokens \cup {None}]
  /\ ttl \in [Clients -> Nat] /\ grant \in [Clients -> Nat]
  /\ trying \in [Clients -> BOOLEAN]
  /\ deadline \in [Clients -> Nat] /\ wait \in [Clients -> Nat]
  /\ back \in [Clients -> Nat]
  /\ late \subseteq Commands
  /\ lease \in [Clients -> Nat]

Init ==
  /\ val = None /\ left = 0
  /\ pc = [c \in Clients |-> "idle"]
  /\ tok = [c \in Clients |-> None]
  /\ ttl = [c \in Clients |-> 0] /\ grant = [c \in Clients |-> 0]
  /\ trying = [c \in Clients |-> FALSE]
  /\ deadline = [c \in Clients |-> 0] /\ wait = [c \in Clients |-> 0]
  /\ back = [c \in Clients |-> 0]
  /\ late = {}
  /\ lease = [c \in Clients |-> 0]

Goto(c, label) == pc' = [pc EXCEPT ![c] = label]
Dec(n) == IF n = 0 THEN 0 ELSE n - 1
DecAll(f) == [c \in Clients |-> Dec(f[c])]
Less(m, n) == IF m < n THEN m ELSE n

\* One unit of time passes; the server drops a key whose time is over.
Tick ==
  /\ left' = Dec(left)
  /\ val' = IF left <= 1 THEN None ELSE val
  /\ grant' = DecAll(grant)
  /\ deadline' = DecAll(deadline)
  /\ wait' = DecAll(wait)
  /\ lease' = DecAll(lease)
  /\ UNCHANGED <<pc, tok, ttl, trying, back, late>>

\* TryAcquire returns, with its locals.
EndTry(c) ==
  /\ trying' = [trying EXCEPT ![c] = FALSE]
  /\ deadline' = [deadline EXCEPT ![c] = 0]
  /\ wait' = [wait EXCEPT ![c] = 0]
  /\ back' = [back EXCEPT ![c] = 0]

\* The client gives up its call and its handle.
Leave(c) ==
  /\ Goto(c, "idle")
  /\ tok' = [tok EXCEPT ![c] = None]
  /\ ttl' = [ttl EXCEPT ![c] = 0]
  /\ grant' = [grant EXCEPT ![c] = 0]
  /\ lease' = [lease EXCEPT ![c] = 0]
  /\ EndTry(c)

-----------------------------------------------------------------------------
(* The commands on the server: t is the token, d the time to live          *)

\* Variant for mutation: SET without NX.
SetAnyway(t, d) == val' = t /\ left' = d

\* Variant for mutation: SET NX, and a PX that is never sent.
SetNoTTL(t, d) ==
  IF val = None THEN val' = t /\ left' = 0 ELSE UNCHANGED kvars

\* SET key token NX PX d
SetIfFree(t, d) ==
  IF val = None THEN val' = t /\ left' = d ELSE UNCHANGED kvars

\* Variant for mutation: DEL without the comparison.
DelAnyway(t) == val' = None /\ left' = 0

\* The script of Release: DEL only if the key holds our token.
DelIfOurs(t) ==
  IF val = t THEN val' = None /\ left' = 0 ELSE UNCHANGED kvars

\* Variant for mutation: PEXPIRE without the comparison.
ExpireAnyway(t, d) ==
  IF val # None THEN left' = d /\ UNCHANGED val ELSE UNCHANGED kvars

\* The script of Extend: PEXPIRE only if the key holds our token.
ExpireIfOurs(t, d) ==
  IF val = t THEN left' = d /\ UNCHANGED val ELSE UNCHANGED kvars

Run(m) ==
  CASE m.op = "set"     -> SetIfFree(m.tok, m.ttl)
    [] m.op = "del"     -> DelIfOurs(m.tok)
    [] m.op = "pexpire" -> ExpireIfOurs(m.tok, m.ttl)

\* The command the client waits for.
Command(c) ==
  [op |-> CASE pc[c] = "setnx" -> "set" [] pc[c] = "del" -> "del"
            [] pc[c] = "pexpire" -> "pexpire",
   tok |-> tok[c], ttl |-> ttl[c]]

\* The client is told that its command failed: it has run, or never will, or
\* is still on its way.
Fails(c) ==
  \/ Run(Command(c)) /\ UNCHANGED late
  \/ UNCHANGED <<kvars, late>>
  \/ /\ Cardinality(late) < MaxLate
     /\ late' = late \cup {Command(c)}
     /\ UNCHANGED kvars

\* A command arrives although its client was told that it failed.
RunLate ==
  /\ \E m \in late : Run(m) /\ late' = late \ {m}
  /\ UNCHANGED <<pc, tok, ttl, grant, tvars, lease>>

-----------------------------------------------------------------------------
(* Acquire                                                                 *)

\* A fresh token, and SET key token NX with the TTL is sent.
Send(c, d) ==
  /\ \E t \in Tokens \ ({val} \cup {tok[b] : b \in Clients}
                              \cup {m.tok : m \in late}) :
       tok' = [tok EXCEPT ![c] = t]
  /\ ttl' = [ttl EXCEPT ![c] = d]
  /\ grant' = [grant EXCEPT ![c] = d]
  /\ Goto(c, "setnx")

Acquire(c, d) ==
  /\ pc[c] = "idle"
  /\ Send(c, d)
  /\ UNCHANGED <<kvars, tvars, late, lease>>

\* The key did not exist: the lock is the client's for as long as is left of
\* the TTL it asked for when it called.
SetNX(c) ==
  /\ pc[c] = "setnx"
  /\ SetIfFree(tok[c], ttl[c])
  /\ val' = tok[c]
  /\ Goto(c, "held")
  /\ lease' = [lease EXCEPT ![c] = grant[c]]
  /\ EndTry(c)
  /\ UNCHANGED <<tok, ttl, grant, late>>

\* ErrLockNotAcquired, from Acquire itself.
SetNXTaken(c) ==
  /\ pc[c] = "setnx" /\ ~ trying[c]
  /\ val # None
  /\ Leave(c)
  /\ UNCHANGED <<kvars, late>>

\* Acquire returns the error, and so does TryAcquire.
SetNXFails(c) ==
  /\ pc[c] = "setnx"
  /\ Fails(c)
  /\ Leave(c)

-----------------------------------------------------------------------------
(* TryAcquire                                                              *)

TryAcquire(c, d, w) ==
  /\ pc[c] = "idle"
  /\ Goto(c, "loop")
  /\ ttl' = [ttl EXCEPT ![c] = d]
  /\ trying' = [trying EXCEPT ![c] = TRUE]
  /\ deadline' = [deadline EXCEPT ![c] = w]
  /\ back' = [back EXCEPT ![c] = Backoff]
  /\ UNCHANGED <<kvars, tok, grant, wait, late, lease>>

\* Variant for mutation: the loop does not look at the deadline.
TryRoundForever(c) ==
  /\ pc[c] = "loop"
  /\ Send(c, ttl[c])
  /\ UNCHANGED <<kvars, tvars, late, lease>>

\* The head of the loop: one more Acquire before the deadline.
TryRound(c) ==
  /\ pc[c] = "loop"
  /\ deadline[c] > 0
  /\ Send(c, ttl[c])
  /\ UNCHANGED <<kvars, tvars, late, lease>>

\* ErrLockNotAcquired inside TryAcquire: the backoff starts.
TryTaken(c) ==
  /\ pc[c] = "setnx" /\ trying[c]
  /\ val # None
  /\ Goto(c, "backoff")
  /\ tok' = [tok EXCEPT ![c] = None]
  /\ wait' = [wait EXCEPT ![c] = back[c]]
  /\ UNCHANGED <<kvars, ttl, grant, trying, deadline, back, late, lease>>

\* time.After fired.
TryAgain(c) ==
  /\ pc[c] = "backoff"
  /\ wait[c] = 0
  /\ Goto(c, "loop")
  /\ back' = [back EXCEPT ![c] = IF @ < BackoffCap THEN 2 * @ ELSE @]
  /\ UNCHANGED <<kvars, tok, ttl, grant, trying, deadline, wait, late, lease>>

\* The deadline passed at the head of the loop.
TryTimesOut(c) ==
  /\ pc[c] = "loop"
  /\ deadline[c] = 0
  /\ Leave(c)
  /\ UNCHANGED <<kvars, late>>

\* The context was cancelled during a backoff.
TryCancelled(c) ==
  /\ pc[c] = "backoff"
  /\ Leave(c)
  /\ UNCHANGED <<kvars, late>>

-----------------------------------------------------------------------------
(* Release and Extend, on a handle the client got earlier                  *)

\* From here on the client does not rely on the lock.
Release(c) ==
  /\ pc[c] = "held"
  /\ Goto(c, "del")
  /\ lease' = [lease EXCEPT ![c] = 0]
  /\ UNCHANGED <<kvars, tok, ttl, grant, tvars, late>>

\* Release returns nil whether or not the key was ours.
ReleaseDone(c) ==
  /\ pc[c] = "del"
  /\ DelIfOurs(tok[c])
  /\ Leave(c)
  /\ UNCHANGED late

\* An error leaves the caller with its handle, to try again or to keep using.
ReleaseFails(c) ==
  /\ pc[c] = "del"
  /\ Fails(c)
  /\ Goto(c, "held")
  /\ UNCHANGED <<tok, ttl, grant, tvars, lease>>

\* The new TTL may be the shorter one: until Extend returned, the client can
\* rely on neither outlasting the other.
Extend(c, d) ==
  /\ pc[c] = "held"
  /\ Goto(c, "pexpire")
  /\ ttl' = [ttl EXCEPT ![c] = d]
  /\ grant' = [grant EXCEPT ![c] = d]
  /\ lease' = [lease EXCEPT ![c] = Less(@, d)]
  /\ UNCHANGED <<kvars, tok, tvars, late>>

\* An Extend lengthens what the client may rely on, unless an earlier command
\* on this handle is still on its way, to delete the key or to shorten it.
Extended(c) ==
  /\ val = tok[c]
  /\ \A m \in late : m.tok = tok[c] => m.op = "pexpire" /\ grant[c] <= m.ttl

\* Extend returns nil whether or not the key was ours; only the former is an
\* extension.
ExtendDone(c) ==
  /\ pc[c] = "pexpire"
  /\ ExpireIfOurs(tok[c], ttl[c])
  /\ Goto(c, "held")
  /\ lease' = [lease EXCEPT ![c] = IF Extended(c) THEN grant[c] ELSE @]
  /\ UNCHANGED <<tok, ttl, grant, tvars, late>>

ExtendFails(c) ==
  /\ pc[c] = "pexpire"
  /\ Fails(c)
  /\ Goto(c, "held")
  /\ UNCHANGED <<tok, ttl, grant, tvars, lease>>

\* The client's process dies; its key stays until its time is over.
Crash(c) ==
  /\ pc[c] # "idle"
  /\ Leave(c)
  /\ UNCHANGED kvars
  /\ \/ UNCHANGED late
     \/ /\ pc[c] \in {"setnx", "del", "pexpire"}
        /\ Cardinality(late) < MaxLate
        /\ late' = late \cup {Command(c)}

-----------------------------------------------------------------------------
TryStep(c) ==
  \/ TryRound(c) \/ SetNX(c) \/ TryTaken(c) \/ TryAgain(c) \/ TryTimesOut(c)

ClientStep(c) ==
  \/ \E d \in TTLs : Acquire(c, d) \/ Extend(c, d)
  \/ \E d \in TTLs, w \in Waits : TryAcquire(c, d, w)
  \/ TryStep(c) \/ TryCancelled(c) \/ SetNXTaken(c) \/ SetNXFails(c)
  \/ Release(c) \/ ReleaseDone(c) \/ ReleaseFails(c)
  \/ ExtendDone(c) \/ ExtendFails(c)
  \/ Crash(c)

Next == Tick \/ RunLate \/ \E c \in Clients : ClientStep(c)

Spec == Init /\ [][Next]_vars

\* Time passes, and a TryAcquire under way is scheduled and answered; nothing
\* else has to happen.
FairSpec == Spec /\ WF_vars(Tick) /\ \A c \in Clients : WF_vars(trying[c] /\ TryStep(c))

-----------------------------------------------------------------------------
(* Properties                                                              *)

\* At most one client can rely on the lock, whatever commands are delayed,
\* fail after they ran, arrive after their client gave up, or come from
\* handles whose time is over.  A client relies on it for the TTL counted
\* from its own call (locks.go: Acquire, Release, Extend).
Exclusive ==
  \A b, c \in Clients : lease[b] > 0 /\ lease[c] > 0 => b = c

\* A client that relies on the lock owns the key, for at least as long: no
\* other client's Release or Extend can have touched it, nor a late command
\* of its own.
LeaseBacked ==
  \A c \in Clients : lease[c] > 0 => val = tok[c] /\ left >= lease[c]

\* A token nobody has any more (its owner crashed, or was told that SET
\* failed) leaves the key again.
AbandonedExpires ==
  \A t \in Tokens :
    (val = t /\ \A c \in Clients : tok[c] # t) ~> val # t

\* TryAcquire returns, with the lock or without it.
TryReturns == \A c \in Clients : trying[c] ~> ~ trying[c]

\* What is begun on a key ends: abandoned tokens expire, TryAcquire returns.
LockSettles == AbandonedExpires /\ TryReturns

\* What the proofs add.  Tokens are unique, a SET still to run is the first
\* use of its token, and what runs late is no shorter than a lease it hits.
TokenInv ==
  /\ \A b, c \in Clients : tok[b] = tok[c] /\ tok[b] # None => b = c
  /\ \A c \in Clients : pc[c] = "setnx" => val # tok[c]
  /\ \A c \in Clients : tok[c] # None <=> pc[c] \in {"setnx", "held", "del", "pexpire"}

LateInv ==
  \A c \in Clients : \A m \in late : m.tok = tok[c] =>
    /\ pc[c] # "setnx" /\ m.op # "set"
    /\ lease[c] > 0 => m.op = "pexpire" /\ lease[c] <= m.ttl

TimerInv ==
  /\ \A m \in late : m.ttl > 0
  /\ \A c \in Clients : pc[c] # "idle" => ttl[c] > 0
  /\ \A c \in Clients : pc[c] \in {"setnx", "pexpire"} => grant[c] <= ttl[c]
  /\ \A c \in Clients : lease[c] > 0 => pc[c] \in {"held", "pexpire"}
  /\ \A c \in Clients : pc[c] = "pexpire" => lease[c] <= ttl[c]
=============================================================================
