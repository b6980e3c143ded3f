---------------------------- MODULE LockerProofs ----------------------------
(***************************************************************************)
(* Proofs about Locker, for any number of clients and any times.  Inv adds *)
(* to the properties what their induction needs: tokens are unique         *)
(* (TokenInv), a lease never outlasts a command of the same handle that    *)
(* may still run (LateInv), and what the timers of a call say about each   *)
(* other (TimerInv).                                                       *)
(***************************************************************************)
EXTENDS Locker, TLAPS

Inv == TypeOK /\ TokenInv /\ LateInv /\ TimerInv /\ LeaseBacked

LEMMA InitInv == Init => Inv
<1> SUFFICES ASSUME Init PROVE Inv
  OBVIOUS
<1>1. TypeOK
  BY DEF Init, TypeOK, PC
<1>2. TokenInv /\ LateInv /\ TimerInv /\ LeaseBacked
  BY DEF Init, TokenInv, LateInv, TimerInv, LeaseBacked
<1> QED
  BY <1>1, <1>2 DEF Inv

-----------------------------------------------------------------------------
(* The server                                                              *)

KeyOK == val \in Tokens \cup {None} /\ left \in Nat /\ (left = 0 <=> val = None)

\* A command touches the key only where it is free or holds its own token.
LEMMA RunTouches ==
  ASSUME KeyOK, NEW m \in Commands, m.ttl > 0, Run(m)
  PROVE  /\ KeyOK'
         /\ val \notin {None, m.tok} => UNCHANGED kvars
         /\ val = m.tok /\ m.op = "set" => UNCHANGED kvars
         /\ val = m.tok /\ m.op = "pexpire" => val' = val /\ left' = m.ttl
         /\ val = None => val' = IF m.op = "set" THEN m.tok ELSE None
         /\ val' \in {val, m.tok, None}
<1>1. m.op \in {"set", "del", "pexpire"} /\ m.tok \in Tokens /\ m.ttl \in Nat
  BY DEF Commands
<1>2. CASE m.op = "set"
  BY <1>1, <1>2, NoneAssumption DEF Run, SetIfFree, KeyOK, kvars
<1>3. CASE m.op = "del"
  BY <1>1, <1>3, NoneAssumption DEF Run, DelIfOurs, KeyOK, kvars
<1>4. CASE m.op = "pexpire"
  BY <1>1, <1>4, NoneAssumption DEF Run, ExpireIfOurs, KeyOK, kvars
<1> QED
  BY <1>1, <1>2, <1>3, <1>4

\* The command a client waits for is one, and carries its token and TTL.
LEMMA CommandOK ==
  ASSUME Inv, NEW c \in Clients, pc[c] \in {"setnx", "del", "pexpire"}
  PROVE  /\ Command(c) \in Commands
         /\ Command(c).tok = tok[c] /\ Command(c).ttl = ttl[c]
         /\ Command(c).ttl > 0
         /\ Command(c).op = "set" <=> pc[c] = "setnx"
         /\ Command(c).op = "del" <=> pc[c] = "del"
         /\ Command(c).op = "pexpire" <=> pc[c] = "pexpire"
<1>1. tok[c] \in Tokens /\ ttl[c] \in Nat /\ ttl[c] > 0
  BY DEF Inv, TypeOK, TokenInv, TimerInv
<1> QED
  BY <1>1 DEF Command, Commands

-----------------------------------------------------------------------------
(* The steps                                                               *)

LEMMA TickStep ==
  ASSUME Inv, Tick
  PROVE  Inv'
<1> USE DEF Inv
<1>1. TypeOK'
  BY NoneAssumption, TimesAssumption DEF Tick, Dec, DecAll, TypeOK, PC
<1>2. TokenInv'
  BY NoneAssumption, TimesAssumption DEF Tick, Dec, DecAll, TypeOK, TokenInv, PC
<1>3. LateInv'
  BY NoneAssumption, TimesAssumption DEF Tick, Dec, DecAll, TypeOK, TokenInv,
       LateInv, TimerInv, Commands
<1>4. TimerInv'
  BY NoneAssumption, TimesAssumption DEF Tick, Dec, DecAll, TypeOK, TimerInv,
       Commands
<1>5. LeaseBacked'
  BY NoneAssumption, TimesAssumption DEF Tick, Dec, DecAll, TypeOK, TokenInv,
       LateInv, TimerInv, LeaseBacked, Commands
<1> QED
  BY <1>1, <1>2, <1>3, <1>4, <1>5

LEMMA AcquireStep ==
  ASSUME Inv, NEW c \in Clients, NEW d \in TTLs, Acquire(c, d)
  PROVE  Inv'
<1> USE DEF Inv
<1>1. TypeOK'
  BY NoneAssumption, TimesAssumption DEF Acquire, Send, Goto, kvars, tvars,
       TypeOK, PC
<1>2. TokenInv'
  BY NoneAssumption, TimesAssumption DEF Acquire, Send, Goto, kvars, tvars,
       TypeOK, TokenInv, PC
<1>3. LateInv'
  BY NoneAssumption, TimesAssumption DEF Acquire, Send, Goto, kvars, tvars,
       TypeOK, TokenInv, LateInv, TimerInv, Commands
<1>4. TimerInv'
  BY NoneAssumption, TimesAssumption DEF Acquire, Send, Goto, kvars, tvars,
       TypeOK, TimerInv, Commands
<1>5. LeaseBacked'
  BY NoneAssumption, TimesAssumption DEF Acquire, Send, Goto, kvars, tvars,
       TypeOK, TokenInv, LateInv, TimerInv, LeaseBacked, Commands
<1> QED
  BY <1>1, <1>2, <1>3, <1>4, <1>5

LEMMA SetNXStep ==
  ASSUME Inv, NEW c \in Clients, SetNX(c)
  PROVE  Inv'
<1> USE DEF Inv
<1>1. TypeOK'
  <2>1. KeyOK'
    BY NoneAssumption DEF SetNX, SetIfFree, kvars, KeyOK, TypeOK, TimerInv,
         TokenInv
  <2> QED
    BY <2>1 DEF SetNX, Goto, EndTry, TypeOK, PC, KeyOK
<1>2. TokenInv'
  BY NoneAssumption, TimesAssumption DEF SetNX, SetIfFree, Goto, EndTry, kvars,
       TypeOK, TokenInv, PC
<1>3. LateInv'
  BY NoneAssumption, TimesAssumption DEF SetNX, SetIfFree, Goto, EndTry, kvars,
       TypeOK, TokenInv, LateInv, TimerInv, Commands
<1>4. TimerInv'
  BY NoneAssumption, TimesAssumption DEF SetNX, SetIfFree, Goto, EndTry, kvars,
       TypeOK, TimerInv, Commands
<1>5. LeaseBacked'
  BY NoneAssumption, TimesAssumption DEF SetNX, SetIfFree, Goto, EndTry, kvars,
       TypeOK, TokenInv, LateInv, TimerInv, LeaseBacked, Commands
<1> QED
  BY <1>1, <1>2, <1>3, <1>4, <1>5

LEMMA SetNXTakenStep ==
  ASSUME Inv, NEW c \in Clients, SetNXTaken(c)
  PROVE  Inv'
<1> USE DEF Inv
<1>1. TypeOK'
  BY NoneAssumption, TimesAssumption DEF SetNXTaken, Goto, EndTry, Leave, kvars,
       TypeOK, PC
<1>2. TokenInv'
  BY NoneAssumption, TimesAssumption DEF SetNXTaken, Goto, EndTry, Leave, kvars,
       TypeOK, TokenInv, PC
<1>3. LateInv'
  BY NoneAssumption, TimesAssumption DEF SetNXTaken, Goto, EndTry, Leave, kvars,
       TypeOK, TokenInv, LateInv, TimerInv, Commands
<1>4. TimerInv'
  BY NoneAssumption, TimesAssumption DEF SetNXTaken, Goto, EndTry, Leave, kvars,
       TypeOK, TimerInv, Commands
<1>5. LeaseBacked'
  BY NoneAssumption, TimesAssumption DEF SetNXTaken, Goto, EndTry, Leave, kvars,
       TypeOK, TokenInv, LateInv, TimerInv, LeaseBacked, Commands
<1> QED
  BY <1>1, <1>2, <1>3, <1>4, <1>5

LEMMA TryAcquireStep ==
  ASSUME Inv, NEW c \in Clients, NEW d \in TTLs, NEW w \in Waits, TryAcquire(c, d, w)
  PROVE  Inv'
<1> USE DEF Inv
<1>1. TypeOK'
  BY NoneAssumption, TimesAssumption DEF TryAcquire, Goto, kvars, TypeOK, PC
<1>2. TokenInv'
  BY NoneAssumption, TimesAssumption DEF TryAcquire, Goto, kvars, TypeOK,
       TokenInv, PC
<1>3. LateInv'
  BY NoneAssumption, TimesAssumption DEF TryAcquire, Goto, kvars, TypeOK,
       TokenInv, LateInv, TimerInv, Commands
<1>4. TimerInv'
  BY NoneAssumption, TimesAssumption DEF TryAcquire, Goto, kvars, TypeOK,
       TimerInv, Commands
<1>5. LeaseBacked'
  BY NoneAssumption, TimesAssumption DEF TryAcquire, Goto, kvars, TypeOK,
       TokenInv, LateInv, TimerInv, LeaseBacked, Commands
<1> QED
  BY <1>1, <1>2, <1>3, <1>4, <1>5

LEMMA TryRoundStep ==
  ASSUME Inv, NEW c \in Clients, TryRound(c)
  PROVE  Inv'
<1> USE DEF Inv
<1>1. TypeOK'
  BY NoneAssumption, TimesAssumption DEF TryRound, Send, Goto, kvars, tvars,
       TypeOK, PC
<1>2. TokenInv'
  BY NoneAssumption, TimesAssumption DEF TryRound, Send, Goto, kvars, tvars,
       TypeOK, TokenInv, PC
<1>3. LateInv'
  BY NoneAssumption, TimesAssumption DEF TryRound, Send, Goto, kvars, tvars,
       TypeOK, TokenInv, LateInv, TimerInv, Commands
<1>4. TimerInv'
  BY NoneAssumption, TimesAssumption DEF TryRound, Send, Goto, kvars, tvars,
       TypeOK, TimerInv, Commands
<1>5. LeaseBacked'
  BY NoneAssumption, TimesAssumption DEF TryRound, Send, Goto, kvars, tvars,
       TypeOK, TokenInv, LateInv, TimerInv, LeaseBacked, Commands
<1> QED
  BY <1>1, <1>2, <1>3, <1>4, <1>5

LEMMA TryTakenStep ==
  ASSUME Inv, NEW c \in Clients, TryTaken(c)
  PROVE  Inv'
<1> USE DEF Inv
<1>1. TypeOK'
  BY NoneAssumption, TimesAssumption DEF TryTaken, Goto, kvars, TypeOK, PC
<1>2. TokenInv'
  BY NoneAssumption, TimesAssumption DEF TryTaken, Goto, kvars, TypeOK,
       TokenInv, PC
<1>3. LateInv'
  BY NoneAssumption, TimesAssumption DEF TryTaken, Goto, kvars, TypeOK,
       TokenInv, LateInv, TimerInv, Commands
<1>4. TimerInv'
  BY NoneAssumption, TimesAssumption DEF TryTaken, Goto, kvars, TypeOK,
       TimerInv, Commands
<1>5. LeaseBacked'
  BY NoneAssumption, TimesAssumption DEF TryTaken, Goto, kvars, TypeOK,
       TokenInv, LateInv, TimerInv, LeaseBacked, Commands
<1> QED
  BY <1>1, <1>2, <1>3, <1>4, <1>5

LEMMA TryAgainStep ==
  ASSUME Inv, NEW c \in Clients, TryAgain(c)
  PROVE  Inv'
<1> USE DEF Inv
<1>1. TypeOK'
  BY NoneAssumption, TimesAssumption DEF TryAgain, Goto, kvars, TypeOK, PC
<1>2. TokenInv'
  BY NoneAssumption, TimesAssumption DEF TryAgain, Goto, kvars, TypeOK,
       TokenInv, PC
<1>3. LateInv'
  BY NoneAssumption, TimesAssumption DEF TryAgain, Goto, kvars, TypeOK,
       TokenInv, LateInv, TimerInv, Commands
<1>4. TimerInv'
  BY NoneAssumption, TimesAssumption DEF TryAgain, Goto, kvars, TypeOK,
       TimerInv, Commands
<1>5. LeaseBacked'
  BY NoneAssumption, TimesAssumption DEF TryAgain, Goto, kvars, TypeOK,
       TokenInv, LateInv, TimerInv, LeaseBacked, Commands
<1> QED
  BY <1>1, <1>2, <1>3, <1>4, <1>5

LEMMA TryEndStep ==
  ASSUME Inv, NEW c \in Clients, TryTimesOut(c) \/ TryCancelled(c)
  PROVE  Inv'
<1> USE DEF Inv
<1>0. Leave(c) /\ UNCHANGED <<kvars, late>>
  BY DEF TryTimesOut, TryCancelled
<1>1. TypeOK'
  BY <1>0 DEF Leave, EndTry, Goto, kvars, TypeOK, PC
<1>2. TokenInv'
  BY NoneAssumption, TimesAssumption DEF TryTimesOut, TryCancelled, Leave,
       EndTry, Goto, kvars, TypeOK, TokenInv, PC
<1>3. LateInv'
  BY NoneAssumption, TimesAssumption DEF TryTimesOut, TryCancelled, Leave,
       EndTry, Goto, kvars, TypeOK, TokenInv, LateInv, TimerInv, Commands
<1>4. TimerInv'
  BY NoneAssumption, TimesAssumption DEF TryTimesOut, TryCancelled, Leave,
       EndTry, Goto, kvars, TypeOK, TimerInv, Commands
<1>5. LeaseBacked'
  BY NoneAssumption, TimesAssumption DEF TryTimesOut, TryCancelled, Leave,
       EndTry, Goto, kvars, TypeOK, TokenInv, LateInv, TimerInv, LeaseBacked,
       Commands
<1> QED
  BY <1>1, <1>2, <1>3, <1>4, <1>5

LEMMA ReleaseStep ==
  ASSUME Inv, NEW c \in Clients, Release(c)
  PROVE  Inv'
<1> USE DEF Inv
<1>1. TypeOK'
  BY NoneAssumption, TimesAssumption DEF Release, Goto, kvars, tvars, TypeOK, PC
<1>2. TokenInv'
  BY NoneAssumption, TimesAssumption DEF Release, Goto, kvars, tvars, TypeOK,
       TokenInv, PC
<1>3. LateInv'
  BY NoneAssumption, TimesAssumption DEF Release, Goto, kvars, tvars, TypeOK,
       TokenInv, LateInv, TimerInv, Commands
<1>4. TimerInv'
  BY NoneAssumption, TimesAssumption DEF Release, Goto, kvars, tvars, TypeOK,
       TimerInv, Commands
<1>5. LeaseBacked'
  BY NoneAssumption, TimesAssumption DEF Release, Goto, kvars, tvars, TypeOK,
       TokenInv, LateInv, TimerInv, LeaseBacked, Commands
<1> QED
  BY <1>1, <1>2, <1>3, <1>4, <1>5

LEMMA ReleaseDoneStep ==
  ASSUME Inv, NEW c \in Clients, ReleaseDone(c)
  PROVE  Inv'
<1> USE DEF Inv
<1>1. TypeOK'
  BY NoneAssumption, TimesAssumption DEF ReleaseDone, DelIfOurs, Leave, EndTry,
       Goto, kvars, TypeOK, PC
<1>2. TokenInv'
  BY NoneAssumption, TimesAssumption DEF ReleaseDone, DelIfOurs, Leave, EndTry,
       Goto, kvars, TypeOK, TokenInv, PC
<1>3. LateInv'
  BY NoneAssumption, TimesAssumption DEF ReleaseDone, DelIfOurs, Leave, EndTry,
       Goto, kvars, TypeOK, TokenInv, LateInv, TimerInv, Commands
<1>4. TimerInv'
  BY NoneAssumption, TimesAssumption DEF ReleaseDone, DelIfOurs, Leave, EndTry,
       Goto, kvars, TypeOK, TimerInv, Commands
<1>5. LeaseBacked'
  BY NoneAssumption, TimesAssumption DEF ReleaseDone, DelIfOurs, Leave, EndTry,
       Goto, kvars, TypeOK, TokenInv, LateInv, TimerInv, LeaseBacked, Commands
<1> QED
  BY <1>1, <1>2, <1>3, <1>4, <1>5

LEMMA ExtendStep ==
  ASSUME Inv, NEW c \in Clients, NEW d \in TTLs, Extend(c, d)
  PROVE  Inv'
<1> USE DEF Inv
<1>1. TypeOK'
  BY NoneAssumption, TimesAssumption DEF Extend, Less, Goto, kvars, tvars,
       TypeOK, PC
<1>2. TokenInv'
  BY NoneAssumption, TimesAssumption DEF Extend, Less, Goto, kvars, tvars,
       TypeOK, TokenInv, PC
<1>3. LateInv'
  BY NoneAssumption, TimesAssumption DEF Extend, Less, Goto, kvars, tvars,
       TypeOK, TokenInv, LateInv, TimerInv, Commands
<1>4. TimerInv'
  BY NoneAssumption, TimesAssumption DEF Extend, Less, Goto, kvars, tvars,
       TypeOK, TimerInv, Commands
<1>5. LeaseBacked'
  BY NoneAssumption, TimesAssumption DEF Extend, Less, Goto, kvars, tvars,
       TypeOK, TokenInv, LateInv, TimerInv, LeaseBacked, Commands
<1> QED
  BY <1>1, <1>2, <1>3, <1>4, <1>5

LEMMA ExtendDoneStep ==
  ASSUME Inv, NEW c \in Clients, ExtendDone(c)
  PROVE  Inv'
<1> USE DEF Inv
<1>1. TypeOK'
  <2>1. KeyOK'
    <3>1. CASE val = tok[c]
      BY <3>1 DEF ExtendDone, ExpireIfOurs, KeyOK, TypeOK, TokenInv, TimerInv
    <3>2. CASE val # tok[c]
      BY <3>2 DEF ExtendDone, ExpireIfOurs, kvars, KeyOK, TypeOK
    <3> QED
      BY <3>1, <3>2
  <2>2. lease' \in [Clients -> Nat]
    BY DEF ExtendDone, Extended, TypeOK
  <2>3. pc' \in [Clients -> PC]
    BY DEF ExtendDone, Goto, TypeOK, PC
  <2> QED
    BY <2>1, <2>2, <2>3 DEF ExtendDone, tvars, TypeOK, KeyOK, PC
<1>2. TokenInv'
  BY NoneAssumption, TimesAssumption DEF ExtendDone, Extended, ExpireIfOurs,
       Goto, kvars, tvars, TypeOK, TokenInv, PC
<1>3. LateInv'
  BY NoneAssumption, TimesAssumption DEF ExtendDone, Extended, ExpireIfOurs,
       Goto, kvars, tvars, TypeOK, TokenInv, LateInv, TimerInv, Commands
<1>4. TimerInv'
  BY NoneAssumption, TimesAssumption DEF ExtendDone, Extended, ExpireIfOurs,
       Goto, kvars, tvars, TypeOK, TimerInv, Commands
<1>5. LeaseBacked'
  BY NoneAssumption, TimesAssumption DEF ExtendDone, Extended, ExpireIfOurs,
       Goto, kvars, tvars, TypeOK, TokenInv, LateInv, TimerInv, LeaseBacked,
       Commands
<1> QED
  BY <1>1, <1>2, <1>3, <1>4, <1>5

-----------------------------------------------------------------------------
(* The commands that fail                                                  *)

LEMMA RunLateStep ==
  ASSUME Inv, RunLate
  PROVE  Inv'
<1> USE DEF Inv
<1>1. PICK m \in late : Run(m) /\ late' = late \ {m}
  BY DEF RunLate
<1>2. m \in Commands /\ m.ttl > 0 /\ KeyOK
  BY <1>1 DEF TypeOK, TimerInv, KeyOK
<1>3. KeyOK' /\ val' \in {val, m.tok, None}
  BY <1>1, <1>2, RunTouches
<1>4. UNCHANGED <<pc, tok, ttl, grant, tvars, lease>>
  BY DEF RunLate
<1>5. TypeOK'
  BY <1>1, <1>3, <1>4 DEF TypeOK, KeyOK, tvars
<1>6. TokenInv'
  BY <1>1, <1>3, <1>4, NoneAssumption DEF TokenInv, LateInv
<1>7. LateInv' /\ TimerInv'
  BY <1>1, <1>4 DEF LateInv, TimerInv
<1>8. LeaseBacked'
  <2> SUFFICES ASSUME NEW c \in Clients, lease[c] > 0
               PROVE  val' = tok[c] /\ left' >= lease[c]
    BY <1>4 DEF LeaseBacked
  <2>1. val = tok[c] /\ left >= lease[c] /\ tok[c] # None
    BY DEF LeaseBacked, TimerInv, TokenInv
  <2>2. CASE m.tok # tok[c]
    <3>1. UNCHANGED kvars
      BY <1>1, <1>2, <2>1, <2>2, RunTouches
    <3> QED
      BY <2>1, <3>1 DEF kvars
  <2>3. CASE m.tok = tok[c]
    <3>1. m.op = "pexpire" /\ lease[c] <= m.ttl
      BY <1>1, <2>3 DEF LateInv
    <3>2. val' = val /\ left' = m.ttl
      BY <1>1, <1>2, <2>1, <2>3, <3>1, RunTouches
    <3> QED
      BY <1>2, <2>1, <3>1, <3>2 DEF TypeOK, Commands
  <2> QED
    BY <2>2, <2>3
<1> QED
  BY <1>5, <1>6, <1>7, <1>8

\* Whatever a failed command did or will do, it concerns its own token.
LEMMA FailsEffect ==
  ASSUME Inv, NEW c \in Clients, pc[c] \in {"setnx", "del", "pexpire"}, Fails(c)
  PROVE  /\ KeyOK' /\ val' \in {val, tok[c], None}
         /\ late' \in {late, late \cup {Command(c)}}
         /\ \A b \in Clients : b # c /\ lease[b] > 0 => UNCHANGED kvars
         /\ pc[c] = "pexpire" /\ lease[c] > 0 => val' = val /\ left' \in {left, ttl[c]}
<1> USE DEF Inv
<1>1. KeyOK
  BY DEF TypeOK, KeyOK
<1>2. CASE Run(Command(c)) /\ UNCHANGED late
  <2>1. /\ KeyOK' /\ val' \in {val, tok[c], None}
        /\ val \notin {None, tok[c]} => UNCHANGED kvars
        /\ val = tok[c] /\ pc[c] = "pexpire" => val' = val /\ left' = ttl[c]
    BY <1>1, <1>2, CommandOK, RunTouches
  <2>2. ASSUME NEW b \in Clients, b # c, lease[b] > 0
        PROVE  UNCHANGED kvars
    <3>1. val = tok[b] /\ tok[b] # None
      BY <2>2 DEF LeaseBacked, TimerInv, TokenInv
    <3>2. tok[b] # tok[c]
      BY <2>2, <3>1 DEF TokenInv
    <3> QED
      BY <2>1, <3>1, <3>2
  <2> QED
    BY <1>2, <2>1, <2>2 DEF LeaseBacked
<1>3. CASE UNCHANGED kvars /\ late' \in {late, late \cup {Command(c)}}
  BY <1>1, <1>3 DEF kvars, KeyOK
<1> QED
  BY <1>2, <1>3 DEF Fails, kvars

\* The client gives up, its command having run, being lost or still to run.
LEMMA LeaveStep ==
  ASSUME Inv, NEW c \in Clients, Leave(c), KeyOK',
         val' \in {val, tok[c], None},
         late' = late \/ (/\ pc[c] \in {"setnx", "del", "pexpire"}
                          /\ late' = late \cup {Command(c)}),
         \A b \in Clients : b # c /\ lease[b] > 0 => UNCHANGED kvars
  PROVE  Inv'
<1> USE DEF Inv
<1>1. \A m \in late' : m \in late \/ (m \in Commands /\ m.tok = tok[c] /\ m.tok # None /\ m.ttl > 0)
  BY CommandOK, NoneAssumption DEF Commands
<1>2. TypeOK'
  <2>1. late' \subseteq Commands
    BY <1>1 DEF TypeOK
  <2> QED
    BY <2>1 DEF Leave, EndTry, Goto, TypeOK, PC, KeyOK
<1>3. TokenInv'
  BY DEF Leave, EndTry, Goto, TokenInv, TypeOK, PC
<1>4. LateInv'
  BY <1>1, NoneAssumption DEF Leave, Goto, LateInv, TokenInv, TypeOK, Commands
<1>5. TimerInv'
  BY <1>1 DEF Leave, Goto, TimerInv, TypeOK
<1>6. LeaseBacked'
  BY DEF Leave, LeaseBacked, TypeOK, kvars
<1> QED
  BY <1>2, <1>3, <1>4, <1>5, <1>6

LEMMA SetNXFailsStep ==
  ASSUME Inv, NEW c \in Clients, SetNXFails(c)
  PROVE  Inv'
<1>1. pc[c] = "setnx" /\ Fails(c) /\ Leave(c)
  BY DEF SetNXFails
<1> QED
  BY <1>1, FailsEffect, LeaveStep

LEMMA CrashStep ==
  ASSUME Inv, NEW c \in Clients, Crash(c)
  PROVE  Inv'
<1>1. Leave(c) /\ UNCHANGED kvars
  BY DEF Crash
<1>2. KeyOK' /\ val' = val
  BY <1>1 DEF Inv, TypeOK, KeyOK, kvars
<1>3. late' = late \/ (/\ pc[c] \in {"setnx", "del", "pexpire"}
                       /\ late' = late \cup {Command(c)})
  BY DEF Crash
<1> QED
  BY <1>1, <1>2, <1>3, LeaveStep

LEMMA HandleFailsStep ==
  ASSUME Inv, NEW c \in Clients, ReleaseFails(c) \/ ExtendFails(c)
  PROVE  Inv'
<1> USE DEF Inv
<1>1. /\ pc[c] \in {"del", "pexpire"} /\ Fails(c) /\ Goto(c, "held")
      /\ UNCHANGED <<tok, ttl, grant, tvars, lease>>
  BY DEF ReleaseFails, ExtendFails
<1>2. /\ KeyOK' /\ val' \in {val, tok[c], None}
      /\ late' \in {late, late \cup {Command(c)}}
      /\ \A b \in Clients : b # c /\ lease[b] > 0 => UNCHANGED kvars
      /\ pc[c] = "pexpire" /\ lease[c] > 0 => val' = val /\ left' \in {left, ttl[c]}
  BY <1>1, FailsEffect
<1>3. \A m \in late' : m \in late \/
         (m \in Commands /\ m.tok = tok[c] /\ m.ttl = ttl[c] /\ m.ttl > 0
            /\ m.op = pc[c])
  BY <1>1, <1>2, CommandOK
<1>4. TypeOK'
  <2>1. late' \subseteq Commands
    BY <1>3 DEF TypeOK
  <2> QED
    BY <1>1, <1>2, <2>1 DEF Goto, TypeOK, PC, KeyOK, tvars
<1>5. TokenInv'
  BY <1>1, <1>2, NoneAssumption DEF Goto, TokenInv, TypeOK, PC
<1>6. TimerInv'
  BY <1>1, <1>3 DEF Goto, TimerInv, TypeOK
<1>7. LateInv'
  <2> SUFFICES ASSUME NEW b \in Clients, NEW m \in late', m.tok = tok[b]
               PROVE  /\ pc'[b] # "setnx" /\ m.op # "set"
                      /\ lease[b] > 0 => m.op = "pexpire" /\ lease[b] <= m.ttl
    BY <1>1 DEF LateInv
  <2>1. CASE m \in late
    BY <1>1, <2>1 DEF LateInv, Goto, TypeOK
  <2>2. CASE m \notin late
    <3>1. m.tok = tok[c] /\ m.ttl = ttl[c] /\ m.op = pc[c] /\ tok[c] # None
      BY <1>1, <1>3, <2>2 DEF TokenInv
    <3>2. b = c
      BY <3>1 DEF TokenInv
    <3> QED
      BY <1>1, <3>1, <3>2 DEF TimerInv, Goto, TypeOK
  <2> QED
    BY <2>1, <2>2
<1>8. LeaseBacked'
  <2> SUFFICES ASSUME NEW b \in Clients, lease[b] > 0
               PROVE  val' = tok[b] /\ left' >= lease[b]
    BY <1>1 DEF LeaseBacked
  <2>1. val = tok[b] /\ left >= lease[b]
    BY DEF LeaseBacked
  <2>2. CASE b # c
    BY <1>2, <2>1, <2>2 DEF kvars
  <2>3. CASE b = c
    <3>1. pc[c] = "pexpire" /\ lease[c] <= ttl[c]
      BY <1>1, <2>3 DEF TimerInv
    <3> QED
      BY <1>2, <2>1, <2>3, <3>1 DEF TypeOK
  <2> QED
    BY <2>2, <2>3
<1> QED
  BY <1>4, <1>5, <1>6, <1>7, <1>8

-----------------------------------------------------------------------------
(* The theorems                                                            *)

LEMMA NextInv == Inv /\ [Next]_vars => Inv'
<1> SUFFICES ASSUME Inv, [Next]_vars PROVE Inv'
  OBVIOUS
<1>1. CASE Tick \/ RunLate
  BY <1>1, TickStep, RunLateStep
<1>2. ASSUME NEW c \in Clients, ClientStep(c)
      PROVE  Inv'
  <2>1. CASE \E d \in TTLs : Acquire(c, d) \/ Extend(c, d)
    BY <2>1, AcquireStep, ExtendStep
  <2>2. CASE \E d \in TTLs, w \in Waits : TryAcquire(c, d, w)
    BY <2>2, TryAcquireStep
  <2>3. CASE TryStep(c) \/ TryCancelled(c)
    BY <2>3, TryRoundStep, SetNXStep, TryTakenStep, TryAgainStep, TryEndStep
       DEF TryStep
  <2>4. CASE SetNXTaken(c) \/ SetNXFails(c) \/ Crash(c)
    BY <2>4, SetNXTakenStep, SetNXFailsStep, CrashStep
  <2>5. CASE Release(c) \/ ReleaseDone(c) \/ ExtendDone(c)
    BY <2>5, ReleaseStep, ReleaseDoneStep, ExtendDoneStep
  <2>6. CASE ReleaseFails(c) \/ ExtendFails(c)
    BY <2>6, HandleFailsStep
  <2> QED
    BY <1>2, <2>1, <2>2, <2>3, <2>4, <2>5, <2>6 DEF ClientStep
<1>3. CASE UNCHANGED vars
  BY <1>3 DEF vars, kvars, tvars, Inv, TypeOK, TokenInv, LateInv, TimerInv,
       LeaseBacked
<1> QED
  BY <1>1, <1>2, <1>3 DEF Next

LEMMA Invariance == Spec => []Inv
BY InitInv, NextInv, PTL DEF Spec

\* Types, and that a key exists exactly as long as it has time left: SET NX
\* and PEXPIRE never leave a lock without an expiry (locks.go: Acquire).
THEOREM TypeCorrect == Spec => []TypeOK
<1>1. Inv => TypeOK
  BY DEF Inv
<1> QED
  BY <1>1, Invariance, PTL

\* A client that relies on the lock has the key, for at least as long,
\* whatever Release and Extend others call or have still on their way.
THEOREM LeaseBackedCorrect == Spec => []LeaseBacked
<1>1. Inv => LeaseBacked
  BY DEF Inv
<1> QED
  BY <1>1, Invariance, PTL

\* Mutual exclusion: two clients never rely on the lock at the same time.
THEOREM ExclusiveCorrect == Spec => []Exclusive
<1>1. Inv => Exclusive
  <2> SUFFICES ASSUME Inv, NEW b \in Clients, NEW c \in Clients,
                      lease[b] > 0, lease[c] > 0
               PROVE  b = c
    BY DEF Exclusive
  <2>1. val = tok[b] /\ val = tok[c]
    BY DEF Inv, LeaseBacked
  <2>2. tok[b] # None
    BY DEF Inv, TimerInv, TokenInv
  <2> QED
    BY <2>1, <2>2 DEF Inv, TokenInv
<1> QED
  BY <1>1, Invariance, PTL
=============================================================================
