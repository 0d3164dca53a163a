---------------------------- MODULE RateLimiter ----------------------------
(***************************************************************************)
(* The sliding-window limit on login attempts: LoginRateLimiter::check of  *)
(* rate_limit.rs, called by login before anything else.                    *)
(*                                                                         *)
(* A call reads the clock BEFORE it takes the lock, so calls may enter     *)
(* their attempts in another order than that of their times, and a deque   *)
(* is not always sorted.  Instants are ticks; the clock never goes back.   *)
(***************************************************************************)
EXTENDS Integers, Sequences, FiniteSets

CONSTANTS
  IPs,
  Callers,      \* logins being served at once
  MaxAttempts,  \* login_rate_limit_attempts; 0 turns the limiter off
  Window,       \* login_rate_limit_window_secs
  MaxClock,     \* bound: instants
  MaxAllowed    \* bound: attempts allowed

ASSUME LimiterAssumption ==
  /\ MaxAttempts \in Nat \ {0}
  /\ Window \in Nat
  /\ MaxClock \in Nat /\ MaxAllowed \in Nat

(* An instant, and (history) which of the attempts allowed it is.          *)
Attempt == [at : Nat, n : Nat]

VARIABLES
  clock,
  state,    \* state[ip]: the deque of ip's attempts; empty, there is no entry
  calls,    \* what each caller knows
  allowed   \* history: allowed[ip], every attempt of ip ever allowed

limiterVars == <<clock, state, calls, allowed>>

Idle == [pc |-> "idle"]

LimiterInit ==
  /\ clock = 0
  /\ state = [ip \in IPs |-> <<>>]
  /\ calls = [c \in Callers |-> Idle]
  /\ allowed = [ip \in IPs |-> {}]

Tick ==
  /\ clock < MaxClock
  /\ clock' = clock + 1
  /\ UNCHANGED <<state, calls, allowed>>

(* let now = Instant::now()                                                *)
ReadClock(c) ==
  /\ calls[c] = Idle
  /\ \E ip \in IPs : calls' = [calls EXCEPT ![c] = [pc |-> "lock", ip |-> ip, now |-> clock]]
  /\ UNCHANGED <<clock, state, allowed>>

(* *t < cutoff, where there is a cutoff: now.checked_sub(window) is None   *)
(* when the clock has not run for that long.                               *)
Expired(a, now) == now >= Window /\ a.at < now - Window

(* Mutants: one attempt too many is evicted; those at the front are        *)
(* evicted one instant too late.                                           *)
EvictedOneMore(q, now) ==
  {k \in 0 .. Len(q) : \A i \in 1 .. k : i = k \/ Expired(q[i], now)}

EvictedLate(q, now) ==
  {k \in 0 .. Len(q) :
     /\ \A i \in 1 .. k : Expired(q[i], now - 1)
     /\ k < Len(q) => ~Expired(q[k + 1], now - 1)}

(* The number of attempts evicted: from the front, up to the first that    *)
(* has not expired.                                                        *)
Evicted(q, now) ==
  {k \in 0 .. Len(q) :
     /\ \A i \in 1 .. k : Expired(q[i], now)
     /\ k < Len(q) => ~Expired(q[k + 1], now)}

(* Mutant: off by one.                                                     *)
HasRoomForOneMore(q) == Len(q) <= MaxAttempts

HasRoom(q) == Len(q) < MaxAttempts

(* Under the lock: evict, decide, record.                                  *)
Check(c) ==
  LET ip  == calls[c].ip
      now == calls[c].now
  IN  /\ calls[c].pc = "lock"
      /\ \E k \in Evicted(state[ip], now) :
           LET q == SubSeq(state[ip], k + 1, Len(state[ip]))
               a == [at |-> now, n |-> Cardinality(allowed[ip]) + 1]
           IN  IF HasRoom(q)
               THEN /\ Cardinality(allowed[ip]) < MaxAllowed
                    /\ state' = [state EXCEPT ![ip] = Append(q, a)]
                    /\ allowed' = [allowed EXCEPT ![ip] = @ \cup {a}]
                    /\ calls' = [calls EXCEPT ![c] = [pc |-> "allowed"]]
               ELSE /\ state' = [state EXCEPT ![ip] = q]
                    /\ calls' = [calls EXCEPT ![c] = [pc |-> "refused"]]
                    /\ UNCHANGED allowed
      /\ UNCHANGED clock

(* login goes on, or answers 429; a call is not abandoned, for check does  *)
(* not await.                                                              *)
Answer(c) ==
  /\ calls[c].pc \in {"allowed", "refused"}
  /\ calls' = [calls EXCEPT ![c] = Idle]
  /\ UNCHANGED <<clock, state, allowed>>

LimiterNext ==
  \/ Tick
  \/ \E c \in Callers : ReadClock(c) \/ Check(c) \/ Answer(c)

LimiterSpec == LimiterInit /\ [][LimiterNext]_limiterVars

-----------------------------------------------------------------------------
(* Properties.                                                             *)

CallLocals ==
  {Idle} \cup [pc : {"lock"}, ip : IPs, now : Nat] \cup [pc : {"allowed", "refused"}]

(* Types of the variables; a deque never holds more than MaxAttempts.      *)
LimiterTypeOK ==
  /\ clock \in Nat
  /\ state \in [IPs -> Seq(Attempt)]
  /\ calls \in [Callers -> CallLocals]
  /\ allowed \in [IPs -> SUBSET Attempt]
  /\ \A ip \in IPs : Len(state[ip]) <= MaxAttempts

(* No more than MaxAttempts attempts of an address are allowed in the      *)
(* window that ends now, although an attempt with a late time may be       *)
(* entered after it and attempts are evicted in the order of entry (the    *)
(* sliding window of check).                                               *)
InWindow(ip) == {a \in allowed[ip] : a.at + Window >= clock}
WindowBound  == \A ip \in IPs : Cardinality(InWindow(ip)) <= MaxAttempts

(* An attempt is refused for a reason: that many have been allowed in the  *)
(* window before it, unless calls were entered in another order than that  *)
(* of their times.                                                         *)
Sorted(q) == \A i, j \in 1 .. Len(q) : i < j => q[i].at <= q[j].at

RefusedForReason ==
  [][\A c \in Callers :
       calls[c].pc = "lock" /\ calls'[c].pc = "refused" /\ Sorted(state[calls[c].ip]) =>
         Cardinality({a \in allowed[calls[c].ip] : a.at + Window >= calls[c].now}) >= MaxAttempts]_limiterVars
=============================================================================
