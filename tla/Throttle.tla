------------------------------ MODULE Throttle ------------------------------
(***************************************************************************)
(* The failed-login limiter in front of every page of the dashboard:       *)
(* dashboard/auth_limit.go, and auth of dashboard/handler.go.              *)
(*                                                                         *)
(* A request takes two turns at the limiter's mutex, one to be let in and  *)
(* one to report how its password compared; other requests and the clock   *)
(* move in between.  Time is counted in ticks from 1 (0 is Go's zero       *)
(* time), and a shift is done in Width bits with a sign, as in an int64.   *)
(***************************************************************************)
EXTENDS Integers, Sequences, FiniteSets

CONSTANTS
  Callers,         \* requests that may be under way together
  Addresses,       \* TCP peers, all that clientIP tells of a request
  FailsPerWindow,  \* authFailsPerWindow
  GlobalFails,     \* authGlobalFails
  Window,          \* authWindow
  BackoffBase,     \* authBackoffBase
  BackoffMax,      \* authBackoffMax
  IdleReset,       \* authIdleReset
  SweepAbove,      \* authSweepAbove
  Width,           \* bits of a duration
  MaxTicks         \* bound on the clock

ASSUME LimiterAssumption ==
  /\ IsFiniteSet(Callers)
  /\ {GlobalFails, Window, BackoffBase} \subseteq Nat \ {0}
  /\ {BackoffMax, IdleReset, Width} \subseteq Nat

VARIABLES
  now,       \* the clock
  ips,       \* authLimiter.ips: a record for some of the addresses
  global,    \* authLimiter.global: the times of wrong passwords
  asking,    \* Callers -> the address of the request that was let in, or NoRequest
  wrong,     \* ghost: when wrong passwords were compared, within a window
  lockouts   \* ghost: Addresses -> [last: the last wrong password,
             \*   lengths: the lockouts since a login or an idle hour]

throttle == <<now, ips, global, asking, wrong, lockouts>>

NoRequest == "none"

LimiterInit ==
  /\ now = 1
  /\ ips = <<>>
  /\ global = <<>>
  /\ asking = [c \in Callers |-> NoRequest]
  /\ wrong = <<>>
  /\ lockouts = [a \in Addresses |-> [last |-> 0, lengths |-> <<>>]]

-----------------------------------------------------------------------------
\* How many of the first are dropped: up to the first one that is young.
Old(ts, at) ==
  CHOOSE n \in 0..Len(ts) : /\ \A i \in 1..n : at - ts[i] >= Window
                            /\ n < Len(ts) => at - ts[n + 1] < Window

\* Old failures are dropped, from the first on.
prune(ts, at) == SubSeq(ts, Old(ts, at) + 1, Len(ts))

\* x in Width bits, the first of them the sign.
Wrapped(x) ==
  LET m == x % 2^Width
  IN  IF m >= 2^(Width - 1) THEN m - 2^Width ELSE m

\* The base shifted to the left.
Shifted[strikes \in Nat] ==
  IF strikes = 0 THEN BackoffBase ELSE Wrapped(2 * Shifted[strikes - 1])

\* BUG variant: a shift past the sign is taken for a short lockout.
backoffUnchecked(strikes) ==
  LET d == Shifted[strikes]
  IN  IF d > BackoffMax THEN BackoffMax ELSE d

\* How long the next lockout of an address lasts.
backoff(strikes) ==
  LET d == Shifted[strikes]
  IN  IF d > BackoffMax \/ d <= 0 THEN BackoffMax ELSE d

\* The lockouts grow up to the maximum as long as any bit of the base is left.
ASSUME BackoffAssumption ==
  /\ \A strikes \in 0..Width : /\ backoff(strikes) \in BackoffBase..BackoffMax
                               /\ backoff(strikes) <= backoff(strikes + 1)
  /\ Shifted[Width] = 0 /\ Shifted[Width + 1] = 0

\* BUG variant: whoever is not locked out now may be forgotten.
sweepUnblocked(all) == [a \in {b \in DOMAIN all : now <= all[b].blockedUntil} |-> all[a]]

\* Records of addresses that are neither locked out nor failed of late go.
sweep(all) ==
  [a \in {b \in DOMAIN all : \/ now <= all[b].blockedUntil
                             \/ now - all[b].lastFail <= IdleReset} |-> all[a]]

Blocked(a) == a \in DOMAIN ips /\ now < ips[a].blockedUntil

-----------------------------------------------------------------------------
\* check lets the request in: its password is right or wrong.
LetIn(c) ==
  /\ asking[c] = NoRequest
  /\ global' = prune(global, now)
  /\ Len(global') < GlobalFails
  /\ \E a \in Addresses : ~Blocked(a) /\ asking' = [asking EXCEPT ![c] = a]
  /\ UNCHANGED <<now, ips, wrong, lockouts>>

\* check refuses (429), or there is no password to compare (401): nothing is
\* counted, and the old failures are dropped on the way.
Refuse(c) ==
  /\ asking[c] = NoRequest
  /\ global' = prune(global, now)
  /\ UNCHANGED <<now, ips, asking, wrong, lockouts>>

\* A right password: success deletes the record of its address.
Succeed(c) ==
  LET a == asking[c] IN
  /\ a # NoRequest
  /\ ips' = [b \in DOMAIN ips \ {a} |-> ips[b]]
  /\ asking' = [asking EXCEPT ![c] = NoRequest]
  /\ lockouts' = [lockouts EXCEPT ![a] = [last |-> 0, lengths |-> <<>>]]
  /\ UNCHANGED <<now, global, wrong>>

NoRecord == [fails |-> <<>>, strikes |-> 0, blockedUntil |-> 0, lastFail |-> 0]

\* What fail makes of the record of an address.
Failed(st) ==
  LET strikes == IF st.lastFail # 0 /\ now - st.lastFail > IdleReset THEN 0 ELSE st.strikes
      fails == Append(prune(st.fails, now), now)
  IN  IF Len(fails) < FailsPerWindow
      THEN [st EXCEPT !.fails = fails, !.strikes = strikes, !.lastFail = now]
      ELSE [fails |-> <<>>, strikes |-> strikes + 1, lastFail |-> now,
            blockedUntil |-> now + backoff(strikes)]

\* A wrong password: fail.
Fail(c) ==
  LET a == asking[c]
      kept == IF Cardinality(DOMAIN ips) > SweepAbove THEN sweep(ips) ELSE ips
      st == IF a \in DOMAIN kept THEN kept[a] ELSE NoRecord
      seen == IF now - lockouts[a].last > IdleReset THEN <<>> ELSE lockouts[a].lengths
  IN
  /\ a # NoRequest
  /\ global' = Append(prune(global, now), now)
  /\ ips' = [b \in DOMAIN kept \cup {a} |-> IF b = a THEN Failed(st) ELSE kept[b]]
  /\ asking' = [asking EXCEPT ![c] = NoRequest]
  /\ wrong' = Append(prune(wrong, now), now)
  /\ lockouts' = [lockouts EXCEPT ![a] =
       [last |-> now,
        lengths |-> IF ips'[a].fails = <<>> THEN Append(seen, ips'[a].blockedUntil - now) ELSE seen]]
  /\ UNCHANGED now

Elapse ==
  /\ now < MaxTicks
  /\ now' = now + 1
  /\ UNCHANGED <<ips, global, asking, wrong, lockouts>>

LimiterNext == Elapse \/ \E c \in Callers : LetIn(c) \/ Refuse(c) \/ Succeed(c) \/ Fail(c)

LimiterSpec == LimiterInit /\ [][LimiterNext]_throttle

-----------------------------------------------------------------------------
Recent(ts) == {i \in DOMAIN ts : now - ts[i] < Window}

\* Guessing stays slow.  In any window the passwords found wrong are at most
\* the global limit and those that were already let in beside the last one
\* counted (auth_limit.go:66-69 counts only what was reported).  And until an
\* address logs in or stays quiet for an hour, each of its lockouts is at
\* least as long as the one before and within the base and the maximum,
\* however far the shift at auth_limit.go:97 goes and whatever the sweep
\* forgets.
LockoutsHold ==
  /\ Cardinality(Recent(wrong)) <= GlobalFails + Cardinality(Callers) - 1
  /\ \A a \in Addresses : LET ls == lockouts[a].lengths IN
       /\ \A i \in DOMAIN ls : ls[i] \in BackoffBase..BackoffMax
       /\ \A i \in 1..(Len(ls) - 1) : ls[i] <= ls[i + 1]
=============================================================================
