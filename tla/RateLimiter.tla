------------------------------ MODULE RateLimiter ------------------------------
(***************************************************************************)
(* SSHMCPServer._check_rate_limit and _handle_call_tool                    *)
(* (ssh_mcp/server.py): a tool call is let through if fewer than RateMax   *)
(* were in the last RateWindow seconds, and then goes to its handler.      *)
(*                                                                         *)
(* The limiter reads the time of day.  `lag` is how far that clock has been*)
(* set back since the server started (an NTP step): the time that has      *)
(* really passed is `now`, the clock shows now - lag.                      *)
(***************************************************************************)
EXTENDS Integers, FiniteSets

CONSTANTS
  Ask,             \* tool calls
  RateMax,         \* SSH_RATE_LIMIT_MAX
  RateWindow,      \* SSH_RATE_LIMIT_WINDOW
  Clock,           \* times up to which a run is followed: a bound
  Unknown          \* the calls among Ask that name no tool

ASSUME RateAssumption ==
  /\ IsFiniteSet(Ask)
  /\ RateMax \in Nat
  /\ RateWindow \in Nat
  /\ Clock \subseteq Nat
  /\ Unknown \subseteq Ask

VARIABLES
  limited,         \* SSH_RATE_LIMIT
  now,             \* seconds since the server started
  lag,             \* by how much the clock was set back
  stamps,          \* the calls whose timestamps are in _command_timestamps
  stampOf,         \* the timestamp of each call
  passedAt,        \* when each call was let through, -1 before
  answer           \* what each call returned

rateVars == <<limited, now, lag, stamps, stampOf, passedAt, answer>>

RateInit ==
  /\ limited \in BOOLEAN
  /\ now = 0
  /\ lag = 0
  /\ stamps = {}
  /\ stampOf = [a \in Ask |-> 0]
  /\ passedAt = [a \in Ask |-> -1]
  /\ answer = [a \in Ask |-> "none"]

reading == now - lag

\* A fault: a timestamp is kept a second too long.
RecentTooLong == {a \in stamps : stampOf[a] >= reading - RateWindow}

\* The list comprehension that drops old timestamps.
Recent == {a \in stamps : stampOf[a] > reading - RateWindow}

\* A fault: one call too many.
FullOneLate == Cardinality(Recent) > RateMax

Full == Cardinality(Recent) >= RateMax

\* What happens to a call that is let through: its handler runs, if it has one.
Dispatched(a) == answer' = [answer EXCEPT ![a] = IF a \in Unknown THEN "unknown" ELSE "running"]

PassUnlimited(a) ==
  /\ answer[a] = "none"
  /\ ~limited
  /\ passedAt' = [passedAt EXCEPT ![a] = now]
  /\ Dispatched(a)
  /\ UNCHANGED <<limited, now, lag, stamps, stampOf>>

Pass(a) ==
  /\ answer[a] = "none"
  /\ limited
  /\ ~Full
  /\ stamps' = Recent \cup {a}
  /\ stampOf' = [stampOf EXCEPT ![a] = reading]
  /\ passedAt' = [passedAt EXCEPT ![a] = now]
  /\ Dispatched(a)
  /\ UNCHANGED <<limited, now, lag>>

Refuse(a) ==
  /\ answer[a] = "none"
  /\ limited
  /\ Full
  /\ stamps' = Recent
  /\ answer' = [answer EXCEPT ![a] = "limited"]
  /\ UNCHANGED <<limited, now, lag, stampOf, passedAt>>

\* The handler returns or raises; either way the call is answered.
HandlerEnds(a) ==
  /\ answer[a] = "running"
  /\ \E result \in {"result", "error"} : answer' = [answer EXCEPT ![a] = result]
  /\ UNCHANGED <<limited, now, lag, stamps, stampOf, passedAt>>

SecondPasses ==
  /\ now + 1 \in Clock
  /\ now' = now + 1
  /\ UNCHANGED <<limited, lag, stamps, stampOf, passedAt, answer>>

ClockSetBack ==
  /\ lag + 1 \in Clock
  /\ lag' = lag + 1
  /\ UNCHANGED <<limited, now, stamps, stampOf, passedAt, answer>>

RateNext ==
  \/ \E a \in Ask : PassUnlimited(a) \/ Pass(a) \/ Refuse(a) \/ HandlerEnds(a)
  \/ SecondPasses
  \/ ClockSetBack

RateSpec == RateInit /\ [][RateNext]_rateVars

-----------------------------------------------------------------------------

RateTypeOK ==
  /\ limited \in BOOLEAN
  /\ now \in Nat
  /\ lag \in Nat
  /\ stamps \subseteq Ask
  /\ stampOf \in [Ask -> Int]
  /\ passedAt \in [Ask -> Nat \cup {-1}]
  /\ answer \in [Ask -> {"none", "limited", "unknown", "running", "result", "error"}]

\* The calls let through in the last RateWindow seconds of real time.
InWindow == {a \in Ask : passedAt[a] >= 0 /\ passedAt[a] > now - RateWindow}

\* However the clock is set back, at most RateMax calls get past the limiter in any
\* RateWindow seconds ("more than _rate_limit_max requests in _rate_limit_window
\* seconds", server.py:211).  It does not hold of a clock that is set forward.
WindowBound == limited => Cardinality(InWindow) <= RateMax

\* The calls let through in the last RateWindow seconds and what the clock was set back.
InLaggedWindow == {a \in Ask : passedAt[a] >= 0 /\ passedAt[a] > now - lag - RateWindow}

\* A call is refused only for RateMax calls that were let through, each within RateWindow
\* seconds and what the clock was set back: refused calls and older ones do not count
\* (_check_rate_limit, server.py:206 and 211).
RefusedOnlyWhenFull ==
  [][\A a \in Ask :
       answer[a] # "limited" /\ answer'[a] = "limited" => Cardinality(InLaggedWindow) >= RateMax
    ]_rateVars
=============================================================================
