-------------------------- MODULE RateLimiterProofs --------------------------
(* The bounds of RateLimiter, for every limit, window and number of calls.    *)
EXTENDS RateLimiter, FiniteSetTheorems, TLAPS

\* A timestamp was taken when the clock lagged less, so it is late enough to be
\* kept whenever its call is still in the window.
StampsLate ==
  \A a \in Ask : passedAt[a] >= 0 /\ limited => stampOf[a] >= passedAt[a] - lag

\* The list holds the calls of the window, and never more than RateMax.
Remembered == limited => InWindow \subseteq stamps

ListBounded == limited => Cardinality(stamps) <= RateMax

RateInv == RateTypeOK /\ StampsLate /\ Remembered /\ ListBounded

\* The type invariant of the limiter.
THEOREM RateTypeCorrect == RateSpec => []RateTypeOK
<1>1. RateInit => RateTypeOK
  BY RateAssumption DEF RateInit, RateTypeOK
<1>2. RateTypeOK /\ [RateNext]_rateVars => RateTypeOK'
  <2> SUFFICES ASSUME RateTypeOK, [RateNext]_rateVars PROVE RateTypeOK'
    OBVIOUS
  <2>. USE DEF RateTypeOK
  <2>1. ASSUME NEW a \in Ask, PassUnlimited(a) PROVE RateTypeOK'
    BY <2>1 DEF PassUnlimited, Dispatched
  <2>2. ASSUME NEW a \in Ask, Pass(a) PROVE RateTypeOK'
    BY <2>2 DEF Pass, Dispatched, Recent, reading
  <2>3. ASSUME NEW a \in Ask, Refuse(a) PROVE RateTypeOK'
    BY <2>3 DEF Refuse, Recent
  <2>4. ASSUME NEW a \in Ask, HandlerEnds(a) PROVE RateTypeOK'
    BY <2>4 DEF HandlerEnds
  <2>5. CASE SecondPasses
    BY <2>5 DEF SecondPasses
  <2>6. CASE ClockSetBack
    BY <2>6 DEF ClockSetBack
  <2>7. CASE UNCHANGED rateVars
    BY <2>7 DEF rateVars
  <2>. QED
    BY <2>1, <2>2, <2>3, <2>4, <2>5, <2>6, <2>7 DEF RateNext
<1>. QED
  BY <1>1, <1>2, PTL DEF RateSpec

LEMMA StampsFinite == ASSUME RateTypeOK PROVE IsFiniteSet(stamps) /\ IsFiniteSet(Recent)
  BY RateAssumption, FS_Subset DEF RateTypeOK, Recent

\* What is dropped from the list is out of the window.
LEMMA RecentCovers ==
  ASSUME RateTypeOK, StampsLate, Remembered, limited
  PROVE InWindow \subseteq Recent
  BY RateAssumption DEF RateTypeOK, StampsLate, Remembered, InWindow, Recent, reading

LEMMA RecentBounded ==
  ASSUME RateTypeOK, ListBounded, limited
  PROVE Cardinality(Recent) <= RateMax /\ Cardinality(Recent) \in Nat
<1>1. IsFiniteSet(stamps) /\ Recent \subseteq stamps
  BY StampsFinite DEF Recent
<1>2. Cardinality(Recent) <= Cardinality(stamps)
  BY <1>1, FS_Subset
<1>3. Cardinality(Recent) \in Nat /\ Cardinality(stamps) \in Nat
  BY StampsFinite, FS_CardinalityType
<1>. QED
  BY <1>2, <1>3, RateAssumption DEF ListBounded

LEMMA InWindowShrinks ==
  ASSUME RateTypeOK, passedAt' = passedAt, now' \in Nat, now' >= now
  PROVE InWindow' \subseteq InWindow
  BY RateAssumption DEF RateTypeOK, InWindow

\* A call that is let through is the only one that joins the window.
LEMMA PassKeeps ==
  ASSUME RateInv, NEW a \in Ask, Pass(a)
  PROVE StampsLate' /\ Remembered' /\ ListBounded'
<1>. USE DEF RateInv
<1>1. StampsLate'
  BY RateAssumption DEF Pass, StampsLate, RateTypeOK, reading
<1>2. InWindow' \subseteq InWindow \cup {a}
  BY DEF Pass, InWindow, RateTypeOK
<1>3. Remembered'
  BY <1>2, RecentCovers DEF Pass, Remembered
<1>4. Cardinality(Recent) \in Nat /\ Cardinality(Recent) < RateMax
  <2>1. Cardinality(Recent) \in Nat /\ Cardinality(Recent) <= RateMax
    BY RecentBounded DEF Pass
  <2>2. ~(Cardinality(Recent) >= RateMax)
    BY DEF Pass, Full
  <2>. QED
    BY <2>1, <2>2, RateAssumption
<1>5. Cardinality(stamps') <= Cardinality(Recent) + 1
  <2>1. IsFiniteSet(Recent)
    BY StampsFinite
  <2>2. stamps' = Recent \cup {a}
    BY DEF Pass
  <2>3. Cardinality(Recent \cup {a}) =
          IF a \in Recent THEN Cardinality(Recent) ELSE Cardinality(Recent) + 1
    BY <2>1, FS_AddElement
  <2>. QED
    BY <2>2, <2>3, <1>4
<1>6. Cardinality(stamps') \in Nat
  <2>1. stamps' \subseteq Ask
    BY DEF Pass, RateTypeOK, Recent
  <2>. QED
    BY <2>1, RateAssumption, FS_Subset, FS_CardinalityType
<1>7. ListBounded'
  BY <1>4, <1>5, <1>6, RateAssumption DEF ListBounded
<1>. QED
  BY <1>1, <1>3, <1>7

LEMMA RefuseKeeps ==
  ASSUME RateInv, NEW a \in Ask, Refuse(a)
  PROVE StampsLate' /\ Remembered' /\ ListBounded'
<1>. USE DEF RateInv
<1>1. StampsLate'
  BY DEF Refuse, StampsLate
<1>2. InWindow' = InWindow
  BY DEF Refuse, InWindow
<1>3. Remembered'
  BY <1>2, RecentCovers DEF Refuse, Remembered
<1>4. ListBounded'
  BY RecentBounded DEF Refuse, ListBounded
<1>. QED
  BY <1>1, <1>3, <1>4

LEMMA RateInvInductive == RateInit => RateInv
<1> SUFFICES ASSUME RateInit PROVE RateInv
  OBVIOUS
<1>1. RateTypeOK /\ StampsLate
  BY RateAssumption DEF RateInit, RateTypeOK, StampsLate
<1>2. Remembered
  BY DEF RateInit, Remembered, InWindow
<1>3. ListBounded
  BY FS_EmptySet, RateAssumption DEF RateInit, ListBounded
<1>. QED
  BY <1>1, <1>2, <1>3 DEF RateInv

LEMMA RateInvStep == RateInv /\ RateTypeOK' /\ [RateNext]_rateVars => RateInv'
<1> SUFFICES ASSUME RateInv, RateTypeOK', [RateNext]_rateVars
             PROVE StampsLate' /\ Remembered' /\ ListBounded'
  BY DEF RateInv
<1>1. ASSUME NEW a \in Ask, PassUnlimited(a)
      PROVE StampsLate' /\ Remembered' /\ ListBounded'
  BY <1>1 DEF PassUnlimited, StampsLate, Remembered, ListBounded
<1>2. ASSUME NEW a \in Ask, Pass(a) PROVE StampsLate' /\ Remembered' /\ ListBounded'
  BY <1>2, PassKeeps
<1>3. ASSUME NEW a \in Ask, Refuse(a) PROVE StampsLate' /\ Remembered' /\ ListBounded'
  BY <1>3, RefuseKeeps
<1>4. ASSUME NEW a \in Ask, HandlerEnds(a)
      PROVE StampsLate' /\ Remembered' /\ ListBounded'
  BY <1>4 DEF HandlerEnds, RateInv, StampsLate, Remembered, ListBounded, InWindow
<1>5. CASE SecondPasses
  <2>1. InWindow' \subseteq InWindow
    BY <1>5, InWindowShrinks DEF SecondPasses, RateInv, RateTypeOK
  <2>. QED
    BY <1>5, <2>1 DEF SecondPasses, RateInv, StampsLate, Remembered, ListBounded
<1>6. CASE ClockSetBack
  BY <1>6, RateAssumption
  DEF ClockSetBack, RateInv, RateTypeOK, StampsLate, Remembered, ListBounded, InWindow
<1>7. CASE UNCHANGED rateVars
  BY <1>7 DEF rateVars, RateInv, StampsLate, Remembered, ListBounded, InWindow
<1>. QED
  BY <1>1, <1>2, <1>3, <1>4, <1>5, <1>6, <1>7 DEF RateNext

\* The window is in the list, and the list is bounded.
LEMMA RateInvBounds == RateInv => WindowBound
<1> SUFFICES ASSUME RateInv, limited PROVE Cardinality(InWindow) <= RateMax
  BY DEF WindowBound
<1>1. IsFiniteSet(stamps) /\ InWindow \subseteq stamps
  BY StampsFinite DEF RateInv, Remembered
<1>2. Cardinality(InWindow) <= Cardinality(stamps) /\ IsFiniteSet(InWindow)
  BY <1>1, FS_Subset
<1>3. Cardinality(InWindow) \in Nat /\ Cardinality(stamps) \in Nat
  BY <1>1, <1>2, FS_CardinalityType
<1>. QED
  BY <1>2, <1>3, RateAssumption DEF RateInv, ListBounded

\* At most RateMax calls get past the limiter in any RateWindow seconds of real time,
\* however often the clock is set back (_check_rate_limit, server.py:200).
THEOREM WindowBoundCorrect == RateSpec => []WindowBound
<1>1. RateSpec => []RateTypeOK
  BY RateTypeCorrect
<1>2. RateInv /\ RateTypeOK' /\ [RateNext]_rateVars => RateInv'
  BY RateInvStep
<1>3. RateInit => RateInv
  BY RateInvInductive
<1>4. RateInv => WindowBound
  BY RateInvBounds
<1>. QED
  BY <1>1, <1>2, <1>3, <1>4, PTL DEF RateSpec

\* Only calls that were let through have a timestamp, and it is not later than that.
StampsTrue == \A a \in stamps : limited /\ passedAt[a] >= 0 /\ stampOf[a] <= passedAt[a]

LEMMA StampsTrueStep == RateTypeOK /\ StampsTrue /\ [RateNext]_rateVars => StampsTrue'
<1> SUFFICES ASSUME RateTypeOK, StampsTrue, [RateNext]_rateVars PROVE StampsTrue'
  OBVIOUS
<1>1. ASSUME NEW a \in Ask, PassUnlimited(a) PROVE StampsTrue'
  BY <1>1 DEF PassUnlimited, StampsTrue
<1>2. ASSUME NEW a \in Ask, Pass(a) PROVE StampsTrue'
  <2>1. stampOf'[a] <= passedAt'[a] /\ passedAt'[a] >= 0
    BY <1>2 DEF Pass, RateTypeOK, reading
  <2>2. \A b \in Recent \ {a} : stampOf'[b] = stampOf[b] /\ passedAt'[b] = passedAt[b]
    BY <1>2 DEF Pass, RateTypeOK, Recent
  <2>. QED BY <1>2, <2>1, <2>2 DEF Pass, StampsTrue, Recent
<1>3. ASSUME NEW a \in Ask, Refuse(a) PROVE StampsTrue'
  BY <1>3 DEF Refuse, StampsTrue, Recent
<1>4. ASSUME NEW a \in Ask, HandlerEnds(a) PROVE StampsTrue'
  BY <1>4 DEF HandlerEnds, StampsTrue
<1>5. CASE SecondPasses
  BY <1>5 DEF SecondPasses, StampsTrue
<1>6. CASE ClockSetBack
  BY <1>6 DEF ClockSetBack, StampsTrue
<1>7. CASE UNCHANGED rateVars
  BY <1>7 DEF rateVars, StampsTrue
<1>. QED
  BY <1>1, <1>2, <1>3, <1>4, <1>5, <1>6, <1>7 DEF RateNext

\* What is counted against a call is in the window, give or take the clock's lag.
LEMMA RefusalJustified ==
  ASSUME RateTypeOK, StampsTrue, NEW a \in Ask, Refuse(a)
  PROVE  Cardinality(InLaggedWindow) >= RateMax
<1>1. Recent \subseteq InLaggedWindow
  BY RateAssumption DEF RateTypeOK, StampsTrue, Recent, InLaggedWindow, reading
<1>2. IsFiniteSet(InLaggedWindow) /\ IsFiniteSet(Recent)
  BY RateAssumption, FS_Subset, StampsFinite DEF InLaggedWindow
<1>3. /\ Cardinality(Recent) \in Nat /\ Cardinality(InLaggedWindow) \in Nat
      /\ Cardinality(Recent) <= Cardinality(InLaggedWindow)
  BY <1>1, <1>2, FS_Subset, FS_CardinalityType
<1>4. Cardinality(Recent) >= RateMax
  BY DEF Refuse, Full
<1>. QED
  BY <1>3, <1>4, RateAssumption

\* The limiter refuses nobody for calls that were refused themselves or that have left the
\* window (_check_rate_limit, server.py:206 and 211).
THEOREM RefusedOnlyWhenFullCorrect == RateSpec => RefusedOnlyWhenFull
<1>1. RateInit => StampsTrue
  BY DEF RateInit, StampsTrue
<1>2. RateTypeOK /\ StampsTrue /\ [RateNext]_rateVars =>
        [\A a \in Ask :
           answer[a] # "limited" /\ answer'[a] = "limited" =>
             Cardinality(InLaggedWindow) >= RateMax]_rateVars
  <2> SUFFICES ASSUME RateTypeOK, StampsTrue, RateNext, NEW b \in Ask,
                      answer[b] # "limited", answer'[b] = "limited"
               PROVE  Cardinality(InLaggedWindow) >= RateMax
    OBVIOUS
  <2>1. ASSUME NEW a \in Ask, PassUnlimited(a) \/ Pass(a) PROVE FALSE
    BY <2>1 DEF PassUnlimited, Pass, Dispatched, RateTypeOK
  <2>2. ASSUME NEW a \in Ask, HandlerEnds(a) PROVE FALSE
    BY <2>2 DEF HandlerEnds, RateTypeOK
  <2>3. CASE SecondPasses \/ ClockSetBack
    BY <2>3 DEF SecondPasses, ClockSetBack
  <2>. QED
    BY <2>1, <2>2, <2>3, RefusalJustified DEF RateNext
<1>. QED
  BY <1>1, <1>2, StampsTrueStep, RateTypeCorrect, PTL DEF RateSpec, RefusedOnlyWhenFull
=============================================================================
