----------------------- MODULE OnlineTrajectoryProofs -----------------------
(***************************************************************************)
(* Lemmas about the arithmetic of the set-point generators, for every gain *)
(* and limit.                                                              *)
(***************************************************************************)
EXTENDS OnlineTrajectory, TLAPS

LEMMA ClampToBounds ==
  ASSUME NEW x \in Int, NEW lo \in Int, NEW hi \in Int, lo <= hi
  PROVE  ClampTo(x, lo, hi) \in lo..hi
  BY DEF ClampTo

LEMMA QuotientType ==
  ASSUME NEW x \in Int, NEW n \in Nat \ {0}
  PROVE  Quotient(x, n) \in Int
  BY DEF Quotient

LEMMA NextAccType ==
  ASSUME NEW err \in Int, NEW dq \in Int, NEW ddq \in Int, NEW dt \in Nat
  PROVE  NextAcc(err, dq, ddq, dt) \in Int
<1>1. Quotient(Kp * err - Kd * dq, Gain) \in Int
  BY QuotientType, GainsAssumption
<1> QED BY <1>1, GainsAssumption DEF NextAcc, ClampTo

LEMMA NextVelType ==
  ASSUME NEW dq \in Int, NEW ddq \in Int, NEW dt \in Nat
  PROVE  NextVel(dq, ddq, dt) \in Int
  BY GainsAssumption DEF NextVel, ClampTo

\* At rest with nothing to reach, the OTG stays at rest, and is quiet.
LEMMA RestIsQuiet ==
  ASSUME NEW dt \in Nat
  PROVE  /\ NextAcc(0, 0, 0, dt) = 0 /\ NextVel(0, 0, dt) = 0
         /\ IsQuiet(0, 0)
<1>1. Quotient(Kp * 0 - Kd * 0, Gain) = 0
  BY GainsAssumption DEF Quotient
<1>2. NextAcc(0, 0, 0, dt) = 0
  BY <1>1, GainsAssumption DEF NextAcc, ClampTo
<1>3. NextVel(0, 0, dt) = 0 /\ IsQuiet(0, 0)
  BY GainsAssumption DEF NextVel, ClampTo, IsQuiet, AbsVal
<1> QED BY <1>2, <1>3

LEMMA AlongType ==
  ASSUME NEW start \in Int, NEW end \in Int, NEW t \in Nat, NEW d \in Nat \ {0}
  PROVE  Along(start, end, t, d) \in Int
<1>1. d * d * d * d * d \in Nat \ {0}
  OBVIOUS
<1>2. MinJerkNumerator(t, d) \in Int
  BY DEF MinJerkNumerator
<1>3. Quotient(MinJerkNumerator(t, d) * (end - start), d * d * d * d * d) \in Int
  BY <1>1, <1>2, QuotientType
<1> QED BY <1>3 DEF Along

\* The velocity is in its limit whatever the acceleration and the period were.
LEMMA NextVelBounded ==
  ASSUME NEW dq \in Int, NEW ddq \in Int, NEW dt \in Nat
  PROVE  NextVel(dq, ddq, dt) \in -MaxVel..MaxVel
<1>1. dq + ddq * dt \in Int
  OBVIOUS
<1> QED BY <1>1, ClampToBounds, GainsAssumption DEF NextVel

\* A step at a bounded velocity covers a bounded distance.
LEMMA StepBounded ==
  ASSUME NEW v \in Int, NEW m \in Nat, NEW dt \in Nat, AbsVal(v) <= m
  PROVE  AbsVal(v * dt) <= m * dt
<1>1. -m <= v /\ v <= m
  BY DEF AbsVal
<1>2. v * dt <= m * dt /\ (-m) * dt <= v * dt
  BY <1>1
<1>3. (-m) * dt = -(m * dt) /\ v * dt \in Int /\ m * dt \in Int
  OBVIOUS
<1> QED BY <1>2, <1>3 DEF AbsVal

\* The acceleration of the OTG stays in its limit ...
LEMMA NextAccBounded ==
  ASSUME NEW err \in Int, NEW dq \in Int, NEW ddq \in -MaxAcc..MaxAcc, NEW dt \in Nat
  PROVE  NextAcc(err, dq, ddq, dt) \in -MaxAcc..MaxAcc
<1> DEFINE q == Quotient(Kp * err - Kd * dq, Gain)
           desired == ClampTo(q, -MaxAcc, MaxAcc)
<1>1. q \in Int
  BY QuotientType, GainsAssumption
<1> HIDE DEF q
<1>2. desired \in -MaxAcc..MaxAcc
  BY <1>1, GainsAssumption DEF ClampTo
<1>3. MaxJerk * dt \in Nat
  BY GainsAssumption
<1>4. NextAcc(err, dq, ddq, dt)
        = ddq + ClampTo(desired - ddq, -(MaxJerk * dt), MaxJerk * dt)
  BY DEF NextAcc, desired, q
<1> HIDE DEF desired
<1> QED BY <1>2, <1>3, <1>4, GainsAssumption DEF ClampTo

\* ... and so the velocity changes by no more than that allows, also where the
\* velocity limit cuts it.
LEMMA NextVelStep ==
  ASSUME NEW dq \in -MaxVel..MaxVel, NEW ddq \in -MaxAcc..MaxAcc, NEW dt \in Nat
  PROVE  AbsVal(NextVel(dq, ddq, dt) - dq) <= MaxAcc * dt
<1>1. AbsVal(ddq) <= MaxAcc
  BY GainsAssumption DEF AbsVal
<1>2. AbsVal(ddq * dt) <= MaxAcc * dt
  BY <1>1, StepBounded, GainsAssumption
<1>3. ddq * dt \in Int /\ MaxAcc * dt \in Nat
  BY GainsAssumption
<1> QED BY <1>2, <1>3, GainsAssumption DEF NextVel, ClampTo, AbsVal

\* What a change of velocity makes of the distance covered.
LEMMA PaceBounded ==
  ASSUME NEW vel \in Int, NEW dq \in Int, NEW change \in Nat, NEW dt \in Nat,
         AbsVal(vel - dq) <= change
  PROVE  AbsVal(vel * dt - dq * dt) <= change * dt
<1>1. AbsVal((vel - dq) * dt) <= change * dt
  <2>1. vel - dq \in Int
    OBVIOUS
  <2> QED BY <2>1, StepBounded
<1>2. (vel - dq) * dt = vel * dt - dq * dt
  OBVIOUS
<1> QED BY <1>1, <1>2

\* One step of length v * dt after a velocity of dq.
LEMMA PacedStep ==
  ASSUME NEW last \in Int, NEW dq \in Int, NEW v \in Int,
         NEW dt \in Nat, NEW slack \in Nat, AbsVal(v - dq) <= MaxAcc * dt + slack
  PROVE  AbsVal((last + v * dt) - last - dq * dt) <= (MaxAcc * dt + slack) * dt
<1>1. MaxAcc * dt + slack \in Nat
  BY GainsAssumption
<1>2. AbsVal(v * dt - dq * dt) <= (MaxAcc * dt + slack) * dt
  BY <1>1, PaceBounded
<1>3. v * dt \in Int /\ dq * dt \in Int
  OBVIOUS
<1>4. (last + v * dt) - last - dq * dt = v * dt - dq * dt
  BY <1>3
<1> QED BY <1>2, <1>4

-----------------------------------------------------------------------------
(* The slope of the min-jerk curve *)

LEMMA SquareNat ==
  ASSUME NEW x \in Int
  PROVE  x * x \in Nat
<1>1. CASE x >= 0
  BY <1>1
<1>2. CASE x < 0
  <2>1. (-x) * (-x) \in Nat
    BY <1>2
  <2>2. (-x) * (-x) = x * x
    OBVIOUS
  <2> QED BY <2>1, <2>2
<1> QED BY <1>1, <1>2

LEMMA ProductNat ==
  ASSUME NEW x \in Nat, NEW y \in Nat
  PROVE  x * y \in Nat
  OBVIOUS

\* The slope of the min-jerk curve between two times, up to the factor d^5.
Secant(s, t, d) ==
  10 * d * d * (s * s + s * t + t * t)
    - 15 * d * (s * s * s + s * s * t + s * t * t + t * t * t)
    + 6 * (s * s * s * s + s * s * s * t + s * s * t * t + s * t * t * t + t * t * t * t)

LEMMA SecantFactors ==
  ASSUME NEW s \in Int, NEW t \in Int, NEW d \in Int
  PROVE  MinJerkNumerator(s, d) - MinJerkNumerator(t, d) = (s - t) * Secant(s, t, d)
  BY DEF MinJerkNumerator, Secant

\* In times that are counted from the middle of the segment it is symmetric.
LEMMA SecantCentred ==
  ASSUME NEW s \in Int, NEW t \in Int, NEW d \in Int
  PROVE  LET x == 2 * s - d
             y == 2 * t - d
             p == x * x + x * y + y * y
         IN  8 * Secant(s, t, d)
               = 15 * (d * d * d * d) - 10 * (d * d) * p
                   + 3 * ((x * x + y * y) * p - (x * x) * (y * y))
  BY DEF Secant

\* In the segment, 0 <= 8 * Secant <= 15 * d^4: the mean of the min-jerk curve's
\* slope between two times is at most its peak.
LEMMA SecantBounds ==
  ASSUME NEW d \in Nat, NEW s \in 0..d, NEW t \in 0..d
  PROVE  0 <= Secant(s, t, d) /\ 8 * Secant(s, t, d) <= 15 * (d * d * d * d)
<1> DEFINE x == 2 * s - d
           y == 2 * t - d
           a == x * x
           b == y * y
           c == x * y
           e == d * d
           p == a + c + b
<1>1. x \in Int /\ y \in Int /\ x + y \in Int /\ x - y \in Int
  OBVIOUS
<1>2. a \in Nat /\ b \in Nat /\ c \in Int /\ e \in Nat
  BY <1>1, SquareNat
<1>3. a <= e /\ b <= e
  <2>1. (d - s) * s >= 0 /\ (d - t) * t >= 0
    OBVIOUS
  <2>2. e - a = 4 * ((d - s) * s) /\ e - b = 4 * ((d - t) * t)
    OBVIOUS
  <2> QED BY <2>1, <2>2, <1>2
<1>4. p \in Nat /\ 7 * (a + 2 * c + b) + a + b \in Nat
  <2>1. (x + y) * (x + y) \in Nat
    BY <1>1, SquareNat
  <2>2. (x + y) * (x + y) = a + 2 * c + b
    OBVIOUS
  <2>3. a + 2 * c + b \in Nat
    BY <2>1, <2>2
  <2> HIDE DEF a, b, c
  <2> QED BY <1>2, <2>3
<1>5. c * c = a * b
  OBVIOUS
<1>6. 8 * Secant(s, t, d) = 15 * (e * e) - 10 * e * p + 3 * ((a + b) * p - a * b)
  <2>1. 8 * Secant(s, t, d)
          = 15 * (d * d * d * d) - 10 * (d * d) * p
              + 3 * ((x * x + y * y) * p - (x * x) * (y * y))
    BY SecantCentred
  <2> QED BY <2>1
<1>7. Secant(s, t, d) \in Int
  BY DEF Secant
<1>8. (x - y) * (x - y) = a - 2 * c + b
  OBVIOUS
<1>9. a - 2 * c + b \in Nat
  BY <1>1, <1>8, SquareNat
<1>10. d * d * d * d = e * e
  OBVIOUS
<1> HIDE DEF x, y, a, b, c, e
<1>11. 24 * Secant(s, t, d)
        = 5 * ((3 * e - p) * (3 * e - p)) + (a - 2 * c + b) * (4 * a + 7 * c + 4 * b)
  <2>1. 24 * Secant(s, t, d) = 45 * (e * e) - 30 * e * p + 9 * ((a + b) * p - a * b)
    BY <1>2, <1>6, <1>7
  <2>2. 9 * ((a + b) * p - a * b)
          = 5 * (p * p) + (a - 2 * c + b) * (4 * a + 7 * c + 4 * b)
    BY <1>2, <1>5
  <2> QED BY <1>2, <2>1, <2>2
<1>12. Secant(s, t, d) >= 0
  <2>1. (3 * e - p) * (3 * e - p) \in Nat
    BY <1>2, SquareNat
  <2>2. (a - 2 * c + b) * (7 * (a + 2 * c + b) + a + b) \in Nat
    BY <1>2, <1>4, <1>9
  <2>3. (a - 2 * c + b) * (7 * (a + 2 * c + b) + a + b)
          = 2 * ((a - 2 * c + b) * (4 * a + 7 * c + 4 * b))
    BY <1>2
  <2> QED BY <1>2, <1>7, <1>11, <2>1, <2>2, <2>3
<1>13. 8 * Secant(s, t, d) <= 15 * (e * e)
  <2>1. 15 * (e * e) - 8 * Secant(s, t, d)
          = (10 * e - 3 * (a + b)) * p + 3 * (a * b)
    BY <1>2, <1>6, <1>7
  <2>2. 10 * e - 3 * (a + b) \in Nat
    BY <1>2, <1>3
  <2>3. (10 * e - 3 * (a + b)) * p \in Nat /\ a * b \in Nat
    BY <1>2, <1>4, <2>2
  <2> QED BY <1>2, <1>7, <2>1, <2>3
<1> QED BY <1>10, <1>12, <1>13

\* The curve goes from 0 to d^5 and stays between them.
LEMMA MinJerkRange ==
  ASSUME NEW d \in Nat, NEW t \in 0..d
  PROVE  0 <= MinJerkNumerator(t, d) /\ MinJerkNumerator(t, d) <= d * d * d * d * d
<1>1. MinJerkNumerator(0, d) = 0 /\ MinJerkNumerator(d, d) = d * d * d * d * d
  BY DEF MinJerkNumerator
<1>2. /\ MinJerkNumerator(t, d) - MinJerkNumerator(0, d) = t * Secant(t, 0, d)
      /\ MinJerkNumerator(d, d) - MinJerkNumerator(t, d) = (d - t) * Secant(d, t, d)
  BY SecantFactors
<1>3. Secant(t, 0, d) \in Nat /\ Secant(d, t, d) \in Nat
  BY SecantBounds DEF Secant
<1>4. t * Secant(t, 0, d) \in Nat /\ (d - t) * Secant(d, t, d) \in Nat
  BY <1>3, ProductNat
<1>5. MinJerkNumerator(t, d) \in Int /\ d * d * d * d * d \in Nat
  BY DEF MinJerkNumerator
<1> QED BY <1>1, <1>2, <1>4, <1>5

LEMMA DivisionFact ==
  ASSUME NEW x \in Nat, NEW n \in Nat \ {0}
  PROVE  /\ x \div n \in Nat
         /\ n * (x \div n) <= x /\ x < n * (x \div n) + n
  OBVIOUS

\* Division by n shrinks a distance of k * n to k.
LEMMA DivisionStep ==
  ASSUME NEW x \in Nat, NEW y \in Nat, NEW n \in Nat \ {0}, NEW k \in Nat,
         x <= y, y <= x + k * n
  PROVE  x \div n <= y \div n /\ y \div n <= x \div n + k
<1> DEFINE p == x \div n
           q == y \div n
<1>1. p \in Nat /\ n * p <= x /\ x < n * p + n
  BY DivisionFact
<1>2. q \in Nat /\ n * q <= y /\ y < n * q + n
  BY DivisionFact
<1> HIDE DEF p, q
<1>3. n * p < n * (q + 1)
  BY <1>1, <1>2
<1>4. p < q + 1
  BY <1>1, <1>2, <1>3
<1>5. n * q < n * (p + k + 1)
  BY <1>1, <1>2
<1>6. q < p + k + 1
  BY <1>1, <1>2, <1>5
<1> QED BY <1>1, <1>2, <1>4, <1>6 DEF p, q

\* Up to its end a segment is its formula, also at the end itself.
LEMMA AlongFormula ==
  ASSUME NEW start \in Int, NEW end \in Int, NEW d \in Nat \ {0}, NEW t \in 0..d
  PROVE  Along(start, end, t, d)
           = start + Quotient(MinJerkNumerator(t, d) * (end - start), d * d * d * d * d)
<1> DEFINE n == d * d * d * d * d
<1>1. n \in Nat \ {0}
  OBVIOUS
<1>2. MinJerkNumerator(d, d) = n
  BY DEF MinJerkNumerator
<1> HIDE DEF n
<1>3. Quotient(n * (end - start), n) = end - start
  <2>1. ASSUME NEW m \in Nat PROVE (n * m) \div n = m
    <3>1. DEFINE q == (n * m) \div n
    <3>2. n * m \in Nat
      BY <1>1
    <3>3. q \in Nat /\ n * q <= n * m /\ n * m < n * q + n
      BY <1>1, <3>2, DivisionFact
    <3> HIDE DEF q
    <3>4. n * m < n * (q + 1)
      BY <1>1, <3>3
    <3>5. q <= m /\ m < q + 1
      BY <1>1, <3>3, <3>4
    <3> QED BY <3>3, <3>5 DEF q
  <2>2. CASE end >= start
    <3>1. end - start \in Nat /\ n * (end - start) \in Nat
      BY <1>1, <2>2
    <3>2. (n * (end - start)) \div n = end - start
      BY <2>1, <3>1
    <3> QED BY <3>1, <3>2 DEF Quotient
  <2>3. CASE end < start
    <3>1. start - end \in Nat /\ n * (end - start) < 0
      BY <1>1, <2>3
    <3>2. -(n * (end - start)) = n * (start - end)
      BY <1>1
    <3>3. (n * (start - end)) \div n = start - end
      BY <2>1, <3>1
    <3> QED BY <3>1, <3>2, <3>3 DEF Quotient
  <2> QED BY <2>2, <2>3
<1>4. CASE t = d
  BY <1>2, <1>3, <1>4 DEF Along, n
<1>5. CASE t < d
  BY <1>5 DEF Along, n
<1> QED BY <1>4, <1>5 DEF n

\* The sign of a quotient is that of its numerator.
LEMMA QuotientSigns ==
  ASSUME NEW x \in Nat, NEW n \in Nat \ {0}
  PROVE  Quotient(x, n) = x \div n /\ Quotient(-x, n) = -(x \div n)
<1>1. CASE x = 0
  BY <1>1, DivisionFact DEF Quotient
<1>2. CASE x # 0
  BY <1>2, DivisionFact DEF Quotient
<1> QED BY <1>1, <1>2

\* A segment whose duration allows for the peak of the min-jerk curve never
\* moves faster than v, and goes from its start to its end without overshoot.
LEMMA AlongSpeed ==
  ASSUME NEW start \in Int, NEW end \in Int, NEW d \in Nat \ {0}, NEW v \in Nat,
         8 * v * d >= 15 * AbsVal(end - start),
         NEW s \in 0..d, NEW t \in 0..s
  PROVE  /\ AbsVal(Along(start, end, s, d) - Along(start, end, t, d)) <= v * (s - t)
         /\ end >= start => Along(start, end, s, d) >= Along(start, end, t, d)
         /\ end < start  => Along(start, end, s, d) <= Along(start, end, t, d)
<1> DEFINE n == d * d * d * d * d
           m(u) == MinJerkNumerator(u, d)
           x == end - start
           y == AbsVal(x)
           k == v * (s - t)
<1>1. n \in Nat \ {0} /\ x \in Int /\ y \in Nat /\ k \in Nat
  <2>1. n \in Nat \ {0} /\ x \in Int /\ y \in Nat
    BY DEF AbsVal
  <2>2. k \in Nat
    BY ProductNat
  <2> QED BY <2>1, <2>2
<1>2. m(s) \in Nat /\ m(t) \in Nat
  BY MinJerkRange DEF MinJerkNumerator
<1>3. m(t) * y <= m(s) * y /\ m(s) * y <= m(t) * y + k * n
  <2> DEFINE q == Secant(s, t, d)
             e == d * d * d * d
  <2>1. q \in Nat /\ e \in Nat /\ 8 * q <= 15 * e
    BY SecantBounds DEF Secant
  <2>2. m(s) - m(t) = (s - t) * q
    BY SecantFactors
  <2>3. n = d * e
    OBVIOUS
  <2>4. 8 * v * d >= 15 * y
    OBVIOUS
  <2> HIDE DEF q, e, m, n, y
  <2>5. (s - t) * q * y \in Nat
    BY <1>1, <2>1, ProductNat
  <2>6. m(s) * y - m(t) * y = (s - t) * q * y
    <3>1. (m(s) - m(t)) * y = m(s) * y - m(t) * y
      BY <1>1, <1>2
    <3> QED BY <2>2, <3>1
  <2>7. 8 * (q * y) <= 8 * (v * d * e)
    <3>1. (15 * e - 8 * q) * y >= 0 /\ e * (8 * v * d - 15 * y) >= 0
      BY <1>1, <2>1, <2>4
    <3> QED BY <1>1, <2>1, <3>1
  <2>8. q * y <= v * d * e
    BY <1>1, <2>1, <2>7
  <2>9. (s - t) * (v * d * e - q * y) >= 0
    BY <1>1, <2>1, <2>8
  <2>10. (s - t) * q * y <= k * n
    BY <1>1, <2>1, <2>3, <2>9
  <2> QED BY <1>1, <1>2, <2>1, <2>5, <2>6, <2>10
<1>4. m(t) * y \in Nat /\ m(s) * y \in Nat
  BY <1>1, <1>2, ProductNat
<1>5. /\ (m(t) * y) \div n <= (m(s) * y) \div n
      /\ (m(s) * y) \div n <= (m(t) * y) \div n + k
  BY <1>1, <1>3, <1>4, DivisionStep
<1>6. (m(t) * y) \div n \in Int /\ (m(s) * y) \div n \in Int
  BY <1>1, <1>4, DivisionFact
<1>7. /\ Along(start, end, s, d) = start + Quotient(m(s) * x, n)
      /\ Along(start, end, t, d) = start + Quotient(m(t) * x, n)
  <2>1. s \in 0..d /\ t \in 0..d
    OBVIOUS
  <2> QED BY <2>1, AlongFormula
<1> HIDE DEF m, n, k, x, y
<1>8. CASE end >= start
  <2>1. x = y
    BY <1>8 DEF AbsVal, x, y
  <2>2. /\ Quotient(m(s) * x, n) = (m(s) * y) \div n
        /\ Quotient(m(t) * x, n) = (m(t) * y) \div n
    BY <1>1, <1>4, <2>1, QuotientSigns
  <2> QED BY <1>1, <1>5, <1>6, <1>7, <1>8, <2>2 DEF AbsVal, k
<1>9. CASE end < start
  <2>1. x = -y
    BY <1>9 DEF AbsVal, x, y
  <2>2. m(s) * x = -(m(s) * y) /\ m(t) * x = -(m(t) * y)
    BY <1>1, <1>2, <2>1
  <2>3. /\ Quotient(m(s) * x, n) = -((m(s) * y) \div n)
        /\ Quotient(m(t) * x, n) = -((m(t) * y) \div n)
    BY <1>1, <1>4, <2>2, QuotientSigns
  <2> QED BY <1>1, <1>5, <1>6, <1>7, <1>9, <2>3 DEF AbsVal, k
<1> QED BY <1>8, <1>9

\* The same from one callback to the next, also where the segment ends.
LEMMA AlongStep ==
  ASSUME NEW start \in Int, NEW end \in Int, NEW d \in Nat \ {0}, NEW v \in Nat,
         8 * v * d >= 15 * AbsVal(end - start),
         NEW t \in 0..d, NEW dt \in Nat
  PROVE  AbsVal(Along(start, end, t + dt, d) - Along(start, end, t, d)) <= v * dt
<1>1. CASE t + dt <= d
  <2>1. t + dt \in 0..d /\ t \in 0..(t + dt) /\ (t + dt) - t = dt
    BY <1>1
  <2> QED BY <2>1, AlongSpeed
<1>2. CASE t + dt > d
  <2>1. Along(start, end, t + dt, d) = Along(start, end, d, d)
    BY <1>2 DEF Along
  <2>2. AbsVal(Along(start, end, d, d) - Along(start, end, t, d)) <= v * (d - t)
    <3>1. d \in 0..d /\ t \in 0..d
      OBVIOUS
    <3> QED BY <3>1, AlongSpeed
  <2>3. v * (d - t) <= v * dt
    <3>1. v * (dt - (d - t)) >= 0
      BY <1>2
    <3> QED BY <3>1
  <2>4. Along(start, end, d, d) \in Int /\ Along(start, end, t, d) \in Int
    <3>1. t \in Nat /\ d \in Nat
      OBVIOUS
    <3> QED BY <3>1, AlongType
  <2>5. AbsVal(Along(start, end, d, d) - Along(start, end, t, d)) \in Int
    BY <2>4 DEF AbsVal
  <2> QED BY <2>1, <2>2, <2>3, <2>5
<1> QED BY <1>1, <1>2

LEMMA AlongStart ==
  ASSUME NEW start \in Int, NEW end \in Int, NEW d \in Nat \ {0}
  PROVE  Along(start, end, 0, d) = start
<1>1. d * d * d * d * d \in Nat \ {0}
  OBVIOUS
<1>2. 0 \div (d * d * d * d * d) = 0
  BY <1>1, DivisionFact
<1>3. MinJerkNumerator(0, d) * (end - start) = 0
  BY DEF MinJerkNumerator
<1> QED BY <1>2, <1>3 DEF Along, Quotient

\* A segment stays between its start and its end, whatever its duration.
LEMMA AlongBetween ==
  ASSUME NEW start \in Int, NEW end \in Int, NEW d \in Nat \ {0}, NEW t \in Nat
  PROVE  \/ start <= Along(start, end, t, d) /\ Along(start, end, t, d) <= end
         \/ end <= Along(start, end, t, d) /\ Along(start, end, t, d) <= start
<1>1. CASE t >= d
  BY <1>1 DEF Along
<1>2. CASE t < d
  <2> DEFINE v == 15 * AbsVal(end - start)
  <2>1. v \in Nat /\ 8 * v * d >= 15 * AbsVal(end - start)
    <3>1. AbsVal(end - start) \in Nat /\ d >= 1
      BY DEF AbsVal
    <3>2. v * (d - 1) >= 0 /\ v \in Nat
      BY <3>1
    <3> QED BY <3>1, <3>2
  <2>2. Along(start, end, d, d) = end
    BY DEF Along
  <2>3. Along(start, end, 0, d) = start
    BY AlongStart
  <2> HIDE DEF v
  <2>4. /\ end >= start => /\ Along(start, end, t, d) >= Along(start, end, 0, d)
                           /\ Along(start, end, d, d) >= Along(start, end, t, d)
        /\ end < start  => /\ Along(start, end, t, d) <= Along(start, end, 0, d)
                           /\ Along(start, end, d, d) <= Along(start, end, t, d)
    <3>1. t \in 0..d /\ 0 \in 0..t /\ d \in 0..d
      BY <1>2
    <3> QED BY <2>1, <3>1, AlongSpeed
  <2> QED BY <2>2, <2>3, <2>4
<1> QED BY <1>1, <1>2
\* x is where a coordinate gets to that moves from last towards end.
Towards(x, last, end) == (last <= x /\ x <= end) \/ (end <= x /\ x <= last)

\* Later on a segment is nearer to its end, and never beyond it.
LEMMA AlongTowards ==
  ASSUME NEW start \in Int, NEW end \in Int, NEW d \in Nat \ {0},
         NEW t \in Nat, NEW dt \in Nat
  PROVE  Towards(Along(start, end, t + dt, d), Along(start, end, t, d), end)
<1>1. Along(start, end, t, d) \in Int
  BY AlongType
<1>2. CASE t + dt >= d
  BY <1>1, <1>2 DEF Along, Towards
<1>3. CASE t + dt < d
  <2> DEFINE v == 15 * AbsVal(end - start)
  <2>1. v \in Nat /\ 8 * v * d >= 15 * AbsVal(end - start)
    <3>1. AbsVal(end - start) \in Nat /\ d >= 1
      BY DEF AbsVal
    <3>2. v * (d - 1) >= 0 /\ v \in Nat
      BY <3>1
    <3> QED BY <3>1, <3>2
  <2>2. Along(start, end, d, d) = end
    BY DEF Along
  <2> HIDE DEF v
  <2>3. t + dt \in 0..d /\ t \in 0..(t + dt) /\ d \in 0..d
    BY <1>3
  <2>4. /\ end >= start => /\ Along(start, end, t + dt, d) >= Along(start, end, t, d)
                           /\ Along(start, end, d, d) >= Along(start, end, t + dt, d)
        /\ end < start  => /\ Along(start, end, t + dt, d) <= Along(start, end, t, d)
                           /\ Along(start, end, d, d) <= Along(start, end, t + dt, d)
    BY <2>1, <2>3, AlongSpeed
  <2> QED BY <2>2, <2>4 DEF Towards
<1> QED BY <1>2, <1>3
=============================================================================
