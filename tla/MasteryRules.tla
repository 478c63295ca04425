---------------------------- MODULE MasteryRules ----------------------------
(***************************************************************************)
(* The deterministic rules of apps/api/services/mastery_rules.py, over     *)
(* integers: a score ratio is in hundredths (the code rounds it to two     *)
(* digits), a mastery level in ten-thousandths (four digits).              *)
(***************************************************************************)
EXTENDS Integers, Sequences

\* Where a new knowledge point starts: INITIAL_MASTERY, which initial_mastery()
\* returns and the tests expect, but nobody asks for ...
InitialMastery == 5000

\* ... and the default of the column current_level, which a new row gets.
DefaultLevel == 0

MASTERED_THRESHOLD == 80
LOW_THRESHOLD == 50
MIN_DIFFICULTY == 1
MAX_DIFFICULTY == 3

Ratio == 0 .. 100
Level == 0 .. 10000

Clamp(low, high, n) == IF n < low THEN low ELSE IF n > high THEN high ELSE n

\* 0.7 * old + 0.3 * ratio, rounded by the caller to four digits (which way a
\* tie goes depends on the floating point representation; here it goes up).
ComputeMastery(old, ratio) == Clamp(0, 10000, (7 * old + 300 * ratio + 5) \div 10)

\* Mutation: an uncertain grade is not looked at.
ShouldCreateWrongBookCertain(ratio, uncertain) == ratio < MASTERED_THRESHOLD

ShouldCreateWrongBook(ratio, uncertain) == ratio < MASTERED_THRESHOLD \/ uncertain

\* The status after the last two scores, oldest first: TRUE is a good score.
ComputeMasteryStatus(recent) ==
    LET n == Len(recent) IN
    IF n >= 2 /\ recent[n] /\ recent[n - 1] THEN "mastered" ELSE "pending"

ComputeDifficultyAdjustment(recent, current) ==
    LET n == Len(recent)
        lastTwo(P(_)) == n >= 2 /\ P(recent[n - 1]) /\ P(recent[n])
        high(ratio) == ratio >= MASTERED_THRESHOLD
        low(ratio) == ratio < LOW_THRESHOLD
        step == IF lastTwo(high) THEN 1 ELSE IF lastTwo(low) THEN -1 ELSE 0
    IN  Clamp(MIN_DIFFICULTY, MAX_DIFFICULTY, current + step)

ComputeStreakUpdate(correct, streak) == IF correct THEN streak + 1 ELSE 0

IsGradable(confident, review) == confident /\ ~review

=============================================================================
