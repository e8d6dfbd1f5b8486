----------------------------- MODULE SalesFigures -----------------------------
(***************************************************************************)
(* The arithmetic of the sales pages.  Amounts are whole cents, ratios     *)
(* whole hundredths of a percent, so that every Decimal with two places is *)
(* an integer.                                                             *)
(***************************************************************************)
EXTENDS Integers, Functions

\* n / d for d > 0, with a half rounded away from zero: ROUND_HALF_UP.
HalfUp(n, d) ==
    IF n >= 0 THEN (2 * n + d) \div (2 * d) ELSE -((2 * (-n) + d) \div (2 * d))

\* Mutant of RoundedUp: what is beyond the second place is cut off.
RoundedDown(n, d) == n \div d

\* _q and every quantize of the services.
RoundedUp(n, d) == HalfUp(n, d)

\* Decimal's own rounding, ROUND_HALF_EVEN, which the properties of the models
\* leave in force.
RoundedEven(n, d) ==
    LET up == HalfUp(n, d)
    IN  IF (2 * n) % (2 * d) = d /\ up % 2 = 1 THEN (IF n >= 0 THEN up - 1 ELSE up + 1) ELSE up

PercentageAchieved(target, actual) ==
    IF target <= 0 THEN 0 ELSE RoundedUp(actual * 10000, target)

\* revenue_pct_achieved and its like, on the rows and the snapshots.
PropertyPercentage(target, actual) ==
    IF target <= 0 THEN 0 ELSE RoundedEven(actual * 10000, target)

Deficit(target, actual) == actual - target

\* group_period_subtotals; a row that is missing counts as zero.
Subtotals(figures) ==
    [target |-> figures.target, actual |-> figures.actual,
     deficit |-> Deficit(figures.target, figures.actual),
     pct |-> PercentageAchieved(figures.target, figures.actual)]

\* The sum of one column of a table.
ColumnTotal(rows, column) == SumFunctionOnSet([k \in DOMAIN rows |-> rows[k][column]], DOMAIN rows)

\* _aggregate_rows: the amounts are added, the ratios are those of the sums.
Aggregate(rows) ==
    Subtotals([target |-> ColumnTotal(rows, "target"), actual |-> ColumnTotal(rows, "actual")])

\* weekly_commitment_totals: the same for the weeks of a snapshot, by code of
\* its own.
WeeklyTotals(weeks) ==
    LET committed == ColumnTotal(weeks, "committed")
        actual == ColumnTotal(weeks, "actual")
    IN  [deficit |-> Deficit(committed, actual), pct |-> PercentageAchieved(committed, actual)]
=============================================================================
