-------------------------- MODULE FundingSchedule --------------------------
(***************************************************************************)
(* The schedule of a partner's funding, buildSimulation of                 *)
(* project-funding.service.ts: what is expected in all and what is paid    *)
(* each month.  A funding is [kind, amount, months]; rates are in percent. *)
(***************************************************************************)
EXTENDS Naturals, Functions

CONSTANTS ProfitRate,   \* project_profit_share_annual_rate with the bonus of the badge
          InterestRate  \* project_interest_annual_rate

ASSUME RatesAreNaturals == {ProfitRate, InterestRate} \subseteq Nat

Kinds == {"donation", "profit_share_loan", "interest_loan"}
Fundings == [kind : Kinds, amount : Nat, months : 1..60]

\* Math.round of the quotient of two naturals.
Rounded(n, d) == (2 * n + d) \div (2 * d)
Less(m, n) == IF m > n THEN m - n ELSE 0

ProjectedProfit(f) == IF f.kind = "profit_share_loan"
                      THEN Rounded(f.amount * ProfitRate * f.months, 1200) ELSE 0
ProjectedInterest(f) == IF f.kind = "interest_loan"
                        THEN Rounded(f.amount * InterestRate * f.months, 1200) ELSE 0

TotalExpected(f) == IF f.kind = "donation" THEN 0
                    ELSE f.amount + ProjectedProfit(f) + ProjectedInterest(f)

MonthlyPrincipal(f) == IF f.kind = "donation" THEN 0 ELSE Rounded(f.amount, f.months)

\* Mutant: the month is taken off before its principal is computed.
Remaining_After(f, m) == Less(f.amount, (m + 1) * MonthlyPrincipal(f))

\* What is left of the amount before month m, counted from 0.
Remaining(f, m) == Less(f.amount, m * MonthlyPrincipal(f))

\* The last month pays what is left, of a donation all of it.
Principal(f, m) == IF m = f.months - 1 THEN Remaining(f, m) ELSE MonthlyPrincipal(f)

\* The profit share declines from month to month, the interest does not.
Profit(f, m) == Rounded(2 * ProjectedProfit(f) * (f.months - m), f.months * (f.months + 1))
Interest(f) == Rounded(ProjectedInterest(f), f.months)

Payment(f, m) == Principal(f, m) + Profit(f, m) + Interest(f)

\* The payments of some of the months together (paidTotal of markInstallmentPaid).
Paid(f, periods) == SumFunctionOnSet([m \in 0..(f.months - 1) |-> Payment(f, m)], periods)
=============================================================================
