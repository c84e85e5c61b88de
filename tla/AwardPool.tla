----------------------------- MODULE AwardPool ------------------------------
(***************************************************************************)
(* assembleLotteryStrategyWithAwards: how many of the indexes of a raffle  *)
(* pool each award gets.  award_rate is a decimal(6,4); it is given here   *)
(* in ten-thousandths, so a strategy whose rates sum to 1 has total Unit.  *)
(* The code computes with float64; rates of at most four decimals leave a  *)
(* relative error of about 10^-15, which no sum or rounding below can see, *)
(* but for a share that is exactly a half (see README).                    *)
(***************************************************************************)
EXTENDS Integers, FiniteSetsExt, Functions

Unit == 10000

(* Digits after the point that FormatFloat(rate, 'f', -1, 64) prints. *)
Decimals(rate) ==
    CHOOSE k \in 0..4 : /\ rate % 10^(4 - k) = 0
                        /\ \A j \in 0..(k - 1) : rate % 10^(4 - j) # 0

TotalRate(rates, S) == SumFunctionOnSet(rates, S)

(* Mutant: the number of digits is that of the award looked at last. *)
RateRangeAnyAward(rates, S) ==
    IF S = {} THEN 1 ELSE 10^Decimals(rates[CHOOSE a \in S : TRUE])

(* Ten to the largest number of digits. *)
RateRange(rates, S) == 10^Max({0} \cup {Decimals(rates[a]) : a \in S})

(* Mutant: the share is truncated. *)
Truncate(x, y) == x \div y

(* math.Round of x / y. *)
Round(x, y) == (2 * x + y) \div (2 * y)

(* The indexes of award a in the pool of the awards S.  All rates zero: the *)
(* quotient is NaN, its conversion is not positive and the loop adds none.  *)
Count(rates, S, a) ==
    IF TotalRate(rates, S) = 0 THEN 0
    ELSE Round(rates[a] * RateRange(rates, S), TotalRate(rates, S))

Counts(rates, S) == [a \in S |-> Count(rates, S, a)]

(* len(strategyAwardPool). *)
PoolSize(rates, S) == SumFunction(Counts(rates, S))

-----------------------------------------------------------------------------
(* What the pool of the awards S promises *)

(* Each award has exactly its share of the indexes, and no index is missing  *)
(* or surplus.                                                              *)
SharesAreExact(rates, S) ==
    /\ PoolSize(rates, S) = RateRange(rates, S)
    /\ \A a \in S : Count(rates, S, a) * Unit = rates[a] * RateRange(rates, S)

(* The count of each award is the integer nearest to its normalised share,   *)
(* and the pool as a whole is at most half an index per award away from its  *)
(* nominal length.                                                          *)
SharesAreNearest(rates, S) ==
    LET total == TotalRate(rates, S)
        range == RateRange(rates, S)
        gap   == PoolSize(rates, S) - range
    IN  /\ \A a \in S :
              LET d == Count(rates, S, a) * total - rates[a] * range
              IN  2 * d <= total /\ 2 * d >= -total
        /\ 2 * gap <= Cardinality(S) /\ 2 * gap >= -Cardinality(S)
=============================================================================
