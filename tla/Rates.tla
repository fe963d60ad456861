--------------------------------- MODULE Rates ---------------------------------
(***************************************************************************)
(* The settings that drivers work out from a rate or a time they are asked *)
(* for: the prescaler, period and duty of src/src/pwm.rs, and the divider  *)
(* of src/src/spi.rs.  Times of the PWM are in cycles of its 24 MHz clock, *)
(* rates of the SPI in Hz.                                                 *)
(***************************************************************************)
EXTENDS Naturals, Sequences

CONSTANTS
  MaxCount,    \* 65536: the cycles a period may have, and the width of the duty
  PwmPeriods,  \* the periods asked for
  AhbRates,    \* the rates of the bus
  SpiLimits    \* the limits asked for

ASSUME RatesAssumption ==
  /\ MaxCount \in Nat \ {0} /\ PwmPeriods \subseteq Nat
  /\ AhbRates \subseteq Nat \ {0} /\ SpiLimits \subseteq Nat \ {0}

BUS_MAX_CLK == 30000000
PRESCALER_TABLE == <<120, 180, 240, 360, 480, 0, 0, 0, 12000, 24000, 36000, 48000, 72000, 0, 0, 1>>
Prescaler(idx) == PRESCALER_TABLE[idx + 1]

VARIABLE setting  \* what the last call worked out, or <<>>

rateVars == <<setting>>

RatesInit == setting = <<>>

-----------------------------------------------------------------------------
\* The first extra factor, from 1, that leaves at most MaxCount cycles of a period.
MutExtra(div, idx) == (div \div (Prescaler(idx) * MaxCount)) + 1    \* fewer than MaxCount

Extra(div, idx) == (div \div (Prescaler(idx) * (MaxCount + 1))) + 1

\* The first prescaler that finds one, and the cycles it leaves.
Indices(div) == {idx \in 0 .. 15 : Prescaler(idx) # 0 /\ Extra(div, idx) <= 256}
Index(div) == CHOOSE i \in Indices(div) : \A j \in Indices(div) : i <= j
Scaled(div) == div \div (Prescaler(Index(div)) * Extra(div, Index(div)))

MutEntireCycles(div) == Scaled(div)                  \* a period of nothing

EntireCycles(div) == IF Scaled(div) = 0 THEN 1 ELSE Scaled(div)

\* calculate, up to the period and duty register.  The extra factor is forgotten;
\* the duty is cut to its field.
Calculate ==
  \E div \in PwmPeriods : \E pulse \in {0, div \div 2, div} :
    /\ div # 0 /\ Indices(div) # {}
    /\ setting' = [of |-> "pwm", asked |-> div, pulse |-> pulse, idx |-> Index(div),
                   prd |-> EntireCycles(div),
                   dty |-> ((EntireCycles(div) * pulse) \div div) % MaxCount]

\* PeriodTooSmall or PeriodTooLarge.
CalculateFails ==
  (\E div \in PwmPeriods : div = 0 \/ Indices(div) = {}) /\ UNCHANGED rateVars

MutDivider(src, limit) == src \div limit            \* rounded down

Divider(src, limit) == (src + limit - 1) \div limit

\* set_clock: an even divider up to 512, and from there a power of two.
SetClock ==
  \E src \in AhbRates, max \in SpiLimits :
    LET limit  == IF max < BUS_MAX_CLK THEN max ELSE BUS_MAX_CLK
        div    == Divider(src, limit)
        powers == {n \in 0 .. 15 : n = 15 \/ 2 ^ (n + 1) >= div}
    IN  setting' = [of |-> "spi", src |-> src, limit |-> limit, drs |-> div <= 512,
                    n |-> IF div > 512 THEN CHOOSE n \in powers : \A m \in powers : n <= m
                          ELSE IF div < 2 THEN 0 ELSE ((div + 1) \div 2) - 1]

RatesStep == Calculate \/ CalculateFails \/ SetClock

-----------------------------------------------------------------------------
\* The hardware's divider for the fields written (spi.rs:283).
Divides == IF setting.drs THEN 2 * (setting.n + 1) ELSE 2 * 2 ^ (setting.n + 1)

\* The SPI clock is not above what was asked for (spi.rs:273), as long as the
\* divider can go so far, nor, when that is below the bus rate, under an eighth of it.
SpiNotFaster ==
  /\ (setting.src \div setting.limit) < 2 ^ 17 => setting.src <= setting.limit * Divides
  /\ setting.limit * Divides <= 4 * (setting.src + setting.limit)
  /\ setting.n <= (IF setting.drs THEN 255 ELSE 15)

\* A period that prescaler 120 can count (5 us to 327 ms) comes out within one of its
\* counts (pwm.rs:12, "Period = (PRD + 1) / PWM_CLK"), and the pulse of any period in
\* proportion to what is written, to a count; but for a full pulse of the longest
\* period, which the duty field cannot hold.  Nothing is said of the other periods:
\* shorter ones come out as one count, and longer ones, which PeriodTooLarge should
\* refuse (pwm.rs:457), several times too short.
PwmAsAsked ==
  LET short == setting.asked - (Prescaler(setting.idx) * setting.prd)
  IN  /\ setting.prd \in 1 .. MaxCount /\ setting.dty <= setting.prd
      /\ setting.asked \in 120 .. (120 * MaxCount) + 119
           => short \in 0 .. Prescaler(setting.idx) - 1
      /\ ~(setting.prd = MaxCount /\ setting.pulse = setting.asked)
           => (setting.prd * setting.pulse) - (setting.dty * setting.asked) \in 0 .. setting.asked - 1

\* The SPI clock is bounded by what was asked for on both sides, and the PWM's period
\* and pulse come out in the range PwmAsAsked names.
RatesKept ==
  setting # <<>> => IF setting.of = "spi" THEN SpiNotFaster ELSE PwmAsAsked
=============================================================================
