------------------------------ MODULE PaperMath ------------------------------
(***************************************************************************)
(* The pure money functions of papertrade/math.py.  Prices, notionals and  *)
(* balances are integers in one small unit; a rate r of the settings is    *)
(* the integer r * Scale (with Scale = 2500 every rate of settings.py is   *)
(* exact: 0.0004 = 1/2500, 0.004 = 10/2500, 0.10 = 250/2500).  A division  *)
(* that is not exact rounds down to the unit, where the code keeps a       *)
(* float.                                                                  *)
(***************************************************************************)
EXTENDS Integers

CONSTANTS
    Scale,       \* what a rate of 1 is written as
    TakerRate,   \* settings.fees.taker_rate
    MmrRate      \* settings.fees.maintenance_margin_rate

ASSUME RateAssumption ==
    /\ Scale \in Nat \ {0}
    /\ TakerRate \in Nat
    /\ MmrRate \in Nat

Sides == {"LONG", "SHORT"}

\* calc_qty; the code raises when entry <= 0, which the caller's guard models
Qty(size, entry) == size \div entry

\* calc_isolated_margin
Margin(size, lev) == size \div lev

\* calc_liq_price: entry * (1 -/+ 1/lev +/- mmr)
\* (a mutant: the maintenance margin with the wrong sign)
LiqPriceBeyond(entry, side, lev) ==
    LET gap == Scale + MmrRate * lev
        edge == IF side = "LONG" THEN Scale * lev - gap ELSE Scale * lev + gap
    IN  (entry * edge) \div (Scale * lev)
LiqPrice(entry, side, lev) ==
    LET gap == Scale - MmrRate * lev
        edge == IF side = "LONG" THEN Scale * lev - gap ELSE Scale * lev + gap
    IN  (entry * edge) \div (Scale * lev)

\* calc_unrealized_pnl and calc_realized_pnl are the same function of a price
Pnl(qty, entry, price, side) ==
    IF side = "LONG" THEN qty * (price - entry) ELSE qty * (entry - price)

EntryFee(size) == (size * TakerRate) \div Scale

ExitFee(qty, exit) == (qty * exit * TakerRate) \div Scale

=============================================================================
