-------------------------------- MODULE Rates --------------------------------
(***************************************************************************)
(* app/fx/rates.py and app/pricing/engine.py: the second generation's      *)
(* rupee prices.  The dollar rate comes from a cache that a refresh fills  *)
(* from the first of three sources with a believable answer; a price is    *)
(* the panel's cost at that rate plus a markup, less up to three           *)
(* discounts, none of which may push it below the floor.  Between the      *)
(* price a customer was shown and the order, the rate, the markup and the  *)
(* rules may change, and the price is calculated again.                    *)
(*                                                                         *)
(* Panels bill in dollars here; one that bills in rupees skips the rate.   *)
(* Amounts are integers: costs in hundredths of a cent or of a paisa (the  *)
(* four decimals of quantize(0.0001)), prices in paise.  Decimal's         *)
(* quantize rounds halves to even.                                         *)
(***************************************************************************)
EXTENDS Integers, Sequences, SequencesExt

CONSTANTS
    Rates,        \* what a source may answer, in paise per dollar
    Costs,        \* the panel's rate, in hundredths of a cent per 1000
    Quantities,
    Markups,      \* percents an operator may set
    Margins,      \* minimum margins a global rule may carry
    CustomPrices, \* a service's own price, paise per 1000; 0 for none
    Percents,     \* discounts of plans and resellers
    Coupons       \* flat coupon discounts, paise

VARIABLES
    cached,   \* fx:usd_inr, 0 when absent or past its hour
    service,  \* the service, its category and the global rule
    quote     \* one customer's order: not shown yet, the price shown, or ordered (then over)

rateVars == <<cached, service, quote>>

FALLBACK_RATE == 8300
Valid(rate) == rate \in 6000..13000

\* A source that times out, fails or knows no rate.
NoAnswer == 0
Unset == -1

DEFAULT_MIN_MARGIN == 5

\* Decimal.quantize: n / d to the nearest integer, halves to the even one.
HalfEven(n, d) ==
    LET q == n \div d
        r == n % d
    IN IF 2 * r > d \/ (2 * r = d /\ q % 2 = 1) THEN q + 1 ELSE q

Settings == [custom : CustomPrices, own : Markups \cup {Unset}, category : Markups \cup {Unset},
             rule : Markups \cup {Unset}, margin : Margins]

NoQuote == [state |-> "none"]

Init ==
    /\ cached = 0
    /\ service \in Settings
    /\ quote = NoQuote

-----------------------------------------------------------------------------
(* The rate.                                                               *)

\* _fetch_rate_with_fallback: the sources in order, then 83.
Fetched(answers) ==
    LET good == SelectSeq(answers, Valid)
    IN IF good = <<>> THEN FALLBACK_RATE ELSE Head(good)

\* refresh_usd_to_inr_rate caches whatever it got, the fallback too; Redis may not take it.
Refresh ==
    /\ quote.state # "ordered"
    /\ \E answers \in [1..3 -> Rates \cup {NoAnswer}] : cached' \in {Fetched(answers), cached}
    /\ UNCHANGED <<service, quote>>

Expire ==
    /\ quote.state # "ordered" /\ cached' = 0
    /\ UNCHANGED <<service, quote>>

get_usd_to_inr_rate == IF Valid(cached) THEN cached ELSE FALLBACK_RATE

-----------------------------------------------------------------------------
(* The price.                                                              *)

\* _resolve_markup: service, category, global rule, 20; the provider's own is never asked.
_resolve_markup(s) ==
    IF s.own # Unset THEN s.own
    ELSE IF s.category # Unset THEN s.category
    ELSE IF s.rule # Unset THEN s.rule ELSE 20

\* The margin comes with the rule; where the rule is not reached it is 5.
MinMargin(s) ==
    IF s.own = Unset /\ s.category = Unset /\ s.rule # Unset THEN s.margin ELSE DEFAULT_MIN_MARGIN

\* A discounted price, or the floor when it would be lower.
Capped(price, floor) == IF price < floor THEN floor ELSE price

PercentOff(price, percent, floor) ==
    IF percent = 0 THEN price ELSE Capped(HalfEven(price * (100 - percent), 100), floor)

FlatOffUncapped(price, flat, floor) == price - flat
FlatOff(price, flat, floor) == IF flat = 0 THEN price ELSE Capped(price - flat, floor)

\* What calculate_price makes of an order o = [cost, quantity, premium, reseller, coupon].
calculate_price(o, s, fx) ==
    LET per1000 == HalfEven(o.cost * fx, 100)
        cost == HalfEven(per1000 * o.quantity, 1000)
        floor == HalfEven(cost * (100 + IF s.custom > 0 THEN DEFAULT_MIN_MARGIN ELSE MinMargin(s)), 10000)
        marked == HalfEven(per1000 * (100 + _resolve_markup(s)), 100)
        standard == HalfEven(marked * o.quantity, 100000)
        premium == PercentOff(standard, o.premium, floor)
        reseller == PercentOff(premium, o.reseller, floor)
    IN IF s.custom > 0
         THEN LET price == HalfEven(s.custom * o.quantity, 1000)
              IN [cost |-> cost, floor |-> floor, standard |-> price, price |-> price]
         ELSE [cost |-> cost, floor |-> floor, standard |-> standard,
               price |-> FlatOff(reseller, o.coupon, floor)]

Orders == [cost : Costs, quantity : Quantities, premium : Percents, reseller : Percents,
           coupon : Coupons]

\* A price is calculated and shown.
Preview ==
    /\ quote.state = "none"
    /\ \E o \in Orders :
        quote' = [state |-> "shown", order |-> o,
                  was |-> calculate_price(o, service, get_usd_to_inr_rate)]
    /\ UNCHANGED <<cached, service>>

\* verify_price_unchanged: a paisa is let pass.
verify_price_unchanged(a, b) == a - b \in {-1, 0, 1}

\* create_order with the price the customer confirmed.
Order ==
    /\ quote.state = "shown"
    /\ LET now == calculate_price(quote.order, service, get_usd_to_inr_rate)
       IN quote' = IF verify_price_unchanged(quote.was.price, now.price)
                     THEN [state |-> "ordered", order |-> quote.order, was |-> quote.was, now |-> now,
                           custom |-> service.custom > 0]
                     ELSE NoQuote
    /\ UNCHANGED <<cached, service>>

\* The operator edits the service, its category or the rule.
Edit ==
    /\ quote.state # "ordered"
    /\ service' \in Settings
    /\ \E field \in DOMAIN service : \A other \in (DOMAIN service) \ {field} :
            service'[other] = service[other]
    /\ UNCHANGED <<cached, quote>>

Next == Refresh \/ Expire \/ Preview \/ Order \/ Edit

Spec == Init /\ [][Next]_rateVars

-----------------------------------------------------------------------------
(* What the shop relies on.                                                *)

\* pricing/engine.py:20-22, 104-211 and orders/engine.py:171-190: whatever rate, markup or
\* rule changed since the price was shown, an order is charged within a paisa of it; no
\* discount or sequence of discounts goes below the floor at the rate of the order, none
\* raises a price that was above it, and without a service's own price the panel is paid.
ChargedFairly ==
    quote.state = "ordered" =>
        /\ quote.now.price - quote.was.price \in {-1, 0, 1}
        /\ ~quote.custom =>
            /\ quote.now.price >= quote.now.floor \/ quote.now.price = quote.now.standard
            /\ quote.now.price <= quote.now.standard \/ quote.now.price = quote.now.floor
            /\ 100 * quote.now.price + 50 >= quote.now.cost
==============================================================================
