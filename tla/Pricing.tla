------------------------------- MODULE Pricing -------------------------------
(***************************************************************************)
(* app/pricing.py and app/pricemath.py: from a service's cost rate through *)
(* the markup layers, the reseller rate and a coupon to the charge of an   *)
(* order.  Money is in paise, rates are per 1,000.                         *)
(*                                                                         *)
(* The code multiplies rates by float factors and rounds up.  The factors  *)
(* are multiples of 1/100, so such a product is either at least 1/100 away *)
(* from an integer, and rounds up as the exact one does, or is an integer  *)
(* that float noise may push up by one (100 * 1.1 rounds up to 111; zero   *)
(* stays zero): shop.noise says for which percentages.  Quotients by 1000  *)
(* and 10000 of integers are exact when they are integers.                 *)
(***************************************************************************)
EXTENDS Integers

CONSTANTS Rates,        \* the providers' cost rates
          StarRates,    \* star_prices.custom_rate_per_1000_paise
          Markups,      \* [percent, fixed] of a service, category or provider
          Percents,     \* the two settings: global markup, minimum margin
          NoisyPercents,   \* percentages p whose float 1.0 + p / 100.0 is inexact
          Quantities,   \* quantities customers ask for
          Discounts,    \* resellers.discount_bp
          CouponValues, \* coupons.value
          MinQty, MaxQty,  \* services.min_qty and max_qty
          None

ASSUME PricingAssumption ==
    /\ Rates \subseteq Nat /\ StarRates \subseteq Nat
    /\ Markups \subseteq [percent : Int, fixed : Int]
    /\ Percents \subseteq Int
    /\ Quantities \subseteq Int
    /\ Discounts \subseteq Int
    /\ CouponValues \subseteq Nat
    /\ MinQty \in Nat /\ MaxQty \in Nat
    /\ None \notin Rates /\ None \notin StarRates
    /\ None \notin Markups /\ None \notin Discounts

RESELLER_MIN_MARGIN_PERCENT == 10
DEFAULT_RESELLER_DISCOUNT_BP == 1200

VARIABLES shop,   \* the rows and settings a quote is computed from
          quote   \* the PriceQuote of the last request

vars == <<shop, quote>>

NoQuote == [made |-> FALSE, quantity |-> 0, cost |-> 0, retail |-> 0,
            subtotal |-> 0, discount |-> 0, charge |-> 0]

Shops == [cost : Rates, starUser : StarRates \cup {None}, starAll : StarRates \cup {None},
          service : Markups \cup {None}, category : Markups \cup {None},
          provider : Markups \cup {None}, global : Percents, margin : Percents,
          reseller : Discounts \cup {None}, noise : SUBSET NoisyPercents]

------------------------------------------------------------------------------
\* pricemath.py

Larger(a, b) == IF a > b THEN a ELSE b
Smaller(a, b) == IF a < b THEN a ELSE b
CeilDiv(n, d) == (n + d - 1) \div d

\* math.ceil(rate * (1.0 + percent / 100.0) + fixed)
Raised(rate, percent) ==
    CeilDiv(rate * (100 + percent), 100)
      + (IF rate # 0 /\ percent \in shop.noise /\ (rate * (100 + percent)) % 100 = 0
         THEN 1 ELSE 0)

margin_floor_per_1000(cost, margin) == Larger(Raised(cost, Larger(margin, 0)), cost)

scale_to_qty(rate, quantity) ==
    IF quantity <= 0 THEN 0 ELSE CeilDiv(rate * quantity, 1000)

uncapped_discount(subtotal, discount, floor) == Smaller(discount, subtotal)
cap_discount_to_floor(subtotal, discount, floor) ==
    IF discount <= 0 \/ subtotal <= Larger(floor, 0) THEN 0
    ELSE Smaller(discount, subtotal - Larger(floor, 0))

------------------------------------------------------------------------------
\* pricing.py

_enforce_min_margin(cost, sell, margin) == Larger(sell, margin_floor_per_1000(cost, margin))

_apply_markup(cost, m) == Raised(cost, m.percent) + m.fixed

\* The markup of the first layer that has one; the global percentage otherwise.
GlobalMarkup == [percent |-> shop.global, fixed |-> 0]
AppliedMarkup ==
    IF shop.service # None THEN shop.service
    ELSE IF shop.category # None THEN shop.category
    ELSE IF shop.provider # None THEN shop.provider
    ELSE GlobalMarkup

\* resolve_sell_rate: a star price (the customer's own first) beats every markup.
resolve_sell_rate ==
    LET star == IF shop.starUser # None THEN shop.starUser ELSE shop.starAll
        sell == IF star # None THEN star ELSE _apply_markup(shop.cost, AppliedMarkup)
    IN  _enforce_min_margin(shop.cost, sell, shop.margin)

\* apply_reseller_rate: a discount_bp of 0 counts as unset.
apply_reseller_rate(cost, retail, discount_bp) ==
    LET asked == IF discount_bp = 0 THEN DEFAULT_RESELLER_DISCOUNT_BP ELSE discount_bp
        bp == Larger(0, Smaller(asked, 9000))
    IN  _enforce_min_margin(cost, CeilDiv(retail * (10000 - bp), 10000),
                            RESELLER_MIN_MARGIN_PERCENT)

SellRate ==
    IF shop.reseller = None THEN resolve_sell_rate
    ELSE apply_reseller_rate(shop.cost, resolve_sell_rate, shop.reseller)

\* The end of apply_coupon: a percentage or a fixed amount off.
CouponDiscount(kind, value, subtotal) ==
    Smaller(IF kind = "percent" THEN (subtotal * value) \div 100 ELSE value, subtotal)

\* quote_order: the discount a coupon grants without breaching the floor.
NoMargin == 0
FloorMargin ==
    IF shop.reseller = None THEN shop.margin
    ELSE Larger(shop.margin, RESELLER_MIN_MARGIN_PERCENT)

FloorCharge(quantity) == scale_to_qty(margin_floor_per_1000(shop.cost, FloorMargin), quantity)

GrantedDiscount(kind, value, quantity) ==
    LET subtotal == scale_to_qty(SellRate, quantity)
    IN  IF kind = "none" THEN 0
        ELSE cap_discount_to_floor(subtotal, CouponDiscount(kind, value, subtotal),
                                   FloorCharge(quantity))

Quoted(quantity, discount) ==
    LET subtotal == scale_to_qty(SellRate, quantity)
    IN  [made |-> TRUE, quantity |-> quantity,
         cost |-> scale_to_qty(shop.cost, quantity),
         retail |-> scale_to_qty(resolve_sell_rate, quantity),
         subtotal |-> subtotal, discount |-> discount,
         charge |-> Larger(0, subtotal - discount)]

Init == shop \in Shops /\ quote = NoQuote

quote_order(quantity, kind, value) ==
    /\ MinQty <= quantity /\ quantity <= MaxQty
    /\ quote' = Quoted(quantity, GrantedDiscount(kind, value, quantity))
    /\ UNCHANGED shop

Next == \E quantity \in Quantities, kind \in {"none", "percent", "fixed"}, value \in CouponValues :
            quote_order(quantity, kind, value)

Spec == Init /\ [][Next]_vars

------------------------------------------------------------------------------
\* Properties

\* No customer, reseller or not, with or without a coupon, pays less than the
\* provider charges us (pricemath.py:20-30, pricing.py:109-121).
NeverBelowCost == quote.charge >= quote.cost

\* What a customer who is not a reseller pays keeps the minimum margin, coupon
\* or not; a reseller keeps RESELLER_MIN_MARGIN_PERCENT (pricing.py:116, 276-283).
KeptMargin ==
    IF shop.reseller = None THEN shop.margin ELSE RESELLER_MIN_MARGIN_PERCENT

MarginKept ==
    quote.made =>
        quote.charge >= scale_to_qty(margin_floor_per_1000(shop.cost, KeptMargin), quote.quantity)
==============================================================================
