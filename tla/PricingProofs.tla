---------------------------- MODULE PricingProofs ----------------------------
(***************************************************************************)
(* Proofs about Pricing: no sale below cost, and none below the margin of  *)
(* the buyer's kind, whatever rates, markups, star prices, reseller        *)
(* discounts, coupons and float noise there are.                           *)
(***************************************************************************)
EXTENDS Pricing, TLAPS

\* math.ceil gives integers (pricemath.py:10, 17).
LEMMA CeilDivInt ==
  ASSUME NEW n \in Int, NEW d \in Nat \ {0}
  PROVE  CeilDiv(n, d) \in Int
BY DEF CeilDiv

\* Rounding up a larger number gives no smaller one (pricemath.py:17).
LEMMA CeilDivMono ==
  ASSUME NEW n \in Int, NEW m \in Int, n <= m
  PROVE  CeilDiv(n, 1000) <= CeilDiv(m, 1000)
BY DEF CeilDiv

\* A larger factor gives no smaller product.
LEMMA TimesMono ==
  ASSUME NEW a \in Int, NEW b \in Int, NEW q \in Nat, a <= b
  PROVE  a * q <= b * q
<1>1. b * q - a * q = (b - a) * q
  OBVIOUS
<1>2. b - a >= 0 /\ b - a \in Int
  OBVIOUS
<1>3. (b - a) * q >= 0
  BY <1>2
<1>4. a * q \in Int /\ b * q \in Int
  OBVIOUS
<1> QED
  BY <1>1, <1>3, <1>4

\* A charge at a higher rate is no lower (pricemath.py:14-17).
LEMMA ScaleMono ==
  ASSUME NEW a \in Int, NEW b \in Int, NEW q \in Int, a <= b
  PROVE  /\ scale_to_qty(a, q) \in Int /\ scale_to_qty(b, q) \in Int
         /\ scale_to_qty(a, q) <= scale_to_qty(b, q)
<1>1. CASE q <= 0
  BY <1>1 DEF scale_to_qty
<1>2. CASE q > 0
  <2>1. q \in Nat /\ a * q \in Int /\ b * q \in Int
    BY <1>2
  <2>2. a * q <= b * q
    BY <2>1, TimesMono
  <2>3. CeilDiv(a * q, 1000) <= CeilDiv(b * q, 1000)
    BY <2>1, <2>2, CeilDivMono
  <2>4. CeilDiv(a * q, 1000) \in Int /\ CeilDiv(b * q, 1000) \in Int
    BY <2>1, CeilDivInt
  <2> QED
    BY <1>2, <2>3, <2>4 DEF scale_to_qty
<1> QED
  BY <1>1, <1>2

\* Rates stay integers through a markup (pricing.py:103-106).
LEMMA RaisedInt ==
  ASSUME NEW rate \in Int, NEW percent \in Int
  PROVE  Raised(rate, percent) \in Int
<1>1. rate * (100 + percent) \in Int
  OBVIOUS
<1>2. CeilDiv(rate * (100 + percent), 100) \in Int
  BY <1>1, CeilDivInt
<1> QED
  BY <1>2 DEF Raised

\* The margin floor is never below cost (pricemath.py:8-11).
LEMMA FloorAboveCost ==
  ASSUME NEW cost \in Int, NEW margin \in Int
  PROVE  /\ margin_floor_per_1000(cost, margin) \in Int
         /\ margin_floor_per_1000(cost, margin) >= cost
<1>1. Larger(margin, 0) \in Int
  BY DEF Larger
<1>2. Raised(cost, Larger(margin, 0)) \in Int
  BY <1>1, RaisedInt
<1> QED
  BY <1>2 DEF margin_floor_per_1000, Larger

\* The rows and settings a quote is computed from are numbers (models.py).
LEMMA RowsAreNumbers ==
  /\ Rates \subseteq Int /\ StarRates \subseteq Int /\ Percents \subseteq Int
  /\ Quantities \subseteq Int /\ Discounts \subseteq Int /\ CouponValues \subseteq Nat
  /\ \A m \in Markups : m.percent \in Int /\ m.fixed \in Int
BY PricingAssumption DEF PricingAssumption

\* So are those of the shop at hand, the markup that applies included (pricing.py:124-192).
LEMMA ShopTypes ==
  ASSUME shop \in Shops
  PROVE  /\ shop.cost \in Int /\ shop.margin \in Int /\ shop.global \in Int
         /\ shop.starUser # None => shop.starUser \in Int
         /\ shop.starAll # None => shop.starAll \in Int
         /\ shop.reseller # None => shop.reseller \in Int
         /\ AppliedMarkup.percent \in Int /\ AppliedMarkup.fixed \in Int
<1>1. /\ shop.cost \in Rates /\ shop.margin \in Percents /\ shop.global \in Percents
      /\ shop.starUser \in StarRates \cup {None} /\ shop.starAll \in StarRates \cup {None}
      /\ shop.reseller \in Discounts \cup {None}
  BY DEF Shops
<1>2. /\ shop.service \in Markups \cup {None} /\ shop.category \in Markups \cup {None}
      /\ shop.provider \in Markups \cup {None}
  BY DEF Shops
<1>3. shop.global \in Int
  BY <1>1, RowsAreNumbers
<1>4. GlobalMarkup.percent \in Int /\ GlobalMarkup.fixed \in Int
  BY <1>3 DEF GlobalMarkup
<1>5. AppliedMarkup \in Markups \/ AppliedMarkup = GlobalMarkup
  BY <1>2 DEF AppliedMarkup
<1>6. AppliedMarkup.percent \in Int /\ AppliedMarkup.fixed \in Int
  BY <1>4, <1>5, RowsAreNumbers
<1> QED
  BY <1>1, <1>6, RowsAreNumbers

\* A rate that went through _enforce_min_margin is never below cost
\* (pricing.py:109-110).
LEMMA EnforcedAboveCost ==
  ASSUME NEW cost \in Int, NEW sell \in Int, NEW margin \in Int
  PROVE  /\ _enforce_min_margin(cost, sell, margin) \in Int
         /\ _enforce_min_margin(cost, sell, margin) >= cost
BY FloorAboveCost DEF _enforce_min_margin, Larger

\* The rate without the reseller programme is never below cost (pricing.py:124-192).
LEMMA RetailAboveCost ==
  ASSUME shop \in Shops
  PROVE  resolve_sell_rate \in Int /\ resolve_sell_rate >= shop.cost
<1>1. shop.cost \in Int /\ shop.margin \in Int
  BY ShopTypes
<1>2. AppliedMarkup.percent \in Int /\ AppliedMarkup.fixed \in Int
  BY ShopTypes
<1>3. _apply_markup(shop.cost, AppliedMarkup) \in Int
  <2>1. Raised(shop.cost, AppliedMarkup.percent) \in Int
    BY <1>1, <1>2, RaisedInt
  <2> QED
    BY <1>2, <2>1 DEF _apply_markup
<1> DEFINE star == IF shop.starUser # None THEN shop.starUser ELSE shop.starAll
           sell == IF star # None THEN star ELSE _apply_markup(shop.cost, AppliedMarkup)
<1>4. sell \in Int
  BY <1>3, ShopTypes
<1>5. resolve_sell_rate = _enforce_min_margin(shop.cost, sell, shop.margin)
  BY DEF resolve_sell_rate
<1> HIDE DEF sell
<1> QED
  BY <1>1, <1>4, <1>5, EnforcedAboveCost

\* Nor is a reseller's rate, however large the discount (pricing.py:116-121).
LEMMA SellAboveCost ==
  ASSUME shop \in Shops
  PROVE  SellRate \in Int /\ SellRate >= shop.cost
<1>1. CASE shop.reseller = None
  BY <1>1, RetailAboveCost DEF SellRate
<1>2. CASE shop.reseller # None
  <2>1. shop.reseller \in Int /\ shop.cost \in Int
    BY <1>2, ShopTypes
  <2> DEFINE asked == IF shop.reseller = 0 THEN DEFAULT_RESELLER_DISCOUNT_BP
                      ELSE shop.reseller
             bp == Larger(0, Smaller(asked, 9000))
             sell == CeilDiv(resolve_sell_rate * (10000 - bp), 10000)
  <2>2. bp \in Int
    BY <2>1 DEF Larger, Smaller, DEFAULT_RESELLER_DISCOUNT_BP
  <2> HIDE DEF bp
  <2>3. resolve_sell_rate * (10000 - bp) \in Int
    BY <2>2, RetailAboveCost
  <2>4. sell \in Int
    BY <2>3, CeilDivInt
  <2> HIDE DEF sell
  <2>5. SellRate = _enforce_min_margin(shop.cost, sell, RESELLER_MIN_MARGIN_PERCENT)
    BY <1>2 DEF SellRate, apply_reseller_rate, sell, bp
  <2>6. RESELLER_MIN_MARGIN_PERCENT \in Int
    BY DEF RESELLER_MIN_MARGIN_PERCENT
  <2> QED
    BY <2>1, <2>4, <2>5, <2>6, EnforcedAboveCost
<1> QED
  BY <1>1, <1>2

\* A capped discount leaves at least the floor, or is no discount at all
\* (pricemath.py:20-30).
LEMMA CapKeepsFloor ==
  ASSUME NEW subtotal \in Int, NEW discount \in Int, NEW floor \in Int
  PROVE  LET d == cap_discount_to_floor(subtotal, discount, floor)
         IN  d \in Int /\ (d = 0 \/ subtotal - d >= floor)
BY DEF cap_discount_to_floor, Larger, Smaller

\* Whatever is asked for, the charge covers the provider's cost (pricing.py:237-304).
LEMMA QuoteCoversCost ==
  ASSUME shop \in Shops, NEW quantity \in Int,
         NEW kind \in {"none", "percent", "fixed"}, NEW value \in Nat
  PROVE  LET q == Quoted(quantity, GrantedDiscount(kind, value, quantity))
         IN  q.charge >= q.cost
<1> DEFINE cost == scale_to_qty(shop.cost, quantity)
           subtotal == scale_to_qty(SellRate, quantity)
           floor == FloorCharge(quantity)
           granted == GrantedDiscount(kind, value, quantity)
<1>1. shop.cost \in Int /\ shop.margin \in Int /\ FloorMargin \in Int
  BY ShopTypes DEF FloorMargin, Larger, RESELLER_MIN_MARGIN_PERCENT
<1>2. cost \in Int /\ subtotal \in Int /\ cost <= subtotal
  BY <1>1, SellAboveCost, ScaleMono
<1>3. /\ margin_floor_per_1000(shop.cost, FloorMargin) \in Int
      /\ shop.cost <= margin_floor_per_1000(shop.cost, FloorMargin)
  BY <1>1, FloorAboveCost
<1>4. floor \in Int /\ cost <= floor
  BY <1>1, <1>3, ScaleMono DEF FloorCharge
<1> HIDE DEF cost, subtotal, floor
<1>5. CouponDiscount(kind, value, subtotal) \in Int
  <2>1. subtotal * value \in Int
    BY <1>2
  <2> QED
    BY <1>2, <2>1 DEF CouponDiscount, Smaller
<1>6. \/ granted = 0
      \/ granted = cap_discount_to_floor(subtotal, CouponDiscount(kind, value, subtotal), floor)
  BY DEF GrantedDiscount, subtotal, floor
<1>7. granted \in Int /\ (granted = 0 \/ subtotal - granted >= floor)
  <2> DEFINE capped == cap_discount_to_floor(
                         subtotal, CouponDiscount(kind, value, subtotal), floor)
  <2>1. capped \in Int /\ (capped = 0 \/ subtotal - capped >= floor)
    BY <1>2, <1>4, <1>5, CapKeepsFloor
  <2> HIDE DEF capped
  <2>2. granted = 0 \/ granted = capped
    BY <1>6 DEF capped
  <2> HIDE DEF granted
  <2> QED
    BY <2>1, <2>2
<1> HIDE DEF granted
<1>8. Larger(0, subtotal - granted) >= cost
  BY <1>2, <1>4, <1>7 DEF Larger
<1> QED
  BY <1>8 DEF Quoted, cost, subtotal, granted

\* The shop's rows keep their types, and no quote is below cost.
Inv == shop \in Shops /\ NeverBelowCost

\* No customer is ever quoted less than the provider charges us: for all rates,
\* markups, star prices, settings, reseller discounts and coupons
\* (pricing.py:237-304).
THEOREM NeverSoldBelowCost == Spec => []NeverBelowCost
<1>1. Init => Inv
  BY DEF Init, Inv, NoQuote, NeverBelowCost
<1>2. Inv /\ [Next]_vars => Inv'
  <2> SUFFICES ASSUME Inv, [Next]_vars
               PROVE  Inv'
    OBVIOUS
  <2>1. CASE Next
    <3>1. PICK quantity \in Quantities, kind \in {"none", "percent", "fixed"},
               value \in CouponValues : quote_order(quantity, kind, value)
      BY <2>1 DEF Next
    <3>2. quantity \in Int /\ value \in Nat
      BY <3>1, RowsAreNumbers
    <3>3. quote' = Quoted(quantity, GrantedDiscount(kind, value, quantity)) /\ shop' = shop
      BY <3>1 DEF quote_order
    <3>4. quote'.charge >= quote'.cost
      BY <3>2, <3>3, QuoteCoversCost DEF Inv
    <3> QED
      BY <3>3, <3>4 DEF Inv, NeverBelowCost
  <2>2. CASE UNCHANGED vars
    BY <2>2 DEF Inv, NeverBelowCost, vars
  <2> QED
    BY <2>1, <2>2
<1>3. Inv => NeverBelowCost
  BY DEF Inv
<1> QED
  BY <1>1, <1>2, <1>3, PTL DEF Spec
------------------------------------------------------------------------------
\* The margins.

\* A larger percentage gives no smaller rate, though the float noise may lift the
\* product with the smaller one: it is then short of the other by at least one
\* (pricemath.py:10).
LEMMA RaisedMono ==
  ASSUME NEW cost \in Nat, NEW p \in Int, NEW q \in Int, p <= q
  PROVE  Raised(cost, p) <= Raised(cost, q)
<1> DEFINE n == cost * (100 + p)
           m == cost * (100 + q)
<1>1. n \in Int /\ m \in Int
  OBVIOUS
<1>2. CASE cost = 0
  BY <1>2 DEF Raised, CeilDiv
<1>3. CASE p = q
  <2>1. Raised(cost, p) \in Int
    BY RaisedInt
  <2> QED
    BY <1>3, <2>1
<1>4. CASE cost # 0 /\ p < q
  <2>1. 1 * cost <= (q - p) * cost
    BY <1>4, TimesMono
  <2>2. m - n = (q - p) * cost
    OBVIOUS
  <2>3. n + 1 <= m
    <3>1. (q - p) * cost \in Int
      OBVIOUS
    <3> HIDE DEF n, m
    <3> QED
      BY <1>1, <1>4, <2>1, <2>2, <3>1
  <2>4. Raised(cost, p) = CeilDiv(n, 100)
                            + (IF cost # 0 /\ p \in shop.noise /\ n % 100 = 0 THEN 1 ELSE 0)
    BY DEF Raised
  <2>5. Raised(cost, q) = CeilDiv(m, 100)
                            + (IF cost # 0 /\ q \in shop.noise /\ m % 100 = 0 THEN 1 ELSE 0)
    BY DEF Raised
  <2> HIDE DEF n, m
  <2>6. CeilDiv(n, 100) <= CeilDiv(m, 100)
    BY <1>1, <2>3 DEF CeilDiv
  <2>7. n % 100 = 0 => CeilDiv(n, 100) + 1 <= CeilDiv(m, 100)
    BY <1>1, <2>3 DEF CeilDiv
  <2>8. CeilDiv(n, 100) \in Int /\ CeilDiv(m, 100) \in Int
    BY <1>1, CeilDivInt
  <2> QED
    BY <2>4, <2>5, <2>6, <2>7, <2>8
<1> QED
  BY <1>2, <1>3, <1>4

\* A larger margin gives no lower floor (pricemath.py:8-11).
LEMMA FloorMono ==
  ASSUME NEW cost \in Nat, NEW a \in Int, NEW b \in Int, a <= b
  PROVE  margin_floor_per_1000(cost, a) <= margin_floor_per_1000(cost, b)
<1>1. /\ Larger(a, 0) \in Int /\ Larger(b, 0) \in Int
      /\ Larger(a, 0) <= Larger(b, 0)
  BY DEF Larger
<1>2. Raised(cost, Larger(a, 0)) <= Raised(cost, Larger(b, 0))
  BY <1>1, RaisedMono
<1>3. Raised(cost, Larger(a, 0)) \in Int /\ Raised(cost, Larger(b, 0)) \in Int
  <2>1. cost \in Int
    OBVIOUS
  <2> QED
    BY <1>1, <2>1, RaisedInt
<1> QED
  BY <1>2, <1>3 DEF margin_floor_per_1000, Larger

\* The rate a customer is sold at keeps the margin of the customer's kind, before
\* any coupon (pricing.py:109-121, 192).
LEMMA SellKeepsMargin ==
  ASSUME shop \in Shops
  PROVE  SellRate >= margin_floor_per_1000(shop.cost, KeptMargin)
<1>1. shop.cost \in Int /\ shop.margin \in Int
  BY ShopTypes
<1>2. \E sell, margin \in Int :
         /\ SellRate = _enforce_min_margin(shop.cost, sell, margin)
         /\ margin = KeptMargin
  <2>1. CASE shop.reseller = None
    <3> DEFINE star == IF shop.starUser # None THEN shop.starUser ELSE shop.starAll
               sell == IF star # None THEN star ELSE _apply_markup(shop.cost, AppliedMarkup)
    <3>1. sell \in Int
      <4>1. Raised(shop.cost, AppliedMarkup.percent) \in Int
        BY <1>1, ShopTypes, RaisedInt
      <4> QED
        BY <4>1, ShopTypes DEF _apply_markup
    <3>2. SellRate = _enforce_min_margin(shop.cost, sell, shop.margin)
      BY <2>1 DEF SellRate, resolve_sell_rate
    <3> HIDE DEF sell
    <3> QED
      BY <1>1, <2>1, <3>1, <3>2 DEF KeptMargin
  <2>2. CASE shop.reseller # None
    <3> DEFINE asked == IF shop.reseller = 0 THEN DEFAULT_RESELLER_DISCOUNT_BP
                        ELSE shop.reseller
               bp == Larger(0, Smaller(asked, 9000))
               sell == CeilDiv(resolve_sell_rate * (10000 - bp), 10000)
    <3>1. bp \in Int
      BY <2>2, ShopTypes DEF Larger, Smaller, DEFAULT_RESELLER_DISCOUNT_BP
    <3>2. SellRate = _enforce_min_margin(shop.cost, sell, RESELLER_MIN_MARGIN_PERCENT)
      BY <2>2 DEF SellRate, apply_reseller_rate
    <3> HIDE DEF bp
    <3>3. resolve_sell_rate * (10000 - bp) \in Int
      BY <3>1, RetailAboveCost
    <3>4. sell \in Int
      BY <3>3, CeilDivInt
    <3> HIDE DEF sell
    <3> QED
      BY <2>2, <3>2, <3>4 DEF KeptMargin, RESELLER_MIN_MARGIN_PERCENT
  <2> QED
    BY <2>1, <2>2
<1>3. PICK sell \in Int, margin \in Int :
         /\ SellRate = _enforce_min_margin(shop.cost, sell, margin)
         /\ margin = KeptMargin
  BY <1>2
<1>4. margin_floor_per_1000(shop.cost, margin) \in Int
  BY <1>1, FloorAboveCost
<1> QED
  BY <1>3, <1>4 DEF _enforce_min_margin, Larger

\* And the charge keeps it, whatever the coupon takes off (pricing.py:276-283).
LEMMA QuoteKeepsMargin ==
  ASSUME shop \in Shops, NEW quantity \in Int,
         NEW kind \in {"none", "percent", "fixed"}, NEW value \in Nat
  PROVE  LET q == Quoted(quantity, GrantedDiscount(kind, value, quantity))
         IN  q.charge >= scale_to_qty(margin_floor_per_1000(shop.cost, KeptMargin), q.quantity)
<1> DEFINE kept == scale_to_qty(margin_floor_per_1000(shop.cost, KeptMargin), quantity)
           subtotal == scale_to_qty(SellRate, quantity)
           floor == FloorCharge(quantity)
           granted == GrantedDiscount(kind, value, quantity)
           capped == cap_discount_to_floor(subtotal, CouponDiscount(kind, value, subtotal), floor)
<1>1. /\ shop.cost \in Nat /\ shop.margin \in Int /\ KeptMargin \in Int /\ FloorMargin \in Int
      /\ KeptMargin <= FloorMargin
  <2>1. shop.cost \in Nat
    BY PricingAssumption DEF PricingAssumption, Shops
  <2> QED
    BY <2>1, ShopTypes DEF KeptMargin, FloorMargin, Larger, RESELLER_MIN_MARGIN_PERCENT
<1>2. /\ margin_floor_per_1000(shop.cost, KeptMargin) \in Int
      /\ margin_floor_per_1000(shop.cost, FloorMargin) \in Int
      /\ margin_floor_per_1000(shop.cost, KeptMargin)
           <= margin_floor_per_1000(shop.cost, FloorMargin)
  <2>1. shop.cost \in Int
    BY <1>1
  <2> QED
    BY <1>1, <2>1, FloorAboveCost, FloorMono
<1>3. kept \in Int /\ floor \in Int /\ kept <= floor
  BY <1>2, ScaleMono DEF FloorCharge
<1>4. subtotal \in Int /\ kept <= subtotal
  BY <1>2, SellAboveCost, SellKeepsMargin, ScaleMono
<1>5. granted = 0 \/ granted = capped
  BY DEF GrantedDiscount
<1> HIDE DEF kept, subtotal, floor
<1>6. CouponDiscount(kind, value, subtotal) \in Int
  <2>1. subtotal * value \in Int
    BY <1>4
  <2> QED
    BY <1>4, <2>1 DEF CouponDiscount, Smaller
<1>7. capped \in Int /\ (capped = 0 \/ subtotal - capped >= floor)
  BY <1>3, <1>4, <1>6, CapKeepsFloor
<1> HIDE DEF granted, capped
<1>8. Larger(0, subtotal - granted) >= kept
  BY <1>3, <1>4, <1>5, <1>7 DEF Larger
<1> QED
  BY <1>8 DEF Quoted, kept, subtotal, granted

\* The shop's rows keep their types, and no quote is below its margin.
MarginInv == shop \in Shops /\ MarginKept

\* Whoever is not a reseller pays at least the minimum margin on top of cost, a
\* reseller at least RESELLER_MIN_MARGIN_PERCENT, with or without a coupon
\* (pricing.py:109-121, 237-304).
THEOREM MarginAlwaysKept == Spec => []MarginKept
<1>1. Init => MarginInv
  BY DEF Init, MarginInv, NoQuote, MarginKept
<1>2. MarginInv /\ [Next]_vars => MarginInv'
  <2> SUFFICES ASSUME MarginInv, [Next]_vars
               PROVE  MarginInv'
    OBVIOUS
  <2>1. CASE Next
    <3>1. PICK quantity \in Quantities, kind \in {"none", "percent", "fixed"},
               value \in CouponValues : quote_order(quantity, kind, value)
      BY <2>1 DEF Next
    <3>2. quantity \in Int /\ value \in Nat
      BY <3>1, RowsAreNumbers
    <3>3. quote' = Quoted(quantity, GrantedDiscount(kind, value, quantity)) /\ shop' = shop
      BY <3>1 DEF quote_order
    <3>4. quote'.charge
            >= scale_to_qty(margin_floor_per_1000(shop.cost, KeptMargin), quote'.quantity)
      BY <3>2, <3>3, QuoteKeepsMargin DEF MarginInv
    <3> QED
      BY <3>3, <3>4 DEF MarginInv, MarginKept, KeptMargin, margin_floor_per_1000, Raised
  <2>2. CASE UNCHANGED vars
    BY <2>2 DEF MarginInv, MarginKept, KeptMargin, margin_floor_per_1000, Raised, vars
  <2> QED
    BY <2>1, <2>2
<1>3. MarginInv => MarginKept
  BY DEF MarginInv
<1> QED
  BY <1>1, <1>2, <1>3, PTL DEF Spec
==============================================================================
