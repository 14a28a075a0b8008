SPECIFICATION Spec
CONSTANTS
    Rates = {0, 100, 437}
    StarRates = {90}
    NoisyPercents = {5, 10}
    Markups <- MCMarkups
    Percents = {5, 25}
    Quantities = {9, 10, 1500, 5001}
    Discounts = {0, 500, 9500}
    CouponValues = {0, 15, 90}
    MinQty = 10
    MaxQty = 5000
    None = None
INVARIANTS
    NeverBelowCost
    MarginKept
