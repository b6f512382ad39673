------------------------------ MODULE OrderMath ------------------------------
(***************************************************************************)
(* Order totals and prices of nrs.util.js.  Quantities are QNT counts and *)
(* prices NQT per QNT (BigIntegers); a price "per whole" asset unit is    *)
(* the price times 10^decimals of the asset.  calculateOrderPricePerWhole *)
(* QNT goes one way through BigInteger arithmetic, calculatePricePer-    *)
(* WholeQNT the other way by cutting decimal digits off a string.         *)
(***************************************************************************)
EXTENDS AmountConverter

\* calculateOrderTotalImpl: quantityQNT.multiply(priceNQT).
CalculateOrderTotalImpl(quantityQNT, priceNQT) == quantityQNT * priceNQT

\* NRS.calculateOrderTotalNQT: the product's toString().
CalculateOrderTotalNQT(quantityQNT, priceNQT) ==
    ToDecimalString(CalculateOrderTotalImpl(quantityQNT, priceNQT))

\* NRS.calculateOrderTotal: the product shown in NXT by convertToNXT.
CalculateOrderTotal(quantityQNT, priceNQT) ==
    ConvertToNXT(CalculateOrderTotalImpl(quantityQNT, priceNQT), FALSE)

(***************************************************************************)
(* NRS.calculateOrderPricePerWholeQNT(price, decimals, returnAsObject):   *)
(* price * BigInteger("" + Math.pow(10, decimals)) through convertToNXT.  *)
(* Math.pow(10, d) prints as digits for the asset decimals 0..8 used.     *)
(***************************************************************************)
CalculateOrderPricePerWholeQNT(price, decimals, returnAsObject) ==
    ConvertToNXT(price * Pow10(decimals), returnAsObject)

(***************************************************************************)
(* NRS.calculatePricePerWholeQNT(price, decimals): for decimals > 0, the  *)
(* last `decimals` characters must all be "0" and are cut off; otherwise  *)
(* it throws.  slice(-d) of a string shorter than d is the whole string.  *)
(***************************************************************************)
\* Seeded fault: the trailing-zeros test is dropped; digits are cut regardless.
CalculatePricePerWholeQNT_NoCheck(price, decimals) ==
    IF decimals = 0 THEN Ret(price) ELSE Ret(Slice(price, 0, -decimals))

CalculatePricePerWholeQNT(price, decimals) ==
    IF decimals = 0 THEN Ret(price)
    ELSE IF ~IsAllZeros(SliceFrom(price, -decimals)) THEN Throw("error_invalid_input")
    ELSE Ret(Slice(price, 0, -decimals))

=============================================================================
