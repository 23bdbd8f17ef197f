------------------------------ MODULE InvoiceMath ------------------------------
(***************************************************************************)
(* services/cmd/tenantfinance/domain.go: the amounts of an invoice, line   *)
(* by line, in machine integers.                                           *)
(*                                                                         *)
(* A quantity is in thousandths, a rate in hundredths of a percent, so an  *)
(* amount is a product rounded half up.  The intermediate products may     *)
(* leave the range of an integer, and the guards are computed in the same  *)
(* integers as what they guard.                                            *)
(*                                                                         *)
(* ImMax + 1 is 2^63 in the code, and the limits are about as far from it  *)
(* as they are there; the lines come from sets.                            *)
(***************************************************************************)
EXTENDS Integers

CONSTANTS
    ImMax,         \* the largest integer: math.MaxInt64
    ImMilli,       \* 1000
    ImBps,         \* 10000, also the largest rate
    ImMaxQuantity, \* 100000000
    ImMaxPrice,    \* 10000000000
    ImMaxLines,    \* 200
    ImInputs       \* lines an invoice may have: quantity, price, discount, rate

ASSUME ImAssumption ==
    /\ {ImMax, ImMilli, ImBps, ImMaxQuantity, ImMaxPrice, ImMaxLines} \subseteq Nat \ {0}
    /\ ImMilli % 2 = 0 /\ ImBps % 2 = 0
    \* The limits leave room for a product with its half, but not for a tax; what wraps is
    \* further from zero than the half.
    /\ ImMaxQuantity * ImMaxPrice + ImMilli \div 2 <= ImMax /\ ImBps + ImBps \div 2 <= ImMax
    /\ ImInputs \subseteq [quantity : Int, price : Int, discount : Int, rate : Int]

VARIABLES
    imTotals, \* subtotal, taxTotal and total
    imLines,  \* lines calculated
    imStatus, \* what calculateItems is about to answer
    imLine    \* history: the line that was looked at last

imVars == <<imTotals, imLines, imStatus, imLine>>
ImNoLine == [quantity |-> 0, price |-> 0, discount |-> 0, rate |-> 0]

\* Addition, subtraction and multiplication keep the low bits; division truncates.
ImWrap(n) == ((n + ImMax + 1) % (2 * (ImMax + 1))) - (ImMax + 1)
ImQuotient(n, d) == IF n >= 0 THEN n \div d ELSE -((-n) \div d)
safeRoundDiv(product, divisor) ==
    ImQuotient(ImWrap(product + (IF product >= 0 THEN divisor \div 2 ELSE -(divisor \div 2))), divisor)

ImGross(in) == safeRoundDiv(ImWrap(in.quantity * in.price), ImMilli)
ImNet(in)   == ImGross(in) - in.discount
ImTax(in)   == safeRoundDiv(ImWrap(ImNet(in) * in.rate), ImBps)

\* What each line is checked for before its amounts are added.
ImSupported(in) ==
    in.quantity \in 1..ImMaxQuantity /\ in.price \in 0..ImMaxPrice /\ in.rate \in 0..ImBps
ImComputable(in) ==
    /\ in.price <= ImMax \div in.quantity
    /\ in.discount \in 0..ImGross(in)
    /\ ImNet(in) # 0 => in.rate <= ImMax \div ImNet(in)
\* Adding an amount to a sum does not overflow, as far as Max - amount can tell.
ImRoom(sum, amount) == sum <= ImWrap(ImMax - amount)
ImFitsTotal(in) ==   \* mutation of ImFits: only the total is compared
    ImRoom(imTotals.total, ImWrap(ImNet(in) + ImTax(in)))
ImFits(in) ==
    /\ ImRoom(imTotals.subtotal, ImNet(in)) /\ ImRoom(imTotals.tax, ImTax(in))
    /\ ImRoom(imTotals.total, ImWrap(ImNet(in) + ImTax(in)))
ImAccepts(in) == ImSupported(in) /\ ImComputable(in) /\ ImFits(in)

ImInit ==
    /\ imTotals = [subtotal |-> 0, tax |-> 0, total |-> 0] /\ imLines = 0
    /\ imStatus = "CALCULATED" /\ imLine = ImNoLine

\* calculateItems: the next line, of at most 200.
ImAdd(in) ==
    /\ imStatus = "CALCULATED" /\ imLines < ImMaxLines /\ ImAccepts(in)
    /\ imTotals' = [subtotal |-> ImWrap(imTotals.subtotal + ImNet(in)),
                    tax      |-> ImWrap(imTotals.tax + ImTax(in)),
                    total    |-> ImWrap(imTotals.total + ImWrap(ImNet(in) + ImTax(in)))]
    /\ imLines' = imLines + 1 /\ imLine' = in
    /\ UNCHANGED imStatus
ImRefuse(in) ==
    /\ imStatus = "CALCULATED" /\ imLines < ImMaxLines /\ ~ImAccepts(in)
    /\ imStatus' = "REFUSED" /\ imLine' = in
    /\ UNCHANGED <<imTotals, imLines>>

ImNext == \E in \in ImInputs : ImAdd(in) \/ ImRefuse(in)
ImSpec == ImInit /\ [][ImNext]_imVars

-------------------------------------------------------------------------------
(* n is the rational product / divisor, rounded half up. *)
ImRounds(n, product, divisor) == 2 * n * divisor - divisor <= 2 * product /\ 2 * product < 2 * n * divisor + divisor

\* An invoice adds up, and none of its sums has wrapped.
ImAddsUp ==
    /\ imTotals.total = imTotals.subtotal + imTotals.tax
    /\ imTotals.subtotal >= 0 /\ imTotals.tax >= 0 /\ imTotals.total <= ImMax

\* What a line adds is its amounts in exact arithmetic, rounded once each: although the tax
\* may wrap after it has passed its own guard.  The sums catch it.
ImLineIsExact ==
    imLines' > imLines =>
        LET net == imTotals'.subtotal - imTotals.subtotal IN
        /\ ImRounds(net + imLine'.discount, imLine'.quantity * imLine'.price, ImMilli)
        /\ ImRounds(imTotals'.tax - imTotals.tax, net * imLine'.rate, ImBps)

\* A line within the limits, with a discount its amount can bear, is refused only if its tax
\* or the sums do not fit with their rounding.
ImRefusalIsDue ==
    LET in == imLine' IN
    /\ imStatus' = "REFUSED" /\ ImSupported(in) /\ in.discount >= 0
    /\ 2 * in.discount * ImMilli <= 2 * in.quantity * in.price + ImMilli
    => ImNet(in) * in.rate + ImBps \div 2 > ImMax \/ imTotals.total + ImNet(in) + ImTax(in) > ImMax

\* What the amounts of an invoice answer for.
InvoiceMathSafe == []ImAddsUp /\ [][ImLineIsExact /\ ImRefusalIsDue]_imVars

\* Not guaranteed, and violated: a line that passes the guards of its own has the tax it
\* should (the guard leaves no room for the half that is added to round).
ImGuardsSuffice ==
    \A in \in ImInputs :
        ImSupported(in) /\ ImComputable(in) => ImRounds(ImTax(in), ImNet(in) * in.rate, ImBps)
================================================================================
