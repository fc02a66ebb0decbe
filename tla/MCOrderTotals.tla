--------------------------- MODULE MCOrderTotals ---------------------------
(***************************************************************************)
(* Small instances of OrderTotals: one and two lines with prices around    *)
(* the rounding ties of 7 %, every way to ask for a discount, and client   *)
(* totals that are right, off by parts of a satang, and wrong.             *)
(***************************************************************************)
EXTENDS OrderTotals

MCLine(qty, price) == [qty |-> qty, price |-> price]
MCLines == {<<>>, <<MCLine(1, 50)>>, <<MCLine(3, 50)>>, <<MCLine(1, 99)>>,
            <<MCLine(2, 333), MCLine(1, 7)>>, <<MCLine(1, 100), MCLine(1, 0)>>}

MCAsked(lines, type, amount, percent) ==
    [lines |-> lines, type |-> type, amount |-> amount, percent |-> percent,
     total |-> None, vat |-> None, net |-> None]

MCDiscounts ==
    {MCAsked(lines, type, amount, percent) :
        lines \in MCLines, type \in {None, "flat", "percent"},
        amount \in {None, 0, 4900, 4950, 10000, 10049, 15100}, percent \in {None, 0, 50, 1250, 5000, 10000}}

\* Requests with the totals the till would show, each amount up to two satang off.
MCOffsets == {-200, -151, -150, 0, 49, 100, 150, 151}
MCOff(amount) == {None} \cup {a \in {Fine * amount + off : off \in MCOffsets} : a >= 0}
MCClaims ==
    UNION {{[TillDto(lines) EXCEPT !.total = total, !.vat = vat, !.net = net] :
               total \in MCOff(TillTotals(lines).total), vat \in MCOff(TillTotals(lines).vat),
               net \in MCOff(TillTotals(lines).net)} : lines \in MCLines}

MCTill == {TillDto(lines) : lines \in [1 .. 2 -> {MCLine(qty, price) : qty \in 1 .. 3,
                                                 price \in {0, 1, 35, 50, 99, 150, 12345}}]}

MCAll == MCDiscounts \cup MCClaims \cup MCTill

MCAnyRate == {None, 0, 700, 1000, 10000, 15000, 70000}
=============================================================================
