---------------------------- MODULE OrderTotals ----------------------------
(***************************************************************************)
(* What an order costs: the totals OrdersService.create() computes, the    *)
(* discount and VAT rules and the check of the client's own totals, next   *)
(* to the totals the till shows for an order it takes offline.             *)
(*                                                                         *)
(* Money is an integer number of satang (1/100 baht), except for the       *)
(* amounts a client may send with any number of decimals, its totals and   *)
(* its discount, which are in hundredths of a satang; rates are integers   *)
(* in units of 1/10000 (7 % is 700).  The code computes in floating point  *)
(* and rounds with Math.round; which way an exact half satang goes depends *)
(* on the float it is stored in, so Rounded() allows both.  At 7 % both    *)
(* the server and the till round every half up for totals up to 20,000.00  *)
(* baht (computed exhaustively), and the model says so.                    *)
(***************************************************************************)
EXTENDS Integers, Sequences

F == INSTANCE SequencesExt

CONSTANTS
    None,      \* a field the client has left out, a setting that is not a number
    Settings,  \* values VAT_RATE may have, in units of 1/10000
    Dtos       \* the create requests: CreateOrderDto after validation

\* The amounts that a client sends are so many to the satang.
Fine == 100

\* Prices and quantities of the lines; discount_percent in 1/100 of a percent; amount,
\* total, vat and net in 1/Fine of a satang.
Line == [qty : Nat, price : Int]
Dto == [lines : Seq(Line), type : {None, "flat", "percent"},
        amount : Nat \cup {None}, percent : Nat \cup {None},
        total : Nat \cup {None}, vat : Nat \cup {None}, net : Nat \cup {None}]

ASSUME OrderTotalsAssumption ==
    /\ None \notin Int
    /\ None \notin {"flat", "percent"}
    /\ Settings \subseteq Int \cup {None}
    /\ Dtos \subseteq Dto

VARIABLES setting, dto, result
totalsVars == <<setting, dto, result>>

Rejected == [accepted |-> FALSE, total |-> 0, discount |-> 0, vat |-> 0, net |-> 0]

-----------------------------------------------------------------------------
\* roundCurrency() of n/d satang: the nearest satang, either one at a tie.
Rounded(n, d) ==
    {r \in {n \div d, (n \div d) + 1} : 2 * n - d <= 2 * d * r /\ 2 * d * r <= 2 * n + d}

\* The nearest satang, ties up.
HalfUp(n, d) == (2 * n + d) \div (2 * d)

\* Subtotals of the lines, summed.
TotalAmount(lines) == F!FoldLeft(LAMBDA sum, line : sum + line.qty * line.price, 0, lines)

SevenPercent == 700

VatRate_NoDefault(s) ==
    IF s = None \/ s < 0 THEN 0 ELSE IF s <= 10000 THEN s ELSE s \div 100

\* getVatRate(): 0.07 and 7 both mean 7 %; what is missing or no number is 7 % too.
VatRate(s) ==
    IF s = None \/ s < 0 THEN SevenPercent
    ELSE IF s <= 10000 THEN s ELSE s \div 100

\* The discount a request asks for by amount, or by percentage.
FlatDiscounts_Unchecked(d, total) ==
    LET amount == IF d.amount = None THEN 0 ELSE d.amount IN Rounded(amount, Fine)

FlatDiscounts(d, total) ==
    LET amount == IF d.amount = None THEN 0 ELSE d.amount
    IN  IF amount <= Fine * total THEN Rounded(amount, Fine) ELSE {}

PercentDiscounts(d, total) ==
    LET percent == IF d.percent = None THEN 0 ELSE d.percent
    IN  IF percent <= 10000 THEN Rounded(total * percent, 10000) ELSE {}

\* discount_type, or what the fields that are present suggest.
DiscountType(d) ==
    IF d.type # None THEN d.type ELSE IF d.percent # None THEN "percent" ELSE "flat"

\* resolveDiscountAmount(): the discounts it may return, none when it throws.
Discounts(d, total) ==
    IF d.amount # None /\ d.percent # None THEN {}
    ELSE IF DiscountType(d) = "percent" THEN PercentDiscounts(d, total)
    ELSE FlatDiscounts(d, total)

\* The VAT on what is left after the discount, never on less than nothing.
Vats(taxable, rate) ==
    LET base == IF taxable < 0 THEN 0 ELSE taxable
    IN  IF rate = SevenPercent THEN {HalfUp(base * rate, 10000)} ELSE Rounded(base * rate, 10000)

Distance(a, b) == IF a < b THEN b - a ELSE a - b

Tolerance_Baht == 100

\* AMOUNT_TOLERANCE: the client may be one satang off, although the float
\* difference of two amounts a satang apart may also come out above 0.01.
Tolerance == 1

\* assertAmountMatch() rounds the client's amount to a satang, and then lets it pass ...
Passes(provided, expected) ==
    provided = None \/ \E r \in Rounded(provided, Fine) : Distance(r, expected) <= Tolerance

\* ... or may refuse it.
MayFail(provided, expected) ==
    provided # None /\ \E r \in Rounded(provided, Fine) : Distance(r, expected) >= Tolerance

\* What create() may answer to d when VAT_RATE is s.
Outcomes(d, s) ==
    LET total == TotalAmount(d.lines)
        priced == UNION {{[accepted |-> TRUE, total |-> total, discount |-> discount,
                           vat |-> vat, net |-> total - discount + vat] :
                              vat \in Vats(total - discount, VatRate(s))} :
                         discount \in Discounts(d, total)}
    IN  {p \in priced : /\ Passes(d.total, p.total) /\ Passes(d.vat, p.vat)
                        /\ Passes(d.net, p.net)}
        \cup {Rejected : x \in {p \in priced : \/ MayFail(d.total, p.total)
                                               \/ MayFail(d.vat, p.vat)
                                               \/ MayFail(d.net, p.net)}}
        \cup (IF priced = {} THEN {Rejected} ELSE {})

-----------------------------------------------------------------------------
(* The till (OrderService of the frontend): no discount, no totals in the  *)
(* request, list prices, and 7 % whatever the server is configured to.     *)

TillDto(lines) == [lines |-> lines, type |-> None, amount |-> 0, percent |-> None,
                   total |-> None, vat |-> None, net |-> None]

TillTotals(lines) ==
    LET total == TotalAmount(lines)
        vat == HalfUp(total * SevenPercent, 10000)
    IN  [accepted |-> TRUE, total |-> total, discount |-> 0, vat |-> vat, net |-> total + vat]

-----------------------------------------------------------------------------
Init ==
    /\ setting \in Settings
    /\ dto = None
    /\ result = None

Create ==
    /\ dto = None
    /\ dto' \in Dtos
    /\ result' \in Outcomes(dto', setting)
    /\ UNCHANGED setting

Next == Create

Spec == Init /\ [][Next]_totalsVars

-----------------------------------------------------------------------------
(* Properties.                                                             *)

Accepted == result # None /\ result.accepted

\* The lines are not priced below nothing (CreateOrderItemDto does not check).
PricesNatural == \A n \in 1 .. Len(dto.lines) : dto.lines[n].price >= 0

\* However a discount is asked for and rounded, it stays between nothing and the
\* total, and the customer never owes less than the VAT (resolveDiscountAmount).
DiscountWithinTotal ==
    (Accepted /\ PricesNatural) =>
        /\ 0 <= result.discount /\ result.discount <= result.total
        /\ 0 <= result.vat /\ result.vat <= result.net

\* The net amount the till shows and collects for an offline order is the one the
\* server computes when the order is flushed, as long as VAT_RATE is left out or
\* says 7 % in either notation (.env.example: 0.07; getVatRate also accepts 7) and
\* no line is priced below nothing.
TillAgreesWithServer ==
    (dto # None /\ PricesNatural /\ setting \in {None, SevenPercent, 100 * SevenPercent}) =>
        (dto = TillDto(dto.lines) => result = TillTotals(dto.lines))

\* An order whose client sent totals is stored only with totals that are the
\* client's, give or take a satang and a half: one that the check allows and half of one
\* because the client's amount is rounded first (assertClientTotals;
\* orders.service.spec.ts, 'rejects when client totals do not match server-calculated
\* totals').
ClientTotalsHonoured ==
    Accepted => \A pair \in {<<dto.total, result.total>>, <<dto.vat, result.vat>>,
                             <<dto.net, result.net>>} :
                    pair[1] # None => 2 * Distance(pair[1], Fine * pair[2]) <= 3 * Fine
=============================================================================
