------------------------- MODULE OrderTotalsProofs -------------------------
(***************************************************************************)
(* Theorems about OrderTotals for every request and every VAT rate,        *)
(* checked by TLAPS.  The total is a fold over the lines: TotalIsSum says  *)
(* that it is the sum of their subtotals, which FoldTheorems then bounds   *)
(* by induction.                                                           *)
(***************************************************************************)
EXTENDS OrderTotals, FoldTheorems

\* The subtotals of the lines, by their number.
Subtotals(lines) == [n \in DOMAIN lines |-> lines[n].qty * lines[n].price]

\* The order in which FoldLeft undoes its sequence.
LastOf(D) == [s \in SUBSET D |-> F!Max(s)]

\* A finite set of numbers that is not empty has its maximum.
LEMMA MaxIn ==
    ASSUME NEW s, s \subseteq Int, IsFiniteSet(s), s # {}
    PROVE  F!Max(s) \in s
<1>1. \E m \in s : \A n \in s : m >= n
  BY GreatestExists
<1> QED BY <1>1 DEF F!Max

\* TotalAmount() is the sum of the subtotals (create).
LEMMA TotalIsSum ==
    ASSUME NEW lines \in Seq(Line)
    PROVE  \E g : IsSum(g, DOMAIN lines, LastOf(DOMAIN lines), Subtotals(lines)) /\ TotalAmount(lines) = g[DOMAIN lines]
<1> DEFINE D == DOMAIN lines
           pick == LastOf(D)
           val == Subtotals(lines)
<1>1. D = 1 .. Len(lines) /\ Len(lines) \in Nat /\ \A n \in D : lines[n] \in Line
  OBVIOUS
<1>2. IsFiniteSet(D) /\ D \subseteq Int
  BY <1>1, FS_Interval
<1>3. Picks(pick, D)
  <2>1. ASSUME NEW s \in SUBSET D, s # {} PROVE pick[s] \in s
    <3>1. IsFiniteSet(s) /\ s \subseteq Int
      BY <1>2, FS_Subset
    <3> QED BY <2>1, <3>1, MaxIn DEF LastOf
  <2> QED BY <2>1 DEF Picks
<1>4. val \in [D -> Int]
  BY <1>1 DEF Subtotals, Line
<1> DEFINE Body(g) == [s \in SUBSET D |->
              IF s = {} THEN 0 ELSE g[s \ {F!Max(s)}] + lines[F!Max(s)].qty * lines[F!Max(s)].price]
<1>5. ASSUME NEW g PROVE g = Body(g) <=> SumsTail(g, D, pick, val)
  <2> DEFINE Step(s) == IF s = {} THEN 0 ELSE g[s \ {F!Max(s)}] + lines[F!Max(s)].qty * lines[F!Max(s)].price
             Less(s) == IF s = {} THEN 0 ELSE g[s \ {pick[s]}] + val[pick[s]]
  <2>1. ASSUME NEW s \in SUBSET D PROVE Step(s) = Less(s)
    <3>1. CASE s = {}
      BY <3>1
    <3>2. CASE s # {}
      <4>1. pick[s] = F!Max(s) /\ pick[s] \in D
        BY <1>3, <3>2 DEF LastOf, Picks
      <4> QED BY <3>2, <4>1 DEF Subtotals
    <3> QED BY <3>1, <3>2
  <2> HIDE DEF Step, Less
  <2>2. [s \in SUBSET D |-> Step(s)] = [s \in SUBSET D |-> Less(s)]
    BY <2>1
  <2> QED BY <2>2 DEF SumsTail, Step, Less
<1>6. \E g : g = Body(g)
  <2>1. PICK g : IsSum(g, D, pick, val)
    BY <1>2, <1>3, <1>4, SumsExist
  <2>2. SumsTail(g, D, pick, val)
    BY <2>1, SumsTailExist
  <2> QED BY <1>5, <2>2
<1> DEFINE it == CHOOSE g : g = Body(g)
<1>7. it = Body(it)
  <2> HIDE DEF Body
  <2> QED BY <1>6, Zenon
<1>8. TotalAmount(lines) = it[D]
  BY DEF TotalAmount, F!FoldLeft, F!MapThenFoldSet
<1> HIDE DEF it
<1>9. IsSum(it, D, pick, val)
  <2>1. SumsTail(it, D, pick, val)
    BY <1>5, <1>7
  <2> QED BY <1>2, <1>3, <1>4, <2>1, SumsTailAreSums
<1> QED BY <1>8, <1>9

\* What the sum of the lines is: a whole number, not negative unless a price is.
LEMMA TotalIsSound ==
    ASSUME NEW lines \in Seq(Line)
    PROVE  /\ TotalAmount(lines) \in Int
           /\ (\A n \in 1 .. Len(lines) : lines[n].price >= 0) => TotalAmount(lines) \in Nat
<1>1. PICK g : /\ IsSum(g, DOMAIN lines, LastOf(DOMAIN lines), Subtotals(lines))
               /\ TotalAmount(lines) = g[DOMAIN lines]
  BY TotalIsSum
<1>2. TotalAmount(lines) \in Int
  BY <1>1 DEF IsSum
<1>3. ASSUME \A n \in 1 .. Len(lines) : lines[n].price >= 0 PROVE TotalAmount(lines) \in Nat
  <2>1. ASSUME NEW n \in DOMAIN lines PROVE Subtotals(lines)[n] >= 0
    <3>1. lines[n] \in Line /\ n \in 1 .. Len(lines)
      OBVIOUS
    <3>2. lines[n].qty \in Nat /\ lines[n].price \in Int /\ lines[n].price >= 0
      BY <1>3, <3>1 DEF Line
    <3>3. lines[n].qty * lines[n].price >= 0
      BY <3>2
    <3> QED BY <3>3 DEF Subtotals
  <2> QED BY <1>1, <2>1, SumIsNatural
<1> QED BY <1>2, <1>3

\* Rounding never leaves an interval with whole ends (roundCurrency).
LEMMA RoundedBounds ==
    ASSUME NEW n \in Int, NEW d \in Nat \ {0}, NEW k \in Int, NEW r \in Rounded(n, d)
    PROVE  /\ r \in Int
           /\ n >= 0 => r >= 0
           /\ n <= k * d => r <= k
<1>1. n \div d \in Int
  OBVIOUS
<1>2. r \in Int /\ 2 * n - d <= 2 * d * r /\ 2 * d * r <= 2 * n + d
  BY <1>1 DEF Rounded
<1>3. ASSUME n >= 0, r < 0 PROVE FALSE
  <2>1. 2 * d * r <= 2 * d * (-1)
    BY <1>2, <1>3
  <2> QED BY <1>2, <1>3, <2>1
<1>4. ASSUME n <= k * d, r > k PROVE FALSE
  <2>1. 2 * d * r >= 2 * d * (k + 1)
    BY <1>2, <1>4
  <2>2. 2 * d * (k + 1) = 2 * (k * d) + 2 * d
    OBVIOUS
  <2> QED BY <1>2, <1>4, <2>1, <2>2
<1> QED BY <1>2, <1>3, <1>4

\* A discount is never negative and never more than the total, however it is asked
\* for and whichever way its half satang is rounded (resolveDiscountAmount).
THEOREM DiscountBounds ==
    ASSUME NEW d \in Dto, NEW total \in Nat, NEW discount \in Discounts(d, total)
    PROVE  discount \in 0 .. total
<1>1. CASE discount \in FlatDiscounts(d, total)
  <2> DEFINE amount == IF d.amount = None THEN 0 ELSE d.amount
  <2>1. amount \in Nat
    BY DEF Dto
  <2>2. amount <= Fine * total /\ discount \in Rounded(amount, Fine)
    BY <1>1 DEF FlatDiscounts
  <2> HIDE DEF amount
  <2>3. amount \in Int /\ amount >= 0 /\ amount <= total * 100 /\ discount \in Rounded(amount, 100)
    BY <2>1, <2>2 DEF Fine
  <2> QED BY <2>3, RoundedBounds
<1>2. CASE discount \in PercentDiscounts(d, total)
  <2> DEFINE percent == IF d.percent = None THEN 0 ELSE d.percent
  <2>1. percent \in Nat
    BY DEF Dto
  <2>2. percent <= 10000 /\ discount \in Rounded(total * percent, 10000)
    BY <1>2 DEF PercentDiscounts
  <2> HIDE DEF percent
  <2>3. total * percent \in Int /\ total * percent >= 0 /\ total * percent <= total * 10000
    BY <2>1, <2>2
  <2> QED BY <2>2, <2>3, RoundedBounds
<1> QED BY <1>1, <1>2 DEF Discounts

\* A discount is a whole number of satang (roundCurrency).
LEMMA DiscountIsWhole ==
    ASSUME NEW d \in Dto, NEW total \in Int, NEW discount \in Discounts(d, total)
    PROVE  discount \in Int
<1>1. CASE discount \in FlatDiscounts(d, total)
  <2> DEFINE amount == IF d.amount = None THEN 0 ELSE d.amount
  <2>1. amount \in Nat /\ discount \in Rounded(amount, 100)
    BY <1>1 DEF FlatDiscounts, Dto, Fine
  <2> HIDE DEF amount
  <2> QED BY <2>1, RoundedBounds
<1>2. CASE discount \in PercentDiscounts(d, total)
  <2> DEFINE percent == IF d.percent = None THEN 0 ELSE d.percent
  <2>1. percent \in Nat /\ discount \in Rounded(total * percent, 10000)
    BY <1>2 DEF PercentDiscounts, Dto
  <2> HIDE DEF percent
  <2>2. total * percent \in Int
    BY <2>1
  <2> QED BY <2>1, <2>2, RoundedBounds
<1> QED BY <1>1, <1>2 DEF Discounts

\* VAT is never negative, whatever VAT_RATE is set to (getVatRate).
LEMMA VatBounds ==
    ASSUME NEW taxable \in Int, NEW s \in Int \cup {None}, NEW vat \in Vats(taxable, VatRate(s))
    PROVE  vat \in Nat
<1> DEFINE base == IF taxable < 0 THEN 0 ELSE taxable
           rate == VatRate(s)
<1>1. base \in Nat
  OBVIOUS
<1>2. rate \in Nat
  BY OrderTotalsAssumption DEF VatRate, SevenPercent
<1>3. vat \in {HalfUp(base * rate, 10000)} \cup Rounded(base * rate, 10000)
  BY DEF Vats
<1> HIDE DEF base, rate
<1>4. base * rate \in Nat
  BY <1>1, <1>2
<1>5. CASE vat = HalfUp(base * rate, 10000)
  BY <1>4, <1>5 DEF HalfUp
<1>6. CASE vat \in Rounded(base * rate, 10000)
  BY <1>4, <1>6, RoundedBounds
<1> QED BY <1>3, <1>5, <1>6

\* Whatever discount a request asks for and whatever VAT_RATE is, the order that is
\* stored discounts at most its total and leaves the customer owing at least the VAT.
THEOREM TotalsDiscountWithinTotal == Spec => []DiscountWithinTotal
<1> DEFINE Inv == /\ setting \in Int \cup {None}
                  /\ DiscountWithinTotal
<1>1. Init => Inv
  BY OrderTotalsAssumption DEF Init, DiscountWithinTotal, Accepted
<1>2. ASSUME Inv, [Next]_totalsVars PROVE Inv'
  <2>1. CASE Create
    <3>1. PICK d \in Dtos : dto' = d /\ result' \in Outcomes(d, setting)
      BY <2>1 DEF Create
    <3>2. setting' = setting /\ setting \in Int \cup {None}
      BY <1>2, <2>1 DEF Create
    <3> DEFINE total == TotalAmount(d.lines)
    <3>3. SUFFICES ASSUME result' # None, result'.accepted, PricesNatural'
                   PROVE  /\ 0 <= result'.discount /\ result'.discount <= result'.total
                          /\ 0 <= result'.vat /\ result'.vat <= result'.net
      BY <3>2 DEF DiscountWithinTotal, Accepted
    <3>4. total \in Nat /\ d \in Dto
      <4>1. d \in Dto /\ d.lines \in Seq(Line)
        BY <3>1, OrderTotalsAssumption DEF Dto
      <4>2. \A n \in 1 .. Len(d.lines) : d.lines[n].price >= 0
        BY <3>1, <3>3 DEF PricesNatural
      <4> QED BY <4>1, <4>2, TotalIsSound
    <3> HIDE DEF total
    <3>5. PICK discount \in Discounts(d, total) : \E vat \in Vats(total - discount, VatRate(setting)) :
             result' = [accepted |-> TRUE, total |-> total, discount |-> discount,
                        vat |-> vat, net |-> total - discount + vat]
      BY <3>1, <3>3 DEF Outcomes, Rejected, total
    <3>6. PICK vat \in Vats(total - discount, VatRate(setting)) :
             result' = [accepted |-> TRUE, total |-> total, discount |-> discount,
                        vat |-> vat, net |-> total - discount + vat]
      BY <3>5
    <3>7. discount \in 0 .. total
      BY <3>4, DiscountBounds
    <3>8. vat \in Nat
      BY <3>2, <3>4, <3>7, VatBounds
    <3> QED BY <3>4, <3>6, <3>7, <3>8
  <2>2. CASE UNCHANGED totalsVars
    BY <1>2, <2>2 DEF totalsVars, DiscountWithinTotal, Accepted, PricesNatural
  <2> QED BY <1>2, <2>1, <2>2 DEF Next
<1>3. Spec => []Inv
  BY <1>1, <1>2, PTL DEF Spec
<1> QED BY <1>3, PTL

\* What create() answers comes from Outcomes(), or there is no request yet.
Answered ==
    /\ setting \in Int \cup {None}
    /\ (dto # None \/ result # None) => /\ dto \in Dtos
                                        /\ result \in Outcomes(dto, setting)

\* Every answer is one that Outcomes() allows (create).
LEMMA AlwaysAnswered == Spec => []Answered
<1>1. Init => Answered
  BY OrderTotalsAssumption DEF Init, Answered
<1>2. Answered /\ [Next]_totalsVars => Answered'
  BY DEF Answered, Next, Create, totalsVars
<1> QED BY <1>1, <1>2, PTL DEF Spec

\* A claim that passes is within a satang and a half: rounding it moves it by at most
\* half a satang, and one more is tolerated (assertAmountMatch).
LEMMA PassingIsClose ==
    ASSUME NEW claim \in Nat, NEW expected \in Int, claim # None, Passes(claim, expected)
    PROVE  2 * Distance(claim, Fine * expected) <= 3 * Fine
<1>1. PICK r \in Rounded(claim, 100) : Distance(r, expected) <= 1
  BY DEF Passes, Tolerance, Fine
<1>2. r \in Int /\ 2 * claim - 100 <= 200 * r /\ 200 * r <= 2 * claim + 100
  BY <1>1 DEF Rounded
<1>3. r <= expected + 1 /\ expected <= r + 1
  BY <1>1, <1>2 DEF Distance
<1>4. 2 * claim <= 200 * expected + 300 /\ 200 * expected <= 2 * claim + 300
  BY <1>2, <1>3
<1> QED BY <1>4 DEF Distance, Fine

\* What is stored is whole satang (roundCurrency).
LEMMA AnswersAreWhole ==
    ASSUME Answered, result # None, result.accepted
    PROVE  result.total \in Int /\ result.vat \in Int /\ result.net \in Int
<1> DEFINE total == TotalAmount(dto.lines)
<1>1. dto \in Dtos /\ result \in Outcomes(dto, setting) /\ setting \in Int \cup {None}
  BY DEF Answered
<1>2. PICK discount \in Discounts(dto, total) : \E vat \in Vats(total - discount, VatRate(setting)) :
         result = [accepted |-> TRUE, total |-> total, discount |-> discount,
                   vat |-> vat, net |-> total - discount + vat]
  BY <1>1 DEF Outcomes, Rejected
<1>3. PICK vat \in Vats(total - discount, VatRate(setting)) :
         result = [accepted |-> TRUE, total |-> total, discount |-> discount,
                   vat |-> vat, net |-> total - discount + vat]
  BY <1>2
<1>4. dto \in Dto /\ dto.lines \in Seq(Line)
  BY <1>1, OrderTotalsAssumption DEF Dto
<1>5. total \in Int
  BY <1>4, TotalIsSound
<1> HIDE DEF total
<1>6. discount \in Int
  BY <1>4, <1>5, DiscountIsWhole
<1>7. vat \in Nat
  BY <1>1, <1>5, <1>6, VatBounds
<1> QED BY <1>3, <1>5, <1>6, <1>7

\* An order whose client sent totals is stored with these totals, give or take a satang
\* and a half (assertClientTotals).
THEOREM TotalsAreTheClients == Spec => []ClientTotalsHonoured
<1>1. Answered => ClientTotalsHonoured
  <2> SUFFICES ASSUME Answered, result # None, result.accepted,
                      NEW pair \in {<<dto.total, result.total>>, <<dto.vat, result.vat>>,
                                    <<dto.net, result.net>>},
                      pair[1] # None
               PROVE  2 * Distance(pair[1], Fine * pair[2]) <= 3 * Fine
    BY DEF ClientTotalsHonoured, Accepted
  <2>1. result \in Outcomes(dto, setting) /\ result # Rejected /\ dto \in Dto
    BY OrderTotalsAssumption DEF Answered, Rejected
  <2>2. /\ Passes(dto.total, result.total)
        /\ Passes(dto.vat, result.vat)
        /\ Passes(dto.net, result.net)
    BY <2>1 DEF Outcomes
  <2>3. Passes(pair[1], pair[2]) /\ pair[1] \in Nat /\ pair[2] \in Int
    BY <2>1, <2>2, AnswersAreWhole DEF Dto
  <2> QED BY <2>3, PassingIsClose
<1> QED BY <1>1, AlwaysAnswered, PTL

\* The server settles on 7 % when VAT_RATE is left out or says so (getVatRate).
LEMMA SevenPercentIsDefault ==
    ASSUME NEW s \in {None, SevenPercent, 100 * SevenPercent}
    PROVE  VatRate(s) = SevenPercent
BY OrderTotalsAssumption DEF VatRate, SevenPercent

\* A request of the till is priced in one way only, that of the till.
LEMMA TillIsPricedAlike ==
    ASSUME NEW lines \in Seq(Line), TotalAmount(lines) \in Nat,
           NEW s \in {None, SevenPercent, 100 * SevenPercent},
           NEW answer \in Outcomes(TillDto(lines), s)
    PROVE  answer = TillTotals(lines)
<1> DEFINE d == TillDto(lines)
           total == TotalAmount(lines)
           vat == HalfUp(total * SevenPercent, 10000)
           priced == UNION {{[accepted |-> TRUE, total |-> total, discount |-> x,
                              vat |-> v, net |-> total - x + v] :
                                 v \in Vats(total - x, VatRate(s))} :
                            x \in Discounts(d, total)}
<1>1. Discounts(d, total) = {0}
  <2>1. /\ d.amount = 0 /\ d.percent = None /\ d.type = None
        /\ 0 # None
    BY OrderTotalsAssumption DEF TillDto
  <2>2. DiscountType(d) = "flat"
    BY <2>1 DEF DiscountType
  <2>3. Rounded(0, Fine) = {0}
    BY DEF Rounded, Fine
  <2>4. FlatDiscounts(d, total) = {0}
    BY <2>1, <2>3 DEF FlatDiscounts, Fine
  <2> QED BY <2>1, <2>2, <2>4 DEF Discounts
<1>2. total - 0 = total
  OBVIOUS
<1>3. Vats(total, VatRate(s)) = {vat}
  BY SevenPercentIsDefault DEF Vats
<1>4. priced = {[accepted |-> TRUE, total |-> total, discount |-> 0,
                 vat |-> vat, net |-> total + vat]}
  BY <1>1, <1>2, <1>3
<1>5. priced = {TillTotals(lines)}
  BY <1>4 DEF TillTotals
<1>6. d.total = None /\ d.vat = None /\ d.net = None /\ d.lines = lines
  BY DEF TillDto
<1>7. answer \in {p \in priced : /\ Passes(d.total, p.total) /\ Passes(d.vat, p.vat)
                                 /\ Passes(d.net, p.net)}
      \/ answer \in {Rejected : x \in {p \in priced : \/ MayFail(d.total, p.total)
                                                      \/ MayFail(d.vat, p.vat)
                                                      \/ MayFail(d.net, p.net)}}
      \/ answer \in (IF priced = {} THEN {Rejected} ELSE {})
  BY <1>6 DEF Outcomes
<1> HIDE DEF priced, d
<1>8. \A expected : ~MayFail(None, expected)
  BY DEF MayFail
<1> QED BY <1>5, <1>6, <1>7, <1>8

\* The till collects for an offline order what the server asks for when the order is
\* flushed, as long as VAT_RATE says 7 % (OrderService of the frontend, getVatRate).
THEOREM TillIsRight == Spec => []TillAgreesWithServer
<1>1. Answered => TillAgreesWithServer
  <2> SUFFICES ASSUME Answered, dto # None, PricesNatural,
                      setting \in {None, SevenPercent, 100 * SevenPercent},
                      dto = TillDto(dto.lines)
               PROVE  result = TillTotals(dto.lines)
    BY DEF TillAgreesWithServer
  <2> DEFINE lines == dto.lines
  <2>1. dto \in Dtos /\ result \in Outcomes(TillDto(lines), setting)
    BY DEF Answered
  <2>2. lines \in Seq(Line)
    BY <2>1, OrderTotalsAssumption DEF Dto
  <2>3. \A n \in 1 .. Len(lines) : lines[n].price >= 0
    BY DEF PricesNatural
  <2> HIDE DEF lines
  <2>4. TotalAmount(lines) \in Nat
    BY <2>2, <2>3, TotalIsSound
  <2>5. result = TillTotals(lines)
    BY <2>1, <2>2, <2>4, TillIsPricedAlike
  <2> QED BY <2>5 DEF lines
<1> QED BY <1>1, AlwaysAnswered, PTL
=============================================================================
