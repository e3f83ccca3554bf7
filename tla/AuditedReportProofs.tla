------------------------- MODULE AuditedReportProofs -------------------------
(***************************************************************************)
(* What scripts/pnl_report.py says of any database the program can leave   *)
(* behind: its gains are the money that moved, its open lots the newest    *)
(* trades, its prices those the orders were decided at, and its net        *)
(* position, with the orders whose answer was lost, that of the account.   *)
(***************************************************************************)
EXTENDS AuditedReport, AuditTrailProofs, SequenceFoldsProofs

-----------------------------------------------------------------------------
(* What the report computes is what it is written for: numbers and lots.   *)

Trade == [cycle : Int, order : Int, price : Int, size : Int]
Lot == [size : Int, price : Int]
Pnl == [realized : Int, lots : Seq(Lot)]
Book == [remaining : Int, realized : Int, lots : Seq(Lot)]

LEMMA MatchLotType ==
    ASSUME NEW book \in Book, NEW lot \in Lot, NEW price \in Int
    PROVE  MatchLot(book, lot, price) \in Book
<1>1. /\ book.remaining \in Int /\ book.realized \in Int /\ book.lots \in Seq(Lot)
      /\ lot.size \in Int /\ lot.price \in Int
  BY DEF Book, Lot
<1>2. Append(book.lots, lot) \in Seq(Lot)
  BY <1>1
<1>3. CASE ~IsOpposite(book.remaining, lot.size)
  BY <1>1, <1>2, <1>3 DEF MatchLot, Book
<1>4. CASE IsOpposite(book.remaining, lot.size)
  <2> DEFINE matched == Smaller(Magnitude(book.remaining), Magnitude(lot.size))
             sign    == IF lot.size > 0 THEN 1 ELSE -1
             rest    == lot.size - sign * matched
             gain    == Gain(lot, price, matched)
             smaller == [lot EXCEPT !.size = rest]
  <2>1. matched \in Int /\ sign \in Int
    BY <1>1 DEF Smaller, Magnitude
  <2> HIDE DEF matched, sign
  <2>2. rest \in Int /\ book.remaining + sign * matched \in Int /\ gain \in Int
    BY <1>1, <2>1 DEF Gain
  <2>3. smaller \in Lot
    BY <2>2 DEF Lot
  <2>4. Append(book.lots, smaller) \in Seq(Lot)
    BY <1>1, <2>3
  <2>5. MatchLot(book, lot, price) =
          [remaining |-> book.remaining + sign * matched,
           realized  |-> book.realized + gain,
           lots      |-> IF rest = 0 THEN book.lots ELSE Append(book.lots, smaller)]
    BY <1>4 DEF MatchLot, matched, sign
  <2>6. book.realized + gain \in Int
    BY <1>1, <2>2
  <2> HIDE DEF rest, gain, smaller
  <2> QED
    BY <1>1, <2>2, <2>4, <2>5, <2>6 DEF Book
<1> QED
  BY <1>3, <1>4

\* A trade meets the lots one by one.
LEMMA MatchingsRun ==
    ASSUME NEW pnl \in Pnl, NEW trade \in Trade
    PROVE  LET m == Matchings(pnl, trade)
           IN  /\ m \in [0 .. Len(pnl.lots) -> Book]
               /\ m[0] = [remaining |-> trade.size, realized |-> pnl.realized, lots |-> <<>>]
               /\ \A n \in 1 .. Len(pnl.lots) :
                     m[n] = MatchLot(m[n - 1], pnl.lots[n], trade.price)
<1> DEFINE N == Len(pnl.lots)
           base == [remaining |-> trade.size, realized |-> pnl.realized, lots |-> <<>>]
           next == [n \in 1 .. N |-> [b \in Book |-> MatchLot(b, pnl.lots[n], trade.price)]]
           Unrolled(t) == [n \in 0 .. N |->
               IF n = 0 THEN base ELSE MatchLot(t[n - 1], pnl.lots[n], trade.price)]
<1>1. N \in Nat /\ \A n \in 1 .. N : pnl.lots[n] \in Lot
  BY DEF Pnl
<1>2. trade.price \in Int /\ base \in Book
  BY DEF Pnl, Trade, Book
<1>3. Matchings(pnl, trade) = CHOOSE t : t = Unrolled(t)
  BY DEF Matchings
<1> HIDE DEF N, base
<1>4. next \in Steps(N, Book)
  BY <1>1, <1>2, MatchLotType DEF Steps
<1>5. PICK f : IsRun(f, N, Book, base, next)
  <2> HIDE DEF next
  <2> QED
    BY <1>1, <1>2, <1>4, Recursion
<1>6. ASSUME NEW n \in 1 .. N
      PROVE  f[n] = MatchLot(f[n - 1], pnl.lots[n], trade.price)
  <2>1. f[n] = next[n][f[n - 1]] /\ f[n - 1] \in Book
    BY <1>1, <1>5 DEF IsRun
  <2> QED
    BY <2>1
<1>7. f = Unrolled(f)
  BY <1>1, <1>5, <1>6 DEF IsRun
<1> DEFINE t == Matchings(pnl, trade)
<1>8. t = Unrolled(t)
  <2> HIDE DEF Unrolled
  <2> QED
    BY <1>3, <1>7
<1> HIDE DEF t
<1>9. t[0] = base /\ \A n \in 1 .. N : t[n] = MatchLot(t[n - 1], pnl.lots[n], trade.price)
  BY <1>1, <1>8
<1>10. t = [n \in 0 .. N |-> t[n]]
  BY <1>1, <1>8
<1>11. t \in [0 .. N -> Book]
  <2>1. t[0] \in Book
    BY <1>2, <1>9
  <2>2. ASSUME NEW n \in 1 .. N, t[n - 1] \in Book
        PROVE  t[n] \in Book
    BY <1>1, <1>2, <1>9, <2>2, MatchLotType
  <2> QED
    BY <1>1, <1>10, <2>1, <2>2, RunType
<1> QED
  BY <1>9, <1>11 DEF t, N, base

LEMMA SettleType ==
    ASSUME NEW pnl \in Pnl, NEW trade \in Trade
    PROVE  /\ Settle(pnl, trade) \in Pnl
           /\ Matchings(pnl, trade)[Len(pnl.lots)] \in Book
<1> DEFINE book == Matchings(pnl, trade)[Len(pnl.lots)]
<1>1. Len(pnl.lots) \in 0 .. Len(pnl.lots)
  BY DEF Pnl
<1>2. book \in Book
  BY <1>1, MatchingsRun
<1> HIDE DEF book
<1>3. book.remaining \in Int /\ book.realized \in Int /\ book.lots \in Seq(Lot)
  BY <1>2 DEF Book
<1> DEFINE new == [size |-> book.remaining, price |-> trade.price]
<1>4. new \in Lot
  BY <1>3 DEF Lot, Trade
<1>5. Append(book.lots, new) \in Seq(Lot)
  BY <1>3, <1>4
<1>6. Opened(book, trade) \in Pnl
  BY <1>3, <1>5 DEF Opened, Pnl
<1> QED
  BY <1>2, <1>6 DEF Settle, book

LEMMA SettlementRun ==
    ASSUME NEW trades \in Seq(Trade)
    PROVE  LET s == Settlement(trades)
           IN  /\ s \in [0 .. Len(trades) -> Pnl]
               /\ s[0] = [realized |-> 0, lots |-> <<>>]
               /\ \A n \in 1 .. Len(trades) : s[n] = Settle(s[n - 1], trades[n])
<1> DEFINE N == Len(trades)
           base == [realized |-> 0, lots |-> <<>>]
           next == [n \in 1 .. N |-> [p \in Pnl |-> Settle(p, trades[n])]]
           Unrolled(t) == [n \in 0 .. N |-> IF n = 0 THEN base ELSE Settle(t[n - 1], trades[n])]
<1>1. N \in Nat /\ \A n \in 1 .. N : trades[n] \in Trade
  OBVIOUS
<1>2. base \in Pnl
  BY DEF Pnl
<1>3. Settlement(trades) = CHOOSE t : t = Unrolled(t)
  BY DEF Settlement
<1> HIDE DEF N, base
<1>4. next \in Steps(N, Pnl)
  BY <1>1, SettleType DEF Steps
<1>5. PICK f : IsRun(f, N, Pnl, base, next)
  <2> HIDE DEF next
  <2> QED
    BY <1>1, <1>2, <1>4, Recursion
<1>6. ASSUME NEW n \in 1 .. N
      PROVE  f[n] = Settle(f[n - 1], trades[n])
  <2>1. f[n] = next[n][f[n - 1]] /\ f[n - 1] \in Pnl
    BY <1>1, <1>5 DEF IsRun
  <2> QED
    BY <2>1
<1>7. f = Unrolled(f)
  BY <1>1, <1>5, <1>6 DEF IsRun
<1> DEFINE t == Settlement(trades)
<1>8. t = Unrolled(t)
  <2> HIDE DEF Unrolled
  <2> QED
    BY <1>3, <1>7
<1> HIDE DEF t
<1>9. t[0] = base /\ \A n \in 1 .. N : t[n] = Settle(t[n - 1], trades[n])
  BY <1>1, <1>8
<1>10. t = [n \in 0 .. N |-> t[n]]
  BY <1>1, <1>8
<1>11. t \in [0 .. N -> Pnl]
  <2>1. t[0] \in Pnl
    BY <1>2, <1>9
  <2>2. ASSUME NEW n \in 1 .. N, t[n - 1] \in Pnl
        PROVE  t[n] \in Pnl
    BY <1>1, <1>9, <2>2, SettleType
  <2> QED
    BY <1>1, <1>10, <2>1, <2>2, RunType
<1> QED
  BY <1>9, <1>11 DEF t, N, base
-----------------------------------------------------------------------------
(* What was matched is gained, and what is open is still owed.             *)

Size == [lot \in Lot |-> lot.size]
Cost == [lot \in Lot |-> lot.size * lot.price]
Sizes == [trade \in Trade |-> trade.size]
Costs == [trade \in Trade |-> trade.size * trade.price]

SizeOf(lots) == Total(Values(lots, Size))
CostOf(lots) == Total(Values(lots, Cost))

LEMMA ProductsAreNumbers ==
    /\ Size \in [Lot -> Int] /\ Cost \in [Lot -> Int]
    /\ Sizes \in [Trade -> Int] /\ Costs \in [Trade -> Int]
<1>1. \A a, b \in Int : a * b \in Int
  OBVIOUS
<1> QED
  BY <1>1 DEF Size, Cost, Sizes, Costs, Lot, Trade

LEMMA LotsType ==
    ASSUME NEW lots \in Seq(Lot)
    PROVE  /\ SizeOf(lots) \in Int /\ CostOf(lots) \in Int
           /\ \A lot \in Lot : /\ SizeOf(Append(lots, lot)) = SizeOf(lots) + lot.size
                               /\ CostOf(Append(lots, lot)) = CostOf(lots) + lot.size * lot.price
           /\ SizeOf(<<>>) = 0 /\ CostOf(<<>>) = 0
<1>1. SizeOf(lots) \in Int /\ CostOf(lots) \in Int
  <2>1. Values(lots, Size) \in Seq(Int) /\ Values(lots, Cost) \in Seq(Int)
    BY ValuesType, ProductsAreNumbers
  <2> QED
    BY <2>1, TotalType DEF SizeOf, CostOf
<1>2. ASSUME NEW lot \in Lot
      PROVE  /\ SizeOf(Append(lots, lot)) = SizeOf(lots) + lot.size
             /\ CostOf(Append(lots, lot)) = CostOf(lots) + lot.size * lot.price
  <2>1. Size[lot] = lot.size /\ Cost[lot] = lot.size * lot.price
    BY DEF Size, Cost
  <2> QED
    BY <2>1, WorthOfAppend, ProductsAreNumbers DEF SizeOf, CostOf
<1>3. SizeOf(<<>>) = 0 /\ CostOf(<<>>) = 0
  BY WorthOfNone DEF SizeOf, CostOf
<1> QED
  BY <1>1, <1>2, <1>3

\* Gain, whatever the side.
LEMMA GainOfSigned ==
    ASSUME NEW matched \in Int, NEW price \in Int, NEW lot \in Lot
    PROVE  Gain(lot, price, matched)
             = (IF lot.size > 0 THEN matched ELSE -matched) * (price - lot.price)
<1>1. lot.price \in Int
  BY DEF Lot
<1>2. matched * (lot.price - price) = (-matched) * (price - lot.price)
  BY <1>1
<1> QED
  BY <1>2 DEF Gain

LEMMA MatchLotBalance ==
    ASSUME NEW book \in Book, NEW lot \in Lot, NEW price \in Int
    PROVE  LET after == MatchLot(book, lot, price)
           IN  /\ after.remaining + SizeOf(after.lots)
                    = book.remaining + SizeOf(book.lots) + lot.size
               /\ after.realized - CostOf(after.lots) - after.remaining * price
                    = book.realized - CostOf(book.lots) - book.remaining * price
                        - lot.size * lot.price
<1> DEFINE after == MatchLot(book, lot, price)
           s == lot.size
           p == lot.price
           r == book.remaining
           z == book.realized
           size == SizeOf(book.lots)
           cost == CostOf(book.lots)
<1>1. r \in Int /\ z \in Int /\ book.lots \in Seq(Lot) /\ s \in Int /\ p \in Int
  BY DEF Book, Lot
<1>2. size \in Int /\ cost \in Int
  BY <1>1, LotsType
<1>3. CASE ~IsOpposite(r, s)
  <2>1. after = [book EXCEPT !.lots = Append(@, lot)]
    BY <1>3 DEF MatchLot
  <2>2. after.remaining = r /\ after.realized = z /\ after.lots = Append(book.lots, lot)
    BY <2>1 DEF Book
  <2>3. SizeOf(after.lots) = size + s /\ CostOf(after.lots) = cost + s * p
    BY <1>1, <2>2, LotsType
  <2> HIDE DEF after, s, p, r, z, size, cost
  <2>4. s * p \in Int /\ r * price \in Int
    BY <1>1
  <2>5. r + (size + s) = r + size + s
    BY <1>1, <1>2
  <2> DEFINE a == s * p
             b == r * price
  <2>6. z - (cost + a) - b = z - cost - b - a
    <3> HIDE DEF a, b
    <3>1. a \in Int /\ b \in Int
      BY <2>4 DEF a, b
    <3> QED
      BY <1>1, <1>2, <3>1
  <2> QED
    BY <2>2, <2>3, <2>5, <2>6 DEF after, s, p, r, z, size, cost
<1>4. CASE IsOpposite(r, s)
  <2> DEFINE matched == Smaller(Magnitude(r), Magnitude(s))
             sign    == IF s > 0 THEN 1 ELSE -1
             signed  == sign * matched
             rest    == s - signed
             smaller == [lot EXCEPT !.size = rest]
             gain    == Gain(lot, price, matched)
  <2>1. matched \in Int /\ sign \in {1, -1}
    BY <1>1 DEF Smaller, Magnitude
  <2>2. gain = signed * (price - p)
    <3>1. signed = IF s > 0 THEN matched ELSE -matched
      <4> HIDE DEF matched
      <4> QED
        BY <1>1, <2>1
    <3> HIDE DEF matched, signed
    <3> QED
      BY <2>1, <3>1, GainOfSigned
  <2>3. signed \in Int
    <3> HIDE DEF matched, sign
    <3> QED
      BY <2>1
  <2>4. after = [remaining |-> r + signed,
                 realized  |-> z + gain,
                 lots      |-> IF rest = 0 THEN book.lots ELSE Append(book.lots, smaller)]
    BY <1>4 DEF MatchLot
  <2> HIDE DEF signed, matched, gain
  <2>5. rest \in Int /\ smaller \in Lot /\ smaller.size = rest /\ smaller.price = p
    BY <1>1, <2>3 DEF Lot
  <2>6. SizeOf(after.lots) = size + rest /\ CostOf(after.lots) = cost + rest * p
    <3>1. CASE rest = 0
      <4>1. after.lots = book.lots
        BY <2>4, <3>1
      <4>2. rest * p = 0
        BY <1>1, <3>1
      <4> HIDE DEF rest, size, cost, p, after
      <4>3. size = size + rest /\ cost = cost + rest * p
        BY <1>2, <3>1, <4>2
      <4> QED
        BY <4>1, <4>3 DEF size, cost
    <3>2. CASE rest # 0
      <4>1. after.lots = Append(book.lots, smaller)
        BY <2>4, <3>2
      <4> HIDE DEF smaller, after, rest, p
      <4> QED
        BY <1>1, <2>5, <4>1, LotsType
    <3> QED
      BY <3>1, <3>2
  <2>7. after.remaining = r + signed /\ after.realized = z + gain
    BY <2>4
  <2> HIDE DEF after, smaller
  <2>8. after.remaining + SizeOf(after.lots) = r + size + s
    BY <1>1, <1>2, <2>3, <2>6, <2>7
  <2>9. after.realized - CostOf(after.lots) - after.remaining * price
          = z - cost - r * price - s * p
    <3> HIDE DEF s, p, r, z, size, cost, rest
    <3>1. /\ signed * (price - p) = signed * price - signed * p
          /\ (r + signed) * price = r * price + signed * price
          /\ (s - signed) * p = s * p - signed * p
      BY <1>1, <2>3
    <3> DEFINE a == signed * price
               b == signed * p
               c == r * price
               d == s * p
    <3>2. a \in Int /\ b \in Int /\ c \in Int /\ d \in Int
      BY <1>1, <2>3
    <3> HIDE DEF a, b, c, d
    <3>3. (z + (a - b)) - (cost + (d - b)) - (c + a) = z - cost - c - d
      BY <1>1, <1>2, <3>2
    <3> QED
      BY <2>2, <2>6, <2>7, <3>1, <3>3 DEF a, b, c, d, rest
  <2> QED
    BY <2>8, <2>9 DEF after
<1> QED
  BY <1>3, <1>4

\* A trade adds its size to what is open and its worth to what is owed.
LEMMA SettleBalance ==
    ASSUME NEW pnl \in Pnl, NEW trade \in Trade
    PROVE  LET after == Settle(pnl, trade)
           IN  /\ SizeOf(after.lots) = SizeOf(pnl.lots) + trade.size
               /\ after.realized - CostOf(after.lots)
                    = pnl.realized - CostOf(pnl.lots) - trade.size * trade.price
<1> DEFINE m == Matchings(pnl, trade)
           N == Len(pnl.lots)
           s == trade.size
           p == trade.price
           a == Values(pnl.lots, Size)
           c == Values(pnl.lots, Cost)
           S == {n \in 0 .. N :
                    /\ m[n].remaining + SizeOf(m[n].lots) = s + Totals(a)[n]
                    /\ m[n].realized - CostOf(m[n].lots) - m[n].remaining * p
                         = pnl.realized - s * p - Totals(c)[n]}
<1>1. /\ pnl.realized \in Int /\ pnl.lots \in Seq(Lot) /\ s \in Int /\ p \in Int
      /\ N \in Nat /\ \A n \in 1 .. N : pnl.lots[n] \in Lot
  BY DEF Pnl, Trade
<1>2. /\ a \in Seq(Int) /\ Len(a) = N /\ c \in Seq(Int) /\ Len(c) = N
      /\ \A n \in 1 .. N : /\ a[n] = pnl.lots[n].size
                           /\ c[n] = pnl.lots[n].size * pnl.lots[n].price
  <2>1. \A n \in 1 .. N : a[n] = Size[pnl.lots[n]] /\ c[n] = Cost[pnl.lots[n]]
    BY <1>1 DEF Values
  <2>2. \A lot \in Lot : Size[lot] = lot.size /\ Cost[lot] = lot.size * lot.price
    BY DEF Size, Cost
  <2> HIDE DEF N
  <2>3. a \in Seq(Int) /\ Len(a) = N /\ c \in Seq(Int) /\ Len(c) = N
    BY <1>1, ValuesType, ProductsAreNumbers DEF N
  <2> HIDE DEF a, c
  <2> QED
    BY <1>1, <2>1, <2>2, <2>3
<1>3. /\ m \in [0 .. N -> Book]
      /\ m[0] = [remaining |-> s, realized |-> pnl.realized, lots |-> <<>>]
      /\ \A n \in 1 .. N : m[n] = MatchLot(m[n - 1], pnl.lots[n], p)
  BY MatchingsRun
<1>4. Settle(pnl, trade) = Opened(m[N], trade)
  BY DEF Settle
<1>5. /\ Totals(a) \in [0 .. N -> Int] /\ Totals(a)[0] = 0 /\ Total(a) = Totals(a)[N]
      /\ Totals(c) \in [0 .. N -> Int] /\ Totals(c)[0] = 0 /\ Total(c) = Totals(c)[N]
      /\ \A n \in 1 .. N : /\ Totals(a)[n] = Totals(a)[n - 1] + a[n]
                           /\ Totals(c)[n] = Totals(c)[n - 1] + c[n]
  <2> HIDE DEF a, c, N
  <2> QED
    BY <1>2, TotalsRun DEF Total
<1>6. SizeOf(pnl.lots) = Total(a) /\ CostOf(pnl.lots) = Total(c)
  BY DEF SizeOf, CostOf
<1> HIDE DEF m, N, s, p, a, c
<1>7. 0 \in S
  <2>1. SizeOf(<<>>) = 0 /\ CostOf(<<>>) = 0
    BY <1>1, LotsType
  <2>2. m[0].remaining = s /\ m[0].realized = pnl.realized /\ m[0].lots = <<>>
    BY <1>3
  <2> DEFINE w == s * p
  <2>3. w \in Int
    BY <1>1
  <2> HIDE DEF w
  <2>4. s + 0 = s + 0 /\ pnl.realized - 0 - w = pnl.realized - w - 0
    BY <1>1, <2>3
  <2> QED
    BY <1>1, <1>5, <2>1, <2>2, <2>4 DEF w
<1>8. ASSUME NEW n \in 1 .. N, n - 1 \in S
      PROVE  n \in S
  <2> DEFINE b == m[n - 1]
             d == m[n]
             lot == pnl.lots[n]
             w == lot.size * lot.price
             v == s * p
             x == b.remaining * p
             y == d.remaining * p
  <2>1. b \in Book /\ d \in Book /\ lot \in Lot /\ d = MatchLot(b, lot, p)
    BY <1>1, <1>3
  <2>2. /\ d.remaining + SizeOf(d.lots) = b.remaining + SizeOf(b.lots) + lot.size
        /\ d.realized - CostOf(d.lots) - y = b.realized - CostOf(b.lots) - x - w
    <3> HIDE DEF b, d, lot
    <3> QED
      BY <1>1, <2>1, MatchLotBalance
  <2>3. /\ b.remaining + SizeOf(b.lots) = s + Totals(a)[n - 1]
        /\ b.realized - CostOf(b.lots) - x = pnl.realized - v - Totals(c)[n - 1]
    BY <1>8
  <2>4. /\ Totals(a)[n] = Totals(a)[n - 1] + lot.size /\ Totals(a)[n - 1] \in Int
        /\ Totals(c)[n] = Totals(c)[n - 1] + w /\ Totals(c)[n - 1] \in Int
    <3>1. a[n] = lot.size /\ c[n] = w
      BY <1>2
    <3>2. n - 1 \in 0 .. N
      BY <1>1
    <3> QED
      BY <1>5, <3>1, <3>2
  <2>5. /\ b.remaining \in Int /\ d.remaining \in Int /\ b.realized \in Int /\ d.realized \in Int
        /\ b.lots \in Seq(Lot) /\ d.lots \in Seq(Lot) /\ lot.size \in Int /\ lot.price \in Int
    BY <2>1 DEF Book, Lot
  <2>6. w \in Int /\ v \in Int /\ x \in Int /\ y \in Int
    <3> HIDE DEF b, d, lot
    <3> QED
      BY <1>1, <2>5
  <2>7. /\ SizeOf(b.lots) \in Int /\ SizeOf(d.lots) \in Int
        /\ CostOf(b.lots) \in Int /\ CostOf(d.lots) \in Int
    BY <2>5, LotsType
  <2> HIDE DEF b, d, lot, w, v, x, y
  <2>8. d.remaining + SizeOf(d.lots) = s + Totals(a)[n]
    <3>1. s + Totals(a)[n - 1] + lot.size = s + (Totals(a)[n - 1] + lot.size)
      BY <1>1, <2>4, <2>5
    <3> QED
      BY <2>2, <2>3, <2>4, <3>1
  <2>9. d.realized - CostOf(d.lots) - y = pnl.realized - v - Totals(c)[n]
    <3>1. pnl.realized - v - Totals(c)[n - 1] - w = pnl.realized - v - (Totals(c)[n - 1] + w)
      BY <1>1, <2>4, <2>6
    <3> QED
      BY <2>2, <2>3, <2>4, <3>1
  <2>10. n \in 0 .. N
    BY <1>1
  <2> QED
    BY <2>8, <2>9, <2>10 DEF d, v, y
<1>9. N \in S
  <2>1. N \in 0 .. N
    BY <1>1
  <2> HIDE DEF S
  <2>2. 0 .. N \subseteq S
    BY <1>1, <1>7, <1>8, Induction
  <2> QED
    BY <2>1, <2>2
<1> DEFINE b == m[N]
           after == Opened(b, trade)
           new == [size |-> b.remaining, price |-> p]
           v == s * p
           y == b.remaining * p
<1>10. b \in Book
  <2>1. N \in 0 .. N
    BY <1>1
  <2> QED
    BY <1>3, <2>1
<1>11. /\ b.remaining + SizeOf(b.lots) = s + SizeOf(pnl.lots)
       /\ b.realized - CostOf(b.lots) - y = pnl.realized - v - CostOf(pnl.lots)
  BY <1>5, <1>6, <1>9
<1> HIDE DEF b
<1>12. b.remaining \in Int /\ b.realized \in Int /\ b.lots \in Seq(Lot) /\ new \in Lot
  BY <1>1, <1>10 DEF Book, Lot
<1>13. y \in Int /\ v \in Int
  BY <1>1, <1>12
<1>14. /\ SizeOf(b.lots) \in Int /\ CostOf(b.lots) \in Int
       /\ SizeOf(pnl.lots) \in Int /\ CostOf(pnl.lots) \in Int
  BY <1>1, <1>12, LotsType
<1>15. /\ SizeOf(after.lots) = SizeOf(b.lots) + b.remaining
       /\ CostOf(after.lots) = CostOf(b.lots) + y
       /\ after.realized = b.realized
  <2>1. after.realized = b.realized
    BY DEF Opened
  <2>2. CASE b.remaining = 0
    <3>1. after.lots = b.lots
      BY <2>2 DEF Opened
    <3>2. y = 0
      BY <1>1, <2>2
    <3> HIDE DEF y, after
    <3>3. SizeOf(b.lots) = SizeOf(b.lots) + b.remaining /\ CostOf(b.lots) = CostOf(b.lots) + y
      BY <1>14, <2>2, <3>2
    <3> QED
      BY <2>1, <3>1, <3>3
  <2>3. CASE b.remaining # 0
    <3>1. after.lots = Append(b.lots, new)
      BY <2>3 DEF Opened, p
    <3>2. new.size = b.remaining /\ new.price = p
      OBVIOUS
    <3> HIDE DEF new, after
    <3> QED
      BY <1>12, <2>1, <3>1, <3>2, LotsType
  <2> QED
    BY <2>2, <2>3
<1> HIDE DEF after, y, v
<1>16. SizeOf(after.lots) = SizeOf(pnl.lots) + s
  BY <1>1, <1>11, <1>12, <1>14, <1>15
<1>17. after.realized - CostOf(after.lots) = pnl.realized - CostOf(pnl.lots) - v
  <2> DEFINE z  == b.realized
             k  == CostOf(b.lots)
             z0 == pnl.realized
             k0 == CostOf(pnl.lots)
  <2>1. z \in Int /\ k \in Int /\ z0 \in Int /\ k0 \in Int /\ z - k - y = z0 - v - k0
    BY <1>1, <1>11, <1>12, <1>14
  <2> HIDE DEF z, k, z0, k0
  <2>2. z - (k + y) = z0 - k0 - v
    BY <1>13, <2>1
  <2> QED
    BY <1>15, <2>2 DEF z, k, z0, k0
<1> QED
  BY <1>4, <1>16, <1>17 DEF after, b, s, p, v

\* The whole report: what is open is what was traded, and what was gained less
\* what the open lots have cost is what the trades brought in.
LEMMA PnlBalance ==
    ASSUME NEW trades \in Seq(Trade)
    PROVE  LET pnl == ComputePnl(trades)
           IN  /\ pnl \in Pnl
               /\ SizeOf(pnl.lots) = Total(Values(trades, Sizes))
               /\ pnl.realized - CostOf(pnl.lots) = -Total(Values(trades, Costs))
<1> DEFINE N == Len(trades)
           f == Settlement(trades)
           a == Values(trades, Sizes)
           c == Values(trades, Costs)
           S == {n \in 0 .. N : /\ SizeOf(f[n].lots) = Totals(a)[n]
                                /\ f[n].realized - CostOf(f[n].lots) = -Totals(c)[n]}
<1>1. N \in Nat /\ \A n \in 1 .. N : trades[n] \in Trade
  OBVIOUS
<1>2. /\ a \in Seq(Int) /\ Len(a) = N /\ c \in Seq(Int) /\ Len(c) = N
      /\ \A n \in 1 .. N : /\ a[n] = trades[n].size
                           /\ c[n] = trades[n].size * trades[n].price
  <2>1. \A n \in 1 .. N : a[n] = Sizes[trades[n]] /\ c[n] = Costs[trades[n]]
    BY <1>1 DEF Values
  <2>2. \A t \in Trade : Sizes[t] = t.size /\ Costs[t] = t.size * t.price
    BY DEF Sizes, Costs
  <2> HIDE DEF N
  <2>3. a \in Seq(Int) /\ Len(a) = N /\ c \in Seq(Int) /\ Len(c) = N
    BY ValuesType, ProductsAreNumbers DEF N
  <2> HIDE DEF a, c
  <2> QED
    BY <1>1, <2>1, <2>2, <2>3
<1>3. /\ f \in [0 .. N -> Pnl] /\ f[0] = [realized |-> 0, lots |-> <<>>]
      /\ \A n \in 1 .. N : f[n] = Settle(f[n - 1], trades[n])
  BY SettlementRun
<1>4. ComputePnl(trades) = f[N]
  BY DEF ComputePnl
<1>5. /\ Totals(a) \in [0 .. N -> Int] /\ Totals(a)[0] = 0 /\ Total(a) = Totals(a)[N]
      /\ Totals(c) \in [0 .. N -> Int] /\ Totals(c)[0] = 0 /\ Total(c) = Totals(c)[N]
      /\ \A n \in 1 .. N : /\ Totals(a)[n] = Totals(a)[n - 1] + a[n]
                           /\ Totals(c)[n] = Totals(c)[n - 1] + c[n]
  <2> HIDE DEF a, c, N
  <2> QED
    BY <1>2, TotalsRun DEF Total
<1> HIDE DEF N, f, a, c
<1>6. 0 \in S
  <2>1. SizeOf(<<>>) = 0 /\ CostOf(<<>>) = 0
    BY WorthOfNone DEF SizeOf, CostOf
  <2>2. f[0].realized = 0 /\ f[0].lots = <<>>
    BY <1>3
  <2> QED
    BY <1>1, <1>5, <2>1, <2>2
<1>7. ASSUME NEW n \in 1 .. N, n - 1 \in S
      PROVE  n \in S
  <2> DEFINE b == f[n - 1]
             d == f[n]
             t == trades[n]
             w == t.size * t.price
  <2>1. b \in Pnl /\ d \in Pnl /\ t \in Trade /\ d = Settle(b, t)
    BY <1>1, <1>3
  <2>2. /\ SizeOf(d.lots) = SizeOf(b.lots) + t.size
        /\ d.realized - CostOf(d.lots) = b.realized - CostOf(b.lots) - w
    <3> HIDE DEF b, d, t
    <3> QED
      BY <2>1, SettleBalance
  <2>3. SizeOf(b.lots) = Totals(a)[n - 1] /\ b.realized - CostOf(b.lots) = -Totals(c)[n - 1]
    BY <1>7
  <2>4. /\ Totals(a)[n] = Totals(a)[n - 1] + t.size /\ Totals(a)[n - 1] \in Int
        /\ Totals(c)[n] = Totals(c)[n - 1] + w /\ Totals(c)[n - 1] \in Int
    <3>1. a[n] = t.size /\ c[n] = w
      BY <1>2
    <3>2. n - 1 \in 0 .. N
      BY <1>1
    <3> QED
      BY <1>5, <3>1, <3>2
  <2>5. /\ b.realized \in Int /\ d.realized \in Int /\ b.lots \in Seq(Lot) /\ d.lots \in Seq(Lot)
        /\ t.size \in Int /\ t.price \in Int
    BY <2>1 DEF Pnl, Trade
  <2>6. w \in Int /\ CostOf(b.lots) \in Int /\ CostOf(d.lots) \in Int
    <3> HIDE DEF b, d, t
    <3>1. w \in Int
      BY <2>5
    <3> QED
      BY <2>5, <3>1, LotsType
  <2> HIDE DEF b, d, t, w
  <2>7. SizeOf(d.lots) = Totals(a)[n]
    BY <2>2, <2>3, <2>4
  <2>8. d.realized - CostOf(d.lots) = -Totals(c)[n]
    BY <2>2, <2>3, <2>4, <2>5, <2>6
  <2>9. n \in 0 .. N
    BY <1>1
  <2> QED
    BY <2>7, <2>8, <2>9 DEF d
<1>8. N \in S /\ N \in 0 .. N
  <2>1. N \in 0 .. N
    BY <1>1
  <2> HIDE DEF S
  <2>2. 0 .. N \subseteq S
    BY <1>1, <1>6, <1>7, Induction
  <2> QED
    BY <2>1, <2>2
<1> QED
  BY <1>3, <1>4, <1>5, <1>8 DEF a, c

-----------------------------------------------------------------------------
(* Cash flow.                                                              *)

LEMMA OpenLotsWorth ==
    ASSUME NEW pnl \in Pnl, NEW mark \in Int
    PROVE  /\ NetOpen(pnl) = SizeOf(pnl.lots)
           /\ Unrealized(pnl, mark) = mark * SizeOf(pnl.lots) + (-1) * CostOf(pnl.lots)
<1> DEFINE lots == pnl.lots
           N == Len(lots)
           a == Values(lots, Size)
           c == Values(lots, Cost)
           g == [i \in DOMAIN lots |-> Gain(lots[i], mark, Magnitude(lots[i].size))]
<1>1. lots \in Seq(Lot) /\ N \in Nat /\ DOMAIN lots = 1 .. N /\ \A i \in 1 .. N : lots[i] \in Lot
  BY DEF Pnl
<1>2. /\ a \in Seq(Int) /\ Len(a) = N /\ c \in Seq(Int) /\ Len(c) = N
      /\ a = [i \in DOMAIN lots |-> lots[i].size]
      /\ \A i \in 1 .. N : /\ a[i] = lots[i].size
                           /\ c[i] = lots[i].size * lots[i].price
  <2>1. \A lot \in Lot : Size[lot] = lot.size /\ Cost[lot] = lot.size * lot.price
    BY DEF Size, Cost
  <2>2. a = [i \in DOMAIN lots |-> lots[i].size]
    BY <1>1, <2>1 DEF Values
  <2>3. \A i \in 1 .. N : c[i] = Cost[lots[i]]
    BY <1>1 DEF Values
  <2> HIDE DEF N, lots
  <2>4. a \in Seq(Int) /\ Len(a) = N /\ c \in Seq(Int) /\ Len(c) = N
    BY <1>1, ValuesType, ProductsAreNumbers DEF N
  <2>5. \A i \in 1 .. N : a[i] = lots[i].size
    <3> HIDE DEF a
    <3> QED
      BY <1>1, <2>2
  <2> HIDE DEF a, c
  <2> QED
    BY <1>1, <2>1, <2>2, <2>3, <2>4, <2>5
<1>3. NetOpen(pnl) = Total(a)
  BY <1>2 DEF NetOpen
<1>4. Unrealized(pnl, mark) = Total(g)
  BY DEF Unrealized
<1>5. ASSUME NEW i \in 1 .. N
      PROVE  g[i] \in Int /\ g[i] = mark * a[i] + (-1) * c[i]
  <2> DEFINE lot == lots[i]
             s == lot.size
             p == lot.price
  <2>1. lot \in Lot /\ g[i] = Gain(lot, mark, Magnitude(s))
    BY <1>1
  <2>2. a[i] = s /\ c[i] = s * p
    BY <1>2
  <2> HIDE DEF lot, a, c, g
  <2>3. s \in Int /\ p \in Int
    BY <2>1 DEF Lot
  <2>4. Magnitude(s) \in Int /\ (IF s > 0 THEN Magnitude(s) ELSE -Magnitude(s)) = s
    BY <2>3 DEF Magnitude
  <2>5. g[i] = s * (mark - p)
    BY <2>1, <2>4, GainOfSigned
  <2> HIDE DEF s, p
  <2>6. s * (mark - p) = mark * s + (-1) * (s * p)
    <3>1. s * (mark - p) = mark * s - s * p
      BY <2>3
    <3> DEFINE x == s * p
               y == mark * s
    <3>2. x \in Int /\ y \in Int
      BY <2>3
    <3> HIDE DEF x, y
    <3>3. y - x = y + (-1) * x
      BY <3>2
    <3> QED
      BY <3>1, <3>3 DEF x, y
  <2>7. s * (mark - p) \in Int
    BY <2>3
  <2> QED
    BY <2>2, <2>5, <2>6, <2>7
<1>6. g \in Seq(Int) /\ Len(g) = N
  <2>1. DOMAIN g = 1 .. N
    BY <1>1
  <2>2. g = [i \in 1 .. N |-> g[i]]
    BY <1>1
  <2> HIDE DEF g, N
  <2> QED
    BY <1>1, <1>5, <2>1, <2>2
<1> HIDE DEF a, c, g, N
<1>7. Total(g) = mark * Total(a) + (-1) * Total(c)
  <2> DEFINE minus == -1
  <2>1. minus \in Int /\ \A i \in 1 .. Len(g) : g[i] = mark * a[i] + minus * c[i]
    BY <1>5, <1>6
  <2> HIDE DEF minus
  <2>2. Len(a) = Len(g) /\ Len(c) = Len(g)
    BY <1>2, <1>6
  <2>3. Total(g) = mark * Total(a) + minus * Total(c)
    <3>1. IsCombined(g, mark, a, minus, c)
      BY <1>2, <1>6, <2>1, <2>2 DEF IsCombined
    <3> QED
      BY <3>1, TotalOfCombined
  <2> QED
    BY <2>3 DEF minus
<1> QED
  BY <1>3, <1>4, <1>7 DEF SizeOf, CostOf, a, c

LEMMA AmountsOfSides ==
    ASSUME NEW trades \in Seq(Trade)
    PROVE  /\ Amount(trades, Buys(trades)) \in Int
           /\ Amount(trades, Sells(trades)) \in Int
           /\ Total(Values(trades, Costs))
                = Amount(trades, Buys(trades)) - Amount(trades, Sells(trades))
<1> DEFINE N == Len(trades)
           c == Values(trades, Costs)
           Part(I) == [i \in DOMAIN trades |->
                          IF i \in I THEN Magnitude(trades[i].size) * trades[i].price ELSE 0]
           b == Part(Buys(trades))
           s == Part(Sells(trades))
<1>1. N \in Nat /\ DOMAIN trades = 1 .. N /\ \A i \in 1 .. N : trades[i] \in Trade
  OBVIOUS
<1>2. Amount(trades, Buys(trades)) = Total(b) /\ Amount(trades, Sells(trades)) = Total(s)
  BY DEF Amount
<1>3. c \in Seq(Int) /\ Len(c) = N /\ \A i \in 1 .. N : c[i] = trades[i].size * trades[i].price
  <2>1. \A t \in Trade : Costs[t] = t.size * t.price
    BY DEF Costs
  <2>2. \A i \in 1 .. N : c[i] = Costs[trades[i]]
    BY <1>1 DEF Values
  <2> HIDE DEF N
  <2>3. c \in Seq(Int) /\ Len(c) = N
    BY ValuesType, ProductsAreNumbers DEF N
  <2> HIDE DEF c
  <2> QED
    BY <1>1, <2>1, <2>2, <2>3
<1>4. ASSUME NEW i \in 1 .. N
      PROVE  b[i] \in Int /\ s[i] \in Int /\ c[i] = 1 * b[i] + (-1) * s[i]
  <2> DEFINE x == trades[i].size
             p == trades[i].price
  <2>1. x \in Int /\ p \in Int
    BY <1>1 DEF Trade
  <2>2. /\ b[i] = IF x > 0 THEN Magnitude(x) * p ELSE 0
        /\ s[i] = IF x < 0 THEN Magnitude(x) * p ELSE 0
        /\ c[i] = x * p
    BY <1>1, <1>3 DEF Buys, Sells
  <2> HIDE DEF x, p, b, s, c
  <2> DEFINE y == Magnitude(x) * p
             w == x * p
  <2>3. y \in Int /\ w \in Int
    BY <2>1 DEF Magnitude
  <2>4. (x > 0 => y = w) /\ (x < 0 => y + w = 0) /\ (x = 0 => w = 0)
    <3>1. CASE x > 0
      BY <2>1, <3>1 DEF Magnitude
    <3>2. CASE x < 0
      <4>1. y = (-x) * p
        BY <2>1, <3>2 DEF Magnitude
      <4>2. (-x) * p + x * p = 0
        BY <2>1
      <4> QED
        BY <2>1, <3>2, <4>1, <4>2
    <3>3. CASE x = 0
      BY <2>1, <3>3
    <3> QED
      BY <2>1, <3>1, <3>2, <3>3
  <2> HIDE DEF y, w
  <2>5. b[i] = (IF x > 0 THEN y ELSE 0) /\ s[i] = (IF x < 0 THEN y ELSE 0) /\ c[i] = w
    BY <2>2 DEF y, w
  <2> QED
    BY <2>1, <2>3, <2>4, <2>5
<1>5. b \in Seq(Int) /\ Len(b) = N /\ s \in Seq(Int) /\ Len(s) = N
  <2>1. b = [i \in 1 .. N |-> b[i]] /\ s = [i \in 1 .. N |-> s[i]]
    BY <1>1
  <2> HIDE DEF b, s, N
  <2>2. b \in [1 .. N -> Int] /\ s \in [1 .. N -> Int]
    BY <1>4, <2>1
  <2> QED
    BY <1>1, <2>2
<1> HIDE DEF b, s, c, N
<1>6. Total(c) = 1 * Total(b) + (-1) * Total(s)
  <2> DEFINE plus == 1
             minus == -1
  <2>1. /\ plus \in Int /\ minus \in Int
        /\ \A i \in 1 .. Len(c) : c[i] = plus * b[i] + minus * s[i]
    BY <1>3, <1>4
  <2> HIDE DEF plus, minus
  <2>2. Len(b) = Len(c) /\ Len(s) = Len(c)
    BY <1>3, <1>5
  <2>3. Total(c) = plus * Total(b) + minus * Total(s)
    <3>1. IsCombined(c, plus, b, minus, s)
      BY <1>3, <1>5, <2>1, <2>2 DEF IsCombined
    <3> QED
      BY <3>1, TotalOfCombined
  <2> QED
    BY <2>3 DEF plus, minus
<1>7. Total(b) \in Int /\ Total(s) \in Int
  BY <1>5, TotalType
<1>8. Total(c) = Total(b) - Total(s)
  BY <1>6, <1>7
<1> QED
  BY <1>2, <1>7, <1>8 DEF c

\* What a report of any trades says of money.
LEMMA CashFlow ==
    ASSUME NEW trades \in Seq(Trade), NEW mark \in Int
    PROVE  LET pnl == ComputePnl(trades)
           IN  pnl.realized + Unrealized(pnl, mark)
                 = Amount(trades, Sells(trades)) - Amount(trades, Buys(trades))
                   + NetOpen(pnl) * mark
<1> DEFINE pnl == ComputePnl(trades)
           z == pnl.realized
           n == SizeOf(pnl.lots)
           k == CostOf(pnl.lots)
           buys == Amount(trades, Buys(trades))
           sells == Amount(trades, Sells(trades))
           total == Total(Values(trades, Costs))
<1>1. pnl \in Pnl /\ z - k = -total
  BY PnlBalance
<1> HIDE DEF pnl
<1>2. NetOpen(pnl) = n /\ Unrealized(pnl, mark) = mark * n + (-1) * k
  BY <1>1, OpenLotsWorth
<1>3. buys \in Int /\ sells \in Int /\ total = buys - sells
  BY AmountsOfSides
<1>4. z \in Int /\ n \in Int /\ k \in Int
  BY <1>1, LotsType DEF Pnl
<1> HIDE DEF z, n, k, buys, sells, total
<1>5. mark * n = n * mark /\ mark * n \in Int
  BY <1>4
<1> DEFINE w == mark * n
<1>6. z + (w + (-1) * k) = sells - buys + w
  <2> HIDE DEF w
  <2>1. w \in Int
    BY <1>5 DEF w
  <2> QED
    BY <1>1, <1>3, <1>4, <2>1
<1> QED
  BY <1>2, <1>5, <1>6 DEF pnl, z, n, buys, sells

-----------------------------------------------------------------------------
(* What the report reads from the tables.                                  *)

LEMMA TradesOfType ==
    ASSUME NEW e \in ResultRowType, NEW rows \in Seq(DecisionRowType)
    PROVE  TradesOf(e, rows) \in Seq(Trade)
<1> DEFINE priced == {k \in Joined(e, rows) : PriceOf(rows[k]) # 0}
           kept == Kept(rows, priced)
<1>1. kept \in Seq(DecisionRowType)
  BY KeptType
<1>2. TradesOf(e, rows) = [k \in DOMAIN kept |-> TradeOf(e, kept[k])]
  BY DEF TradesOf
<1> HIDE DEF kept
<1>3. \A r \in DecisionRowType : TradeOf(e, r) \in Trade
  BY DEF TradeOf, Trade, PriceOf, DecisionRowType, ResultRowType, Positive
<1> QED
  BY <1>1, <1>2, <1>3

LEMMA LoadTradesType ==
    ASSUME AuditTypeOK, NEW s, NEW since, NEW until
    PROVE  LoadTrades(resultRows, decisionRows, s, since, until) \in Seq(Trade)
<1> DEFINE parts == [j \in DOMAIN resultRows |->
                        IF Selected(resultRows[j], s, since, until)
                        THEN TradesOf(resultRows[j], decisionRows) ELSE <<>>]
           none == <<>>
<1>1. resultRows \in Seq(ResultRowType) /\ decisionRows \in Seq(DecisionRowType)
  BY DEF AuditTypeOK
<1>2. \A j \in DOMAIN resultRows : TradesOf(resultRows[j], decisionRows) \in Seq(Trade)
  BY <1>1, TradesOfType
<1>3. none \in Seq(Trade)
  OBVIOUS
<1>4. parts \in Seq(Seq(Trade))
  <2> DEFINE S == Seq(Trade)
             N == Len(resultRows)
  <2>1. N \in Nat /\ DOMAIN resultRows = 1 .. N
    BY <1>1
  <2>2. parts = [j \in 1 .. N |-> IF Selected(resultRows[j], s, since, until)
                                  THEN TradesOf(resultRows[j], decisionRows) ELSE none]
    BY <2>1
  <2> HIDE DEF S, N, none, parts
  <2>3. \A j \in 1 .. N : TradesOf(resultRows[j], decisionRows) \in S
    BY <1>2, <2>1 DEF S
  <2>4. none \in S
    BY <1>3 DEF S
  <2>5. parts \in [1 .. N -> S]
    BY <2>2, <2>3, <2>4
  <2>6. parts \in Seq(S)
    BY <2>1, <2>5
  <2> QED
    BY <2>6 DEF S
<1> HIDE DEF parts
<1>5. FlattenSeq(parts) \in Seq(Trade)
  BY <1>4, FlattenType
<1> QED
  BY <1>5 DEF LoadTrades, parts

LEMMA LatestMarkType ==
    ASSUME AuditTypeOK, NEW s
    PROVE  LatestMark(decisionRows, s) \in Int
<1> DEFINE priced == {k \in DOMAIN decisionRows :
                         decisionRows[k].symbol = s /\ PriceOf(decisionRows[k]) # 0}
<1>1. decisionRows \in Seq(DecisionRowType) /\ Len(decisionRows) \in Nat
  BY DEF AuditTypeOK
<1>2. \A r \in DecisionRowType : PriceOf(r) \in Int
  BY DEF PriceOf, DecisionRowType
<1>3. CASE priced = {}
  BY <1>3 DEF LatestMark
<1>4. CASE priced # {}
  <2>1. priced \in SUBSET (1 .. Len(decisionRows))
    BY <1>1
  <2>2. LatestMark(decisionRows, s) = PriceOf(decisionRows[Max(priced)])
    BY <1>4 DEF LatestMark
  <2> HIDE DEF priced
  <2>3. PICK k \in priced : \A m \in priced : k >= m
    BY <1>1, <1>4, <2>1, GreatestExists
  <2>4. Max(priced) \in priced
    BY <2>3 DEF Max
  <2>5. decisionRows[Max(priced)] \in DecisionRowType
    <3> DEFINE m == Max(priced)
    <3>1. m \in 1 .. Len(decisionRows)
      BY <2>1, <2>4
    <3> HIDE DEF m
    <3>2. decisionRows[m] \in DecisionRowType
      BY <1>1, <3>1
    <3> QED
      BY <3>2 DEF m
  <2> QED
    BY <1>2, <2>2, <2>5
<1> QED
  BY <1>3, <1>4

\* PnlIsCashFlow: realized and unrealized gain are the money that moved, in a
\* report of any symbol, period, tables and prices.
THEOREM GainsAreCashFlow == AuditSpec => []PnlIsCashFlow
<1>1. AuditTypeOK => PnlIsCashFlow
  <2> SUFFICES ASSUME AuditTypeOK, NEW s \in Symbols, NEW first \in 1 .. cycle
               PROVE  LET trades == TradesSince(s, first)
                          pnl    == ComputePnl(trades)
                          mark   == LatestMark(decisionRows, s)
                      IN  pnl.realized + Unrealized(pnl, mark)
                            = Amount(trades, Sells(trades)) - Amount(trades, Buys(trades))
                              + NetOpen(pnl) * mark
    BY DEF PnlIsCashFlow
  <2>1. TradesSince(s, first) \in Seq(Trade)
    BY LoadTradesType DEF TradesSince
  <2>2. LatestMark(decisionRows, s) \in Int
    BY LatestMarkType
  <2> QED
    BY <2>1, <2>2, CashFlow
<1> QED
  BY <1>1, AuditTypeCorrect, PTL

-----------------------------------------------------------------------------
(* First in, first out.                                                    *)

\* AreNewest() among the first n of a side.
Newest(lots, side, n) ==
    LET closed == n - Len(lots)
    IN  /\ closed >= 0
        /\ \A i \in DOMAIN lots :
              /\ lots[i].price = side[closed + i].price
              /\ IF i = 1 THEN IsPartOf(lots[i].size, side[closed + i].size)
                          ELSE lots[i].size = side[closed + i].size

\* All of one side, up or down.
Signed(q, up) == \A i \in DOMAIN q : q[i].size # 0 /\ (q[i].size > 0) = up

\* A trade that meets no lot of the other side leaves the lots alone.
LEMMA NothingMatched ==
    ASSUME NEW pnl \in Pnl, NEW trade \in Trade,
           \A i \in DOMAIN pnl.lots : ~IsOpposite(trade.size, pnl.lots[i].size)
    PROVE  LET book == Matchings(pnl, trade)[Len(pnl.lots)]
           IN  book.remaining = trade.size /\ book.lots = pnl.lots
<1> DEFINE m == Matchings(pnl, trade)
           lots == pnl.lots
           N == Len(lots)
           S == {n \in 0 .. N : /\ m[n].remaining = trade.size
                                /\ Len(m[n].lots) = n
                                /\ \A i \in 1 .. n : m[n].lots[i] = lots[i]}
<1>1. /\ lots \in Seq(Lot) /\ N \in Nat /\ DOMAIN lots = 1 .. N
      /\ \A i \in 1 .. N : lots[i] \in Lot
  BY DEF Pnl
<1>2. /\ m \in [0 .. N -> Book]
      /\ m[0] = [remaining |-> trade.size, realized |-> pnl.realized, lots |-> <<>>]
      /\ \A n \in 1 .. N : m[n] = MatchLot(m[n - 1], lots[n], trade.price)
  BY MatchingsRun
<1>3. \A i \in 1 .. N : ~IsOpposite(trade.size, lots[i].size)
  BY <1>1
<1> HIDE DEF m, lots, N
<1>4. 0 \in S
  BY <1>1, <1>2
<1>5. ASSUME NEW n \in 1 .. N, n - 1 \in S
      PROVE  n \in S
  <2> DEFINE b == m[n - 1]
             d == m[n]
             lot == lots[n]
  <2>1. b \in Book /\ lot \in Lot /\ d = MatchLot(b, lot, trade.price) /\ n \in 0 .. N
    BY <1>1, <1>2
  <2>2. b.remaining = trade.size /\ Len(b.lots) = n - 1 /\ \A i \in 1 .. n - 1 : b.lots[i] = lots[i]
    BY <1>5
  <2>3. d = [b EXCEPT !.lots = Append(@, lot)]
    BY <1>3, <2>1, <2>2 DEF MatchLot
  <2> HIDE DEF b, d
  <2>4. d.remaining = b.remaining /\ d.lots = Append(b.lots, lot) /\ b.lots \in Seq(Lot)
    BY <2>1, <2>3 DEF Book
  <2>5. /\ Len(d.lots) = n
        /\ \A i \in 1 .. n - 1 : d.lots[i] = b.lots[i]
        /\ d.lots[n] = lot
    <3> DEFINE old == b.lots
               new == d.lots
    <3>1. old \in Seq(Lot) /\ new = Append(old, lot) /\ Len(old) = n - 1
      BY <2>2, <2>4
    <3> HIDE DEF old, new, lot
    <3>2. Len(new) = n /\ (\A i \in 1 .. n - 1 : new[i] = old[i]) /\ new[n] = lot
      BY <2>1, <3>1
    <3> QED
      BY <3>2 DEF old, new
  <2>6. \A i \in 1 .. n : d.lots[i] = lots[i]
    <3>1. \A i \in 1 .. n : i = n \/ i \in 1 .. n - 1
      OBVIOUS
    <3> QED
      BY <2>2, <2>5, <3>1
  <2> QED
    BY <2>1, <2>2, <2>4, <2>5, <2>6 DEF d
<1>6. N \in S /\ N \in 0 .. N
  <2>1. N \in 0 .. N
    BY <1>1
  <2> HIDE DEF S
  <2>2. 0 .. N \subseteq S
    BY <1>1, <1>4, <1>5, Induction
  <2> QED
    BY <2>1, <2>2
<1> DEFINE left == m[N].lots
<1>7. /\ left \in Seq(Lot) /\ Len(left) = Len(lots)
      /\ \A i \in 1 .. Len(lots) : left[i] = lots[i]
  BY <1>2, <1>6 DEF Book, N
<1> HIDE DEF left
<1>8. left = lots
  BY <1>1, <1>7, SeqEqual
<1> QED
  BY <1>6, <1>8 DEF m, lots, N, left

\* What one opposite lot takes of a trade.
LEMMA OppositeMatch ==
    ASSUME NEW book \in Book, NEW lot \in Lot, NEW price \in Int,
           IsOpposite(book.remaining, lot.size), lot.size # 0
    PROVE  LET after == MatchLot(book, lot, price)
               left  == book.remaining + lot.size
           IN  IF Magnitude(lot.size) <= Magnitude(book.remaining)
               THEN after.remaining = left /\ after.lots = book.lots
               ELSE /\ after.remaining = 0
                    /\ after.lots = Append(book.lots, [lot EXCEPT !.size = left])
<1> DEFINE r == book.remaining
           s == lot.size
           matched == Smaller(Magnitude(r), Magnitude(s))
           sign    == IF s > 0 THEN 1 ELSE -1
           rest    == s - sign * matched
           after   == MatchLot(book, lot, price)
<1>1. r \in Int /\ s \in Int /\ s # 0 /\ IsOpposite(r, s)
  BY DEF Book, Lot
<1>2. /\ after.remaining = r + sign * matched
      /\ after.lots = IF rest = 0 THEN book.lots ELSE Append(book.lots, [lot EXCEPT !.size = rest])
  BY <1>1 DEF MatchLot
<1> HIDE DEF r, s, after
<1>3. CASE Magnitude(s) <= Magnitude(r)
  <2>1. sign * matched = s
    BY <1>1, <1>3 DEF Magnitude, Smaller, IsOpposite
  <2>2. rest = 0
    BY <1>1, <2>1
  <2> HIDE DEF sign, matched, rest
  <2> QED
    BY <1>2, <1>3, <2>1, <2>2 DEF r, s, after
<1>4. CASE ~(Magnitude(s) <= Magnitude(r))
  <2>1. sign * matched = -r
    BY <1>1, <1>4 DEF Magnitude, Smaller, IsOpposite
  <2>2. rest = r + s /\ r + sign * matched = 0 /\ rest # 0
    BY <1>1, <1>4, <2>1 DEF Magnitude
  <2> HIDE DEF sign, matched, rest
  <2> QED
    BY <1>2, <1>4, <2>2 DEF r, s, after
<1> QED
  BY <1>3, <1>4 DEF r, s

\* A trade against lots of the other side: either some of it remains, and no
\* lot, or the newest lots are left.
MatchedInTurn(book, lots, n, size) ==
    IF book.remaining = 0
    THEN Newest(book.lots, lots, n)
    ELSE book.lots = <<>> /\ IsPartOf(book.remaining, size)

LEMMA MatchedInTurnStep ==
    ASSUME NEW book \in Book, NEW lots \in Seq(Lot), NEW n \in 1 .. Len(lots),
           NEW size \in Int, NEW price \in Int,
           lots[n].size # 0, size # 0, (lots[n].size > 0) # (size > 0),
           MatchedInTurn(book, lots, n - 1, size)
    PROVE  MatchedInTurn(MatchLot(book, lots[n], price), lots, n, size)
<1> DEFINE lot == lots[n]
           after == MatchLot(book, lot, price)
           r == book.remaining
           s == lot.size
<1>1. lot \in Lot /\ n \in Nat /\ s \in Int /\ r \in Int /\ book.lots \in Seq(Lot)
  <2>1. lot \in Lot /\ n \in Nat
    OBVIOUS
  <2> HIDE DEF lot
  <2> QED
    BY <2>1 DEF Lot, Book
<1>2. after \in Book
  BY <1>1, MatchLotType
<1>3. CASE r = 0
  <2>1. after = [book EXCEPT !.lots = Append(@, lot)]
    BY <1>3 DEF MatchLot, IsOpposite
  <2>2. after.remaining = 0 /\ after.lots = Append(book.lots, lot)
    BY <1>3, <2>1 DEF Book
  <2>3. Newest(book.lots, lots, n - 1)
    BY <1>3 DEF MatchedInTurn
  <2> DEFINE old == book.lots
             new == after.lots
             closed == n - Len(new)
  <2>4. old \in Seq(Lot) /\ new = Append(old, lot) /\ IsPartOf(s, s)
    BY <1>1, <2>2 DEF IsPartOf, Magnitude
  <2> HIDE DEF old, new, lot, after
  <2>5. /\ Len(new) = Len(old) + 1 /\ Len(old) \in Nat
        /\ DOMAIN new = DOMAIN old \cup {Len(old) + 1} /\ DOMAIN old = 1 .. Len(old)
        /\ \A i \in DOMAIN old : new[i] = old[i]
        /\ new[Len(old) + 1] = lot
    BY <1>1, <2>4
  <2>6. closed = (n - 1) - Len(old) /\ closed >= 0 /\ closed + (Len(old) + 1) = n
    <3>1. (n - 1) - Len(old) >= 0
      BY <2>3 DEF Newest, old
    <3> QED
      BY <1>1, <2>5, <3>1
  <2> HIDE DEF closed
  <2>7. ASSUME NEW i \in DOMAIN new
        PROVE  /\ new[i].price = lots[closed + i].price
               /\ IF i = 1 THEN IsPartOf(new[i].size, lots[closed + i].size)
                           ELSE new[i].size = lots[closed + i].size
    <3>1. CASE i \in DOMAIN old
      <4>1. new[i] = old[i]
        BY <2>5, <3>1
      <4>2. /\ old[i].price = lots[closed + i].price
            /\ IF i = 1 THEN IsPartOf(old[i].size, lots[closed + i].size)
                        ELSE old[i].size = lots[closed + i].size
        BY <2>3, <2>6, <3>1 DEF Newest, old
      <4> QED
        BY <4>1, <4>2
    <3>2. CASE i = Len(old) + 1
      <4>1. new[i] = lot /\ lots[closed + i] = lot
        BY <2>5, <2>6, <3>2 DEF lot
      <4> QED
        BY <2>4, <4>1
    <3> QED
      BY <2>5, <3>1, <3>2
  <2>8. Newest(new, lots, n)
    BY <2>6, <2>7 DEF Newest, closed
  <2> QED
    BY <2>2, <2>8 DEF MatchedInTurn, after, new, lot
<1>4. CASE r # 0
  <2>1. book.lots = <<>> /\ IsPartOf(r, size)
    BY <1>4 DEF MatchedInTurn
  <2>2. IsOpposite(r, s) /\ s # 0
    BY <1>1, <1>4, <2>1 DEF IsOpposite, IsPartOf
  <2>3. IF Magnitude(s) <= Magnitude(r)
        THEN after.remaining = r + s /\ after.lots = book.lots
        ELSE /\ after.remaining = 0
             /\ after.lots = Append(book.lots, [lot EXCEPT !.size = r + s])
    <3> HIDE DEF lot
    <3> QED
      BY <1>1, <2>2, OppositeMatch
  <2>4. CASE Magnitude(s) <= Magnitude(r)
    <3>1. after.remaining = r + s /\ after.lots = <<>>
      BY <2>1, <2>3, <2>4
    <3>2. r + s = 0 \/ IsPartOf(r + s, size)
      <4> HIDE DEF r, s
      <4> QED
        BY <1>1, <2>1, <2>2, <2>4 DEF IsPartOf, IsOpposite, Magnitude
    <3>3. Newest(<<>>, lots, n)
      BY <1>1 DEF Newest
    <3> HIDE DEF after, r, s
    <3>4. MatchedInTurn(after, lots, n, size)
      BY <3>1, <3>2, <3>3 DEF MatchedInTurn
    <3> QED
      BY <3>4 DEF after
  <2>5. CASE ~(Magnitude(s) <= Magnitude(r))
    <3> DEFINE rest == [lot EXCEPT !.size = r + s]
               left == <<rest>>
    <3>1. after.remaining = 0 /\ after.lots = left
      BY <2>1, <2>3, <2>5
    <3>2. IsPartOf(r + s, s)
      <4> HIDE DEF r, s
      <4> QED
        BY <1>1, <2>2, <2>5 DEF IsPartOf, IsOpposite, Magnitude
    <3>3. rest.size = r + s /\ rest.price = lot.price
      BY <1>1 DEF Lot
    <3> HIDE DEF rest, after, r
    <3>4. Len(left) = 1 /\ DOMAIN left = {1} /\ left[1] = rest
      OBVIOUS
    <3> HIDE DEF left
    <3>5. (n - 1) + 1 = n /\ n - 1 >= 0
      BY <1>1
    <3>6. Newest(left, lots, n)
      BY <3>2, <3>3, <3>4, <3>5 DEF Newest
    <3>7. MatchedInTurn(after, lots, n, size)
      BY <3>1, <3>6 DEF MatchedInTurn
    <3> QED
      BY <3>7 DEF after
  <2> QED
    BY <2>4, <2>5
<1> QED
  BY <1>3, <1>4

LEMMA MatchedAgainstOthers ==
    ASSUME NEW pnl \in Pnl, NEW trade \in Trade, trade.size # 0,
           \A i \in DOMAIN pnl.lots :
              pnl.lots[i].size # 0 /\ (pnl.lots[i].size > 0) # (trade.size > 0)
    PROVE  MatchedInTurn(Matchings(pnl, trade)[Len(pnl.lots)], pnl.lots, Len(pnl.lots),
                         trade.size)
<1> DEFINE m == Matchings(pnl, trade)
           lots == pnl.lots
           N == Len(lots)
           S == {n \in 0 .. N : MatchedInTurn(m[n], lots, n, trade.size)}
<1>1. /\ lots \in Seq(Lot) /\ N \in Nat /\ DOMAIN lots = 1 .. N /\ N = Len(lots)
      /\ trade.size \in Int /\ trade.price \in Int
  BY DEF Pnl, Trade
<1>2. /\ m \in [0 .. N -> Book]
      /\ m[0] = [remaining |-> trade.size, realized |-> pnl.realized, lots |-> <<>>]
      /\ \A n \in 1 .. N : m[n] = MatchLot(m[n - 1], lots[n], trade.price)
  BY MatchingsRun
<1>3. \A i \in 1 .. N : lots[i].size # 0 /\ (lots[i].size > 0) # (trade.size > 0)
  BY <1>1
<1> HIDE DEF m, lots, N
<1>4. 0 \in S
  BY <1>1, <1>2 DEF MatchedInTurn, IsPartOf, Magnitude
<1>5. ASSUME NEW n \in 1 .. N, n - 1 \in S
      PROVE  n \in S
  <2>1. n - 1 \in 0 .. N /\ n \in 0 .. N /\ n \in 1 .. Len(lots)
    BY <1>1
  <2>2. m[n - 1] \in Book /\ MatchedInTurn(m[n - 1], lots, n - 1, trade.size)
    BY <1>2, <1>5, <2>1
  <2>3. MatchedInTurn(m[n], lots, n, trade.size)
    BY <1>1, <1>2, <1>3, <2>1, <2>2, MatchedInTurnStep
  <2> QED
    BY <2>1, <2>3
<1>6. N \in S
  <2>1. N \in 0 .. N
    BY <1>1
  <2> HIDE DEF S
  <2>2. 0 .. N \subseteq S
    BY <1>1, <1>4, <1>5, Induction
  <2> QED
    BY <2>1, <2>2
<1> QED
  BY <1>6 DEF m, lots, N

\* The newest of the newest are the newest.
LEMMA NewestOfNewest ==
    ASSUME NEW left \in Seq(Lot), NEW lots \in Seq(Lot), NEW side \in Seq(Trade),
           Newest(left, lots, Len(lots)), AreNewest(lots, side)
    PROVE  AreNewest(left, side)
<1> DEFINE inner == Len(lots) - Len(left)
           outer == Len(side) - Len(lots)
           closed == Len(side) - Len(left)
<1>1. /\ inner >= 0 /\ outer >= 0
      /\ \A i \in DOMAIN left :
            /\ left[i].price = lots[inner + i].price
            /\ IF i = 1 THEN IsPartOf(left[i].size, lots[inner + i].size)
                        ELSE left[i].size = lots[inner + i].size
      /\ \A i \in DOMAIN lots :
            /\ lots[i].price = side[outer + i].price
            /\ IF i = 1 THEN IsPartOf(lots[i].size, side[outer + i].size)
                        ELSE lots[i].size = side[outer + i].size
  BY DEF Newest, AreNewest
<1>2. /\ inner \in Int /\ outer \in Int /\ closed = outer + inner
      /\ DOMAIN left = 1 .. Len(left) /\ DOMAIN lots = 1 .. Len(lots)
      /\ Len(left) \in Nat /\ Len(lots) \in Nat /\ inner + Len(left) = Len(lots)
      /\ Len(side) \in Nat /\ DOMAIN side = 1 .. Len(side) /\ outer + Len(lots) = Len(side)
  OBVIOUS
<1> HIDE DEF inner, outer, closed
<1>3. ASSUME NEW i \in DOMAIN left
      PROVE  /\ left[i].price = side[closed + i].price
             /\ IF i = 1 THEN IsPartOf(left[i].size, side[closed + i].size)
                         ELSE left[i].size = side[closed + i].size
  <2> DEFINE j == inner + i
             k == closed + i
  <2>1. i \in Nat /\ i >= 1 /\ j \in DOMAIN lots /\ k = outer + j /\ k \in DOMAIN side
        /\ (j = 1 => i = 1)
    BY <1>1, <1>2
  <2>2. /\ left[i].price = lots[j].price /\ lots[j].price = side[k].price
        /\ IF i = 1 THEN IsPartOf(left[i].size, lots[j].size)
                    ELSE left[i].size = lots[j].size
        /\ IF j = 1 THEN IsPartOf(lots[j].size, side[k].size)
                    ELSE lots[j].size = side[k].size
    BY <1>1, <2>1
  <2>3. left[i] \in Lot /\ lots[j] \in Lot /\ side[k] \in Trade
    BY <2>1
  <2>4. \A a, b, c \in Int : IsPartOf(a, b) /\ IsPartOf(b, c) => IsPartOf(a, c)
    BY DEF IsPartOf, Magnitude
  <2> HIDE DEF j, k
  <2>5. left[i].size \in Int /\ lots[j].size \in Int /\ side[k].size \in Int
    BY <2>3 DEF Lot, Trade
  <2>6. IF i = 1 THEN IsPartOf(left[i].size, side[k].size)
                 ELSE left[i].size = side[k].size
    BY <2>1, <2>2, <2>4, <2>5
  <2> QED
    BY <2>2, <2>6 DEF k
<1>4. closed >= 0
  BY <1>1, <1>2
<1> QED
  BY <1>3, <1>4 DEF AreNewest, closed

\* A trade of a side's own joins its newest lots.
LEMMA NewestGrow ==
    ASSUME NEW lots \in Seq(Lot), NEW side \in Seq(Trade), NEW trade \in Trade,
           NEW size \in Int, IsPartOf(size, trade.size),
           \/ lots = <<>>
           \/ AreNewest(lots, side) /\ size = trade.size
    PROVE  AreNewest(Append(lots, [size |-> size, price |-> trade.price]), Append(side, trade))
<1> DEFINE lot == [size |-> size, price |-> trade.price]
           new == Append(lots, lot)
           grown == Append(side, trade)
           closed == Len(side) - Len(lots)
<1>1. lot \in Lot
  BY DEF Lot, Trade
<1>2. lot.size = size /\ lot.price = trade.price
  OBVIOUS
<1> HIDE DEF lot
<1>3. /\ Len(lots) \in Nat /\ Len(side) \in Nat /\ DOMAIN lots = 1 .. Len(lots)
      /\ Len(new) = Len(lots) + 1 /\ DOMAIN new = 1 .. Len(lots) + 1
      /\ \A i \in 1 .. Len(lots) : new[i] = lots[i]
      /\ new[Len(lots) + 1] = lot
      /\ Len(grown) = Len(side) + 1
      /\ \A i \in 1 .. Len(side) : grown[i] = side[i]
      /\ grown[Len(side) + 1] = trade
  BY <1>1
<1> HIDE DEF new, grown
<1>4. Len(grown) - Len(new) = closed /\ closed + (Len(lots) + 1) = Len(side) + 1
  BY <1>3
<1>5. closed >= 0
  BY <1>3 DEF AreNewest
<1>6. ASSUME NEW i \in DOMAIN new
      PROVE  /\ new[i].price = grown[closed + i].price
             /\ IF i = 1 THEN IsPartOf(new[i].size, grown[closed + i].size)
                         ELSE new[i].size = grown[closed + i].size
  <2>1. CASE i = Len(lots) + 1
    <3>1. new[i] = lot /\ grown[closed + i] = trade
      BY <1>3, <1>4, <2>1
    <3>2. i # 1 => lots # <<>>
      BY <2>1
    <3> QED
      BY <1>2, <3>1, <3>2
  <2>2. CASE i \in 1 .. Len(lots)
    <3>1. AreNewest(lots, side) /\ i \in DOMAIN lots
      BY <1>3, <2>2
    <3>2. closed + i \in 1 .. Len(side)
      <4> HIDE DEF closed
      <4>1. closed + i <= closed + Len(lots)
        BY <1>3, <1>4, <2>2 DEF closed
      <4> QED
        BY <1>3, <1>5, <2>2 DEF closed
    <3>3. new[i] = lots[i] /\ grown[closed + i] = side[closed + i]
      BY <1>3, <2>2, <3>2
    <3> QED
      BY <3>1, <3>3 DEF AreNewest
  <2> QED
    BY <1>3, <2>1, <2>2
<1> QED
  BY <1>4, <1>5, <1>6 DEF AreNewest, new, grown, lot

\* The newest lots of a side are of that side.
LEMMA NewestAreSigned ==
    ASSUME NEW lots \in Seq(Lot), NEW side \in Seq(Trade), NEW up \in BOOLEAN,
           Signed(side, up), AreNewest(lots, side)
    PROVE  Signed(lots, up)
<1> SUFFICES ASSUME NEW i \in DOMAIN lots
             PROVE  lots[i].size # 0 /\ (lots[i].size > 0) = up
  BY DEF Signed
<1> DEFINE closed == Len(side) - Len(lots)
<1>1. /\ closed >= 0
      /\ IF i = 1 THEN IsPartOf(lots[i].size, side[closed + i].size)
                  ELSE lots[i].size = side[closed + i].size
  BY DEF AreNewest
<1>2. closed + i \in DOMAIN side
  <2>1. /\ i \in 1 .. Len(lots) /\ Len(lots) \in Nat /\ Len(side) \in Nat
        /\ DOMAIN side = 1 .. Len(side)
    OBVIOUS
  <2> QED
    BY <1>1, <2>1
<1>3. side[closed + i].size # 0 /\ (side[closed + i].size > 0) = up
  BY <1>2 DEF Signed
<1> HIDE DEF closed
<1> QED
  BY <1>1, <1>3 DEF IsPartOf

LEMMA SettledAreNewest ==
    ASSUME NEW pnl \in Pnl, NEW trade \in Trade, trade.size # 0,
           NEW same \in Seq(Trade), NEW other \in Seq(Trade),
           NEW up \in BOOLEAN, NEW down \in BOOLEAN, up # down,
           (trade.size > 0) = up, Signed(same, up), Signed(other, down),
           AreNewest(pnl.lots, same) \/ AreNewest(pnl.lots, other)
    PROVE  \/ AreNewest(Settle(pnl, trade).lots, Append(same, trade))
           \/ AreNewest(Settle(pnl, trade).lots, other)
<1> DEFINE lots == pnl.lots
           book == Matchings(pnl, trade)[Len(lots)]
           after == Settle(pnl, trade)
           Opening(b) == Append(b.lots, [size |-> b.remaining, price |-> trade.price])
<1>1. /\ lots \in Seq(Lot) /\ trade.size \in Int
      /\ book.remaining \in Int /\ book.lots \in Seq(Lot)
  <2>1. book \in Book
    BY SettleType
  <2> HIDE DEF book
  <2> QED
    BY <2>1 DEF Pnl, Trade, Book
<1>2. after.lots = IF book.remaining = 0 THEN book.lots ELSE Opening(book)
  BY DEF Settle, Opened
<1>3. CASE AreNewest(lots, same)
  <2>1. Signed(lots, up)
    BY <1>1, <1>3, NewestAreSigned
  <2>2. \A i \in DOMAIN pnl.lots : ~IsOpposite(trade.size, pnl.lots[i].size)
    BY <2>1 DEF Signed, IsOpposite
  <2>3. book.remaining = trade.size /\ book.lots = lots
    BY <2>2, NothingMatched
  <2> HIDE DEF book, lots, after
  <2>4. after.lots = Append(lots, [size |-> trade.size, price |-> trade.price])
    BY <1>2, <2>3
  <2>5. IsPartOf(trade.size, trade.size)
    BY <1>1 DEF IsPartOf, Magnitude
  <2>6. AreNewest(after.lots, Append(same, trade))
    BY <1>1, <1>3, <2>4, <2>5, NewestGrow
  <2> QED
    BY <2>6 DEF after
<1>4. CASE AreNewest(lots, other)
  <2>1. Signed(lots, down)
    BY <1>1, <1>4, NewestAreSigned
  <2>2. \A i \in DOMAIN pnl.lots :
           pnl.lots[i].size # 0 /\ (pnl.lots[i].size > 0) # (trade.size > 0)
    BY <2>1 DEF Signed
  <2>3. MatchedInTurn(book, lots, Len(lots), trade.size)
    BY <2>2, MatchedAgainstOthers
  <2> HIDE DEF book, lots, after
  <2>4. CASE book.remaining = 0
    <3>1. after.lots = book.lots /\ Newest(book.lots, lots, Len(lots))
      BY <1>2, <2>3, <2>4 DEF MatchedInTurn
    <3>2. AreNewest(after.lots, other)
      BY <1>1, <1>4, <3>1, NewestOfNewest
    <3> QED
      BY <3>2 DEF after
  <2>5. CASE book.remaining # 0
    <3>1. /\ after.lots = Append(book.lots, [size |-> book.remaining, price |-> trade.price])
          /\ book.lots = <<>> /\ IsPartOf(book.remaining, trade.size)
      BY <1>2, <2>3, <2>5 DEF MatchedInTurn
    <3>2. AreNewest(after.lots, Append(same, trade))
      BY <1>1, <3>1, NewestGrow
    <3> QED
      BY <3>2 DEF after
  <2> QED
    BY <2>4, <2>5
<1> QED
  BY <1>3, <1>4 DEF lots

LEMMA NothingSettled ==
    ASSUME NEW pnl \in Pnl, NEW trade \in Trade, trade.size = 0
    PROVE  Settle(pnl, trade).lots = pnl.lots
<1>1. \A i \in DOMAIN pnl.lots : ~IsOpposite(trade.size, pnl.lots[i].size)
  BY DEF IsOpposite
<1>2. LET book == Matchings(pnl, trade)[Len(pnl.lots)]
      IN  book.remaining = trade.size /\ book.lots = pnl.lots
  BY <1>1, NothingMatched
<1> QED
  BY <1>2 DEF Settle, Opened

LEMMA OpenLotsOf ==
    ASSUME NEW trades \in Seq(Trade)
    PROVE  LET lots == ComputePnl(trades).lots
           IN  \/ AreNewest(lots, Kept(trades, Buys(trades)))
               \/ AreNewest(lots, Kept(trades, Sells(trades)))
<1> DEFINE N == Len(trades)
           f == Settlement(trades)
<1>1. N \in Nat /\ DOMAIN trades = 1 .. N /\ \A n \in 1 .. N : trades[n] \in Trade
  OBVIOUS
<1>2. /\ f \in [0 .. N -> Pnl] /\ f[0] = [realized |-> 0, lots |-> <<>>]
      /\ \A n \in 1 .. N : f[n] = Settle(f[n - 1], trades[n])
  BY SettlementRun
<1>3. ComputePnl(trades) = f[N]
  BY DEF ComputePnl
<1>4. /\ \A n \in 1 .. N : trades[n].size \in Int
      /\ \A n \in 1 .. N : n \in Buys(trades) <=> trades[n].size > 0
      /\ \A n \in 1 .. N : n \in Sells(trades) <=> trades[n].size < 0
  BY <1>1 DEF Buys, Sells, Trade
<1>5. PICK b : IsKeptRun(b, Trade, trades, Buys(trades))
  BY KeptRun
<1>6. PICK s : IsKeptRun(s, Trade, trades, Sells(trades))
  BY KeptRun
<1> DEFINE S == {n \in 0 .. N : /\ Signed(b[n], TRUE) /\ Signed(s[n], FALSE)
                                /\ \/ AreNewest(f[n].lots, b[n])
                                   \/ AreNewest(f[n].lots, s[n])}
<1> HIDE DEF N, f
<1>7. 0 \in S
  <2>1. Signed(<<>>, TRUE) /\ Signed(<<>>, FALSE) /\ AreNewest(<<>>, <<>>)
    BY DEF Signed, AreNewest
  <2>2. f[0].lots = <<>> /\ b[0] = <<>> /\ s[0] = <<>> /\ 0 \in 0 .. N
    BY <1>1, <1>2, <1>5, <1>6 DEF IsKeptRun, N
  <2> QED
    BY <2>1, <2>2
<1>8. ASSUME NEW n \in 1 .. N, n - 1 \in S
      PROVE  n \in S
  <2> DEFINE t == trades[n]
             old == f[n - 1]
             ups == b[n - 1]
             downs == s[n - 1]
  <2>1. /\ n - 1 \in 0 .. N /\ n \in 0 .. N
        /\ t \in Trade /\ old \in Pnl /\ ups \in Seq(Trade) /\ downs \in Seq(Trade)
        /\ f[n] = Settle(old, t) /\ t.size \in Int
    <3>1. n - 1 \in 0 .. N /\ n \in 0 .. N
      BY <1>1
    <3>2. old \in Pnl /\ ups \in Seq(Trade) /\ downs \in Seq(Trade)
      BY <1>2, <1>5, <1>6, <3>1 DEF IsKeptRun, N
    <3> QED
      BY <1>1, <1>2, <1>4, <3>1, <3>2
  <2>2. /\ b[n] = IF t.size > 0 THEN Append(ups, t) ELSE ups
        /\ s[n] = IF t.size < 0 THEN Append(downs, t) ELSE downs
    BY <1>4, <1>5, <1>6 DEF IsKeptRun, N
  <2>3. /\ Signed(ups, TRUE) /\ Signed(downs, FALSE)
        /\ AreNewest(old.lots, ups) \/ AreNewest(old.lots, downs)
    BY <1>8
  <2>4. \A q \in Seq(Trade), up \in BOOLEAN :
            Signed(q, up) /\ t.size # 0 /\ (t.size > 0) = up => Signed(Append(q, t), up)
    <3> HIDE DEF t
    <3> SUFFICES ASSUME NEW q \in Seq(Trade), NEW up \in BOOLEAN,
                        Signed(q, up), t.size # 0, (t.size > 0) = up
                 PROVE  Signed(Append(q, t), up)
      OBVIOUS
    <3>1. /\ DOMAIN Append(q, t) = DOMAIN q \cup {Len(q) + 1}
          /\ \A i \in DOMAIN q : Append(q, t)[i] = q[i]
          /\ Append(q, t)[Len(q) + 1] = t
      BY <2>1, Appended
    <3> QED
      BY <3>1 DEF Signed
  <2> HIDE DEF t, old, ups, downs
  <2>5. CASE t.size > 0
    <3>1. b[n] = Append(ups, t) /\ s[n] = downs /\ t.size # 0 /\ (t.size > 0) = TRUE
      BY <2>1, <2>2, <2>5
    <3>2. TRUE \in BOOLEAN /\ FALSE \in BOOLEAN /\ TRUE # FALSE
      OBVIOUS
    <3>3. AreNewest(f[n].lots, b[n]) \/ AreNewest(f[n].lots, s[n])
      BY <2>1, <2>3, <3>1, <3>2, SettledAreNewest
    <3>4. Signed(b[n], TRUE) /\ Signed(s[n], FALSE)
      BY <2>1, <2>3, <2>4, <3>1
    <3> QED
      BY <2>1, <3>3, <3>4
  <2>6. CASE t.size < 0
    <3>1. b[n] = ups /\ s[n] = Append(downs, t) /\ t.size # 0 /\ (t.size > 0) = FALSE
      BY <2>1, <2>2, <2>6
    <3>2. TRUE \in BOOLEAN /\ FALSE \in BOOLEAN /\ FALSE # TRUE
      OBVIOUS
    <3>3. AreNewest(f[n].lots, s[n]) \/ AreNewest(f[n].lots, b[n])
      BY <2>1, <2>3, <3>1, <3>2, SettledAreNewest
    <3>4. Signed(b[n], TRUE) /\ Signed(s[n], FALSE)
      BY <2>1, <2>3, <2>4, <3>1
    <3> QED
      BY <2>1, <3>3, <3>4
  <2>7. CASE t.size = 0
    <3>1. f[n].lots = old.lots
      BY <2>1, <2>7, NothingSettled
    <3>2. b[n] = ups /\ s[n] = downs
      BY <2>2, <2>7
    <3> QED
      BY <2>1, <2>3, <3>1, <3>2
  <2>8. t.size > 0 \/ t.size < 0 \/ t.size = 0
    BY <2>1
  <2> HIDE DEF S
  <2> QED
    BY <2>5, <2>6, <2>7, <2>8
<1>9. N \in S
  <2>1. N \in 0 .. N
    BY <1>1
  <2> HIDE DEF S
  <2>2. 0 .. N \subseteq S
    BY <1>1, <1>7, <1>8, Induction
  <2> QED
    BY <2>1, <2>2
<1> QED
  BY <1>3, <1>5, <1>6, <1>9 DEF IsKeptRun, N

\* OpenLotsAreNewest: a report of any trades is first in, first out.
THEOREM OldestLotsAreClosed == AuditSpec => []OpenLotsAreNewest
<1>1. AuditTypeOK => OpenLotsAreNewest
  <2> SUFFICES ASSUME AuditTypeOK, NEW s \in Symbols
               PROVE  LET trades == Trades(s)
                          lots   == ComputePnl(trades).lots
                      IN  \/ AreNewest(lots, Kept(trades, Buys(trades)))
                          \/ AreNewest(lots, Kept(trades, Sells(trades)))
    BY DEF OpenLotsAreNewest
  <2>1. Trades(s) \in Seq(Trade)
    BY LoadTradesType DEF Trades, TradesSince
  <2> QED
    BY <2>1, OpenLotsOf
<1> QED
  BY <1>1, AuditTypeCorrect, PTL

-----------------------------------------------------------------------------
(* The prices of the orders: why the join finds one row for each.          *)

\* Decisions of this cycle whose row is written, or lost.
Persisted == IF pc = "awaiting" THEN Acting ELSE Len(results)

Dated ==
    /\ cycle <= MaxCycles
    /\ \A k \in DOMAIN decisionRows : decisionRows[k].cycle <= cycle
    /\ \A j \in DOMAIN resultRows : resultRows[j].cycle <= cycle

NamedOnce ==
    \A k, l \in DOMAIN decisionRows :
        /\ decisionRows[k].cycle = decisionRows[l].cycle
        /\ decisionRows[k].symbol = decisionRows[l].symbol
        => k = l

InTurn ==
    pc \notin {"down", "sleeping"} =>
        \A k \in DOMAIN decisionRows :
            decisionRows[k].cycle = cycle =>
                \E i \in DOMAIN Whitelist :
                    i <= Persisted /\ decisionRows[k].symbol = Whitelist[i]

ExecutableIsPriced ==
    \A i \in DOMAIN decisions : IsExecutable(decisions[i]) => executable[i] # 0

HasPrice(c, s) ==
    \E k \in DOMAIN decisionRows :
        /\ decisionRows[k].cycle = c
        /\ decisionRows[k].symbol = s
        /\ decisionRows[k].executable # 0

OrderIsPriced ==
    pc \in {"awaiting", "record"} => cycle \in gaps \/ HasPrice(cycle, Whitelist[Persisted])

AcceptedIsPriced ==
    \A j \in DOMAIN resultRows :
        resultRows[j].status = "ACCEPTED" =>
            \/ resultRows[j].cycle \in gaps
            \/ HasPrice(resultRows[j].cycle, resultRows[j].symbol)

RInv ==
    /\ AInv
    /\ Dated
    /\ NamedOnce
    /\ InTurn
    /\ ExecutableIsPriced
    /\ OrderIsPriced
    /\ AcceptedIsPriced

\* Steps that write no row.
LEMMA QuietReport ==
    ASSUME RInv, AInv', ExecutableIsPriced', UNCHANGED <<cycle, decisionRows, resultRows>>,
           gaps \subseteq gaps',
           \/ pc' \in {"sleeping", "down"}
           \/ pc \notin {"sleeping", "down"} /\ Persisted' = Persisted,
           pc' \in {"awaiting", "record"} =>
              pc \in {"awaiting", "record"} /\ Persisted' = Persisted
    PROVE  RInv'
<1>1. Dated' /\ NamedOnce'
  BY DEF RInv, Dated, NamedOnce
<1>2. InTurn'
  BY DEF RInv, InTurn
<1>3. \A c, s : HasPrice(c, s) => HasPrice(c, s)'
  BY DEF HasPrice
<1>4. OrderIsPriced'
  <2> HIDE DEF HasPrice
  <2> SUFFICES ASSUME pc' \in {"awaiting", "record"}
               PROVE  cycle \in gaps' \/ HasPrice(cycle, Whitelist[Persisted])'
    BY DEF OrderIsPriced
  <2>1. cycle \in gaps \/ HasPrice(cycle, Whitelist[Persisted])
    BY DEF RInv, OrderIsPriced
  <2>2. CASE cycle \in gaps
    BY <2>2
  <2>3. CASE HasPrice(cycle, Whitelist[Persisted])
    BY <2>3 DEF HasPrice
  <2> QED
    BY <2>1, <2>2, <2>3
<1>5. AcceptedIsPriced'
  BY DEF RInv, AcceptedIsPriced, HasPrice
<1> QED
  BY <1>1, <1>2, <1>4, <1>5 DEF RInv

\* The row of a decision: it is the first of its symbol in the cycle.
LEMMA DecisionRowReport ==
    ASSUME DistinctWhitelist, RInv, pc = "act", cycle' = cycle, gaps \subseteq gaps',
           NEW done \in BOOLEAN,
           decisionRows' = Written(decisionRows, DecisionRow(Acting), done)
    PROVE  /\ \A k \in DOMAIN decisionRows' : decisionRows'[k].cycle <= cycle
           /\ NamedOnce'
           /\ \A k \in DOMAIN decisionRows' :
                 decisionRows'[k].cycle = cycle =>
                     \E i \in DOMAIN Whitelist :
                         i <= Acting /\ decisionRows'[k].symbol = Whitelist[i]
           /\ \A c, s : HasPrice(c, s) => HasPrice(c, s)'
           /\ \A c, s : c = cycle /\ s = Whitelist[Acting] /\ done /\ executable[Acting] # 0
                          => HasPrice(c, s)'
<1> DEFINE row == DecisionRow(Acting)
<1>1. /\ Acting \in DOMAIN Whitelist /\ Acting \in DOMAIN decisions /\ pc # "down"
      /\ Len(results) \in Nat /\ Acting = Len(results) + 1 /\ Persisted = Len(results)
      /\ cycle \in Nat /\ DOMAIN Whitelist \subseteq Nat
  <2>1. Acting \in DOMAIN Whitelist /\ Acting \in DOMAIN decisions
    BY ActingFacts DEF RInv
  <2>2. Len(results) \in Nat /\ cycle \in Nat
    BY DEF RInv, AInv, TypeOK, AuditTypeOK
  <2>3. DOMAIN Whitelist \subseteq Nat
    BY ConfigAssumption
  <2> QED
    BY <2>1, <2>2, <2>3 DEF Acting, Persisted
<1>2. row \in DecisionRowType /\ decisionRows \in Seq(DecisionRowType)
  BY <1>1, DecisionRowFacts DEF RInv, AInv, AuditTypeOK
<1>3. row.cycle = cycle /\ row.symbol = Whitelist[Acting] /\ row.executable = executable[Acting]
  BY DEF DecisionRow
<1> HIDE DEF row
<1>4. /\ DOMAIN decisionRows \subseteq DOMAIN decisionRows'
      /\ \A j \in DOMAIN decisionRows : decisionRows'[j] = decisionRows[j]
      /\ \A j \in DOMAIN decisionRows' \ DOMAIN decisionRows : decisionRows'[j] = row
      /\ \A j, k \in DOMAIN decisionRows' \ DOMAIN decisionRows : j = k
      /\ done => \E j \in DOMAIN decisionRows' : decisionRows'[j] = row
  <2>1. decisionRows' = Written(decisionRows, row, done)
    BY DEF row
  <2> QED
    BY <1>2, <2>1, WrittenFacts
<1>5. ASSUME NEW k \in DOMAIN decisionRows, decisionRows[k].cycle = cycle
      PROVE  \E i \in DOMAIN Whitelist : i < Acting /\ decisionRows[k].symbol = Whitelist[i]
  <2>1. PICK i \in DOMAIN Whitelist : i <= Len(results) /\ decisionRows[k].symbol = Whitelist[i]
    BY <1>1, <1>5 DEF RInv, InTurn
  <2>2. i < Acting
    BY <1>1, <2>1
  <2> QED
    BY <2>1, <2>2
<1>6. NamedOnce'
  <2> SUFFICES ASSUME NEW k \in DOMAIN decisionRows', NEW l \in DOMAIN decisionRows',
                      decisionRows'[k].cycle = decisionRows'[l].cycle,
                      decisionRows'[k].symbol = decisionRows'[l].symbol
               PROVE  k = l
    BY DEF NamedOnce
  <2>1. \A i \in DOMAIN decisionRows : ~(decisionRows[i].cycle = cycle
                                         /\ decisionRows[i].symbol = Whitelist[Acting])
    <3> SUFFICES ASSUME NEW i \in DOMAIN decisionRows, decisionRows[i].cycle = cycle,
                        decisionRows[i].symbol = Whitelist[Acting]
                 PROVE  FALSE
      OBVIOUS
    <3>1. PICK n \in DOMAIN Whitelist : n < Acting /\ decisionRows[i].symbol = Whitelist[n]
      BY <1>5
    <3>2. n = Acting
      BY <1>1, <3>1 DEF DistinctWhitelist
    <3> QED
      BY <1>1, <3>1, <3>2
  <2>2. CASE k \in DOMAIN decisionRows /\ l \in DOMAIN decisionRows
    BY <1>4, <2>2 DEF RInv, NamedOnce
  <2>3. CASE k \notin DOMAIN decisionRows /\ l \notin DOMAIN decisionRows
    BY <1>4, <2>3
  <2>4. CASE k \in DOMAIN decisionRows /\ l \notin DOMAIN decisionRows
    BY <1>3, <1>4, <2>1, <2>4
  <2>5. CASE k \notin DOMAIN decisionRows /\ l \in DOMAIN decisionRows
    BY <1>3, <1>4, <2>1, <2>5
  <2> QED
    BY <2>2, <2>3, <2>4, <2>5
<1>7. \A k \in DOMAIN decisionRows' : decisionRows'[k].cycle <= cycle
  BY <1>1, <1>3, <1>4 DEF RInv, Dated
<1>8. ASSUME NEW k \in DOMAIN decisionRows', decisionRows'[k].cycle = cycle
      PROVE  \E i \in DOMAIN Whitelist :
                i <= Acting /\ decisionRows'[k].symbol = Whitelist[i]
  <2>1. CASE k \in DOMAIN decisionRows
    <3>1. PICK i \in DOMAIN Whitelist : i < Acting /\ decisionRows[k].symbol = Whitelist[i]
      BY <1>4, <1>5, <1>8, <2>1
    <3>2. i <= Acting
      BY <1>1, <3>1
    <3> QED
      BY <1>4, <2>1, <3>1, <3>2
  <2>2. CASE k \notin DOMAIN decisionRows
    <3>1. decisionRows'[k].symbol = Whitelist[Acting] /\ Acting <= Acting
      BY <1>1, <1>3, <1>4, <2>2
    <3> QED
      BY <1>1, <3>1
  <2> QED
    BY <2>1, <2>2
<1>9. \A c, s : HasPrice(c, s) => HasPrice(c, s)'
  BY <1>4 DEF HasPrice
<1>10. ASSUME NEW c, NEW s, c = cycle, s = Whitelist[Acting], done, executable[Acting] # 0
       PROVE  HasPrice(c, s)'
  BY <1>3, <1>4, <1>10 DEF HasPrice
<1> QED
  BY <1>6, <1>7, <1>8, <1>9, <1>10

\* The row of a result.
LEMMA ResultRowReport ==
    ASSUME RInv, cycle' = cycle, gaps \subseteq gaps',
           \A c, s : HasPrice(c, s) => HasPrice(c, s)',
           NEW row \in ResultRowType, NEW done \in BOOLEAN, row.cycle = cycle,
           row.status = "ACCEPTED" => cycle \in gaps \/ HasPrice(cycle, row.symbol),
           resultRows' = Written(resultRows, row, done)
    PROVE  /\ \A j \in DOMAIN resultRows' : resultRows'[j].cycle <= cycle
           /\ AcceptedIsPriced'
<1>1. /\ DOMAIN resultRows \subseteq DOMAIN resultRows'
      /\ \A j \in DOMAIN resultRows : resultRows'[j] = resultRows[j]
      /\ \A j \in DOMAIN resultRows' \ DOMAIN resultRows : resultRows'[j] = row
  <2>1. resultRows \in Seq(ResultRowType)
    BY DEF RInv, AInv, AuditTypeOK
  <2> QED
    BY <2>1, WrittenFacts
<1>2. \A j \in DOMAIN resultRows' : resultRows'[j].cycle <= cycle
  <2>1. cycle \in Nat
    BY DEF RInv, AInv, AuditTypeOK
  <2> QED
    BY <1>1, <2>1 DEF RInv, Dated
<1>3. AcceptedIsPriced'
  <2> SUFFICES ASSUME NEW j \in DOMAIN resultRows', resultRows'[j].status = "ACCEPTED"
               PROVE  \/ resultRows'[j].cycle \in gaps'
                      \/ HasPrice(resultRows[j].cycle, resultRows[j].symbol)'
    BY DEF AcceptedIsPriced
  <2>1. \A c, s : c = resultRows'[j].cycle /\ s = resultRows'[j].symbol /\ HasPrice(c, s)
                   => HasPrice(resultRows[j].cycle, resultRows[j].symbol)'
    BY DEF HasPrice
  <2>2. resultRows'[j].cycle \in gaps \/ HasPrice(resultRows'[j].cycle, resultRows'[j].symbol)
    <3>1. CASE j \in DOMAIN resultRows
      BY <1>1, <3>1 DEF RInv, AcceptedIsPriced
    <3>2. CASE j \notin DOMAIN resultRows
      BY <1>1, <3>2
    <3> QED
      BY <3>1, <3>2
  <2>3. resultRows'[j].cycle \in gaps
        \/ HasPrice(resultRows[j].cycle, resultRows[j].symbol)'
    BY <2>1, <2>2
  <2> QED
    BY <2>3
<1> QED
  BY <1>2, <1>3

LEMMA BeginCycleReport ==
    ASSUME RInv, AInv', BeginCycle
    PROVE  RInv'
<1>1. /\ pc' = "fetch_source" /\ cycle' = cycle + 1 /\ cycle < MaxCycles
      /\ UNCHANGED <<decisions, executable, decisionRows, resultRows, gaps>>
  BY DEF BeginCycle, NewCycleId, WakeUp, Start, cycleVars
<1>2. /\ cycle \in Nat /\ MaxCycles \in Nat
      /\ \A k \in DOMAIN decisionRows : decisionRows[k].cycle \in Nat
      /\ \A j \in DOMAIN resultRows : resultRows[j].cycle \in Nat
  <2>1. decisionRows \in Seq(DecisionRowType) /\ resultRows \in Seq(ResultRowType)
    BY DEF RInv, AInv, AuditTypeOK
  <2>2. /\ \A k \in DOMAIN decisionRows : decisionRows[k] \in DecisionRowType
        /\ \A j \in DOMAIN resultRows : resultRows[j] \in ResultRowType
    BY <2>1
  <2>3. cycle \in Nat /\ MaxCycles \in Nat
    BY AuditAssumption DEF RInv, AInv, AuditTypeOK
  <2> QED
    BY <2>2, <2>3 DEF DecisionRowType, ResultRowType, Positive
<1>3. Dated'
  BY <1>1, <1>2 DEF RInv, Dated
<1>4. InTurn'
  BY <1>1, <1>2 DEF RInv, Dated, InTurn
<1>5. NamedOnce' /\ ExecutableIsPriced' /\ OrderIsPriced'
  BY <1>1 DEF RInv, NamedOnce, ExecutableIsPriced, OrderIsPriced
<1>6. AcceptedIsPriced'
  BY <1>1 DEF RInv, AcceptedIsPriced, HasPrice
<1> QED
  BY <1>3, <1>4, <1>5, <1>6 DEF RInv

\* Only a decision with a price is executable.
LEMMA EvaluatedIsGuarded ==
    ASSUME NEW s, NEW size, NEW held, NEW p \in Prices, NEW fresh, NEW cools,
           NEW d, d = Evaluate(s, size, held, p, fresh, cools), IsExecutable(d)
    PROVE  ExecutableOf(d, p) # 0
<1>1. IsGuarded(d)
  BY DEF IsExecutable, IsGuarded
<1>2. p.ask # 0 /\ p.bid # 0
  BY EnvironmentAssumption DEF PriceSnapshot, Positive
<1> QED
  BY <1>1, <1>2 DEF ExecutableOf, ExecutablePrice

LEMMA PricedReport ==
    ASSUME RInv, AInv', NEW p \in Prices, Priced(p)
    PROVE  RInv'
<1>1. /\ pc = "fetch_price" /\ pc' \in {"act", "fetch_position"}
      /\ UNCHANGED <<cycle, decisionRows, resultRows, gaps, results>>
  BY DEF Priced, PriceFetched, AddDecision
<1>2. PICK d : /\ decisions' = Append(decisions, d)
               /\ executable' = Append(executable, ExecutableOf(decisions'[Len(decisions')], p))
               /\ IsExecutable(d) => ExecutableOf(d, p) # 0
  BY EvaluatedIsGuarded DEF Priced, PriceFetched, AddDecision
<1>3. ExecutableIsPriced'
  <2> HIDE DEF Decision
  <2> SUFFICES ASSUME NEW i \in DOMAIN decisions', IsExecutable(decisions'[i])
               PROVE  executable'[i] # 0
    BY DEF ExecutableIsPriced
  <2>1. /\ decisions \in Seq(Decision) /\ executable \in Seq(Nat)
        /\ Len(executable) = Len(decisions)
    BY DEF RInv, AInv, TypeOK, AuditTypeOK
  <2> DEFINE n == Len(decisions)
             price == ExecutableOf(d, p)
  <2>2. /\ n \in Nat /\ DOMAIN decisions = 1 .. n /\ DOMAIN decisions' = 1 .. n + 1
        /\ decisions'[n + 1] = d /\ Len(decisions') = n + 1
        /\ \A k \in 1 .. n : decisions'[k] = decisions[k]
    BY <1>2, <2>1
  <2>3. /\ executable'[n + 1] = price
        /\ \A k \in 1 .. n : executable'[k] = executable[k]
    <3>1. executable' = Append(executable, price)
      BY <1>2, <2>2
    <3> HIDE DEF price
    <3> QED
      BY <2>1, <3>1
  <2>4. CASE i = n + 1
    BY <1>2, <2>2, <2>3, <2>4
  <2>5. CASE i \in 1 .. n
    BY <2>2, <2>3, <2>5 DEF RInv, ExecutableIsPriced
  <2> QED
    BY <2>2, <2>4, <2>5
<1> QED
  BY <1>1, <1>3, QuietReport DEF Persisted

LEMMA UnpricedReport ==
    ASSUME RInv, AInv', Unpriced
    PROVE  RInv'
<1>1. /\ pc \in {"fetch_source", "fetch_position", "fetch_price"}
      /\ pc' \in {"act", "fetch_position"}
      /\ UNCHANGED <<cycle, decisionRows, resultRows, gaps, results>>
  BY DEF Unpriced, SourceUnavailable, BinanceUnavailable, AddDecision
<1> DEFINE none == SkipRecord("SKIP_DATA_UNAVAILABLE", 0, 0)
<1>2. ~IsExecutable(none)
  BY SkipIsNotExecutable DEF Skips
<1> HIDE DEF none
<1>3. ExecutableIsPriced'
  <2>1. CASE SourceUnavailable
    <3>1. decisions' = [i \in DOMAIN Whitelist |-> none]
      BY <2>1 DEF SourceUnavailable, none
    <3> QED
      BY <1>2, <3>1 DEF ExecutableIsPriced
  <2>2. CASE BinanceUnavailable
    <3>1. decisions' = Append(decisions, none)
      BY <2>2 DEF BinanceUnavailable, AddDecision, none
    <3>2. executable' = [i \in DOMAIN decisions' |->
                            IF i \in DOMAIN executable THEN executable[i] ELSE 0]
      BY DEF Unpriced
    <3> HIDE DEF Decision
    <3>3. /\ decisions \in Seq(Decision) /\ executable \in Seq(Nat)
          /\ Len(executable) = Len(decisions)
      BY DEF RInv, AInv, TypeOK, AuditTypeOK
    <3>4. /\ DOMAIN executable = DOMAIN decisions
          /\ DOMAIN decisions' = DOMAIN decisions \cup {Len(decisions) + 1}
          /\ decisions'[Len(decisions) + 1] = none
          /\ \A k \in DOMAIN decisions : decisions'[k] = decisions[k]
      BY <3>1, <3>3
    <3> SUFFICES ASSUME NEW i \in DOMAIN decisions', IsExecutable(decisions'[i])
                 PROVE  executable'[i] # 0
      BY DEF ExecutableIsPriced
    <3>5. i \in DOMAIN decisions
      BY <1>2, <3>4
    <3> QED
      BY <3>2, <3>4, <3>5 DEF RInv, ExecutableIsPriced
  <2> QED
    BY <2>1, <2>2 DEF Unpriced
<1> QED
  BY <1>1, <1>3, QuietReport DEF Persisted

LEMMA UntracedReport ==
    ASSUME RInv, AInv', Untraced
    PROVE  RInv'
<1>1. /\ UNCHANGED <<cycle, executable, decisionRows, resultRows, gaps, decisions, results>>
      /\ \/ UNCHANGED pc
         \/ pc \in {"fetch_source", "fetch_position"}
            /\ pc' \in {"fetch_position", "fetch_price", "sleeping"}
  BY DEF Untraced, auditVars, SourceFetched, SourceUnexpected, PositionFetched,
         PositionMissing, SourceMoves, Fill, CooldownExpires, loopVars, cycleVars
<1>2. ExecutableIsPriced'
  BY <1>1 DEF RInv, ExecutableIsPriced
<1>3. \/ pc' \in {"sleeping", "down"}
      \/ pc \notin {"sleeping", "down"} /\ Persisted' = Persisted
  BY <1>1 DEF Persisted, Acting
<1>4. pc' \in {"awaiting", "record"} =>
         pc \in {"awaiting", "record"} /\ Persisted' = Persisted
  BY <1>1 DEF Persisted, Acting
<1>5. gaps \subseteq gaps'
  BY <1>1
<1> QED
  BY <1>1, <1>2, <1>3, <1>4, <1>5, QuietReport

LEMMA AnsweredReport ==
    ASSUME RInv, AInv', Answered
    PROVE  RInv'
<1>1. /\ pc = "awaiting" /\ pc' = "record"
      /\ UNCHANGED <<cycle, executable, decisionRows, resultRows, gaps, decisions>>
      /\ \E status \in Statuses : results' = Append(results, status)
  <2>1. UNCHANGED <<cycle, executable, decisionRows, resultRows, gaps>>
    BY DEF Answered
  <2>2. CASE OrderAccepted
    BY <2>1, <2>2 DEF OrderAccepted, Statuses
  <2>3. CASE \E answer \in AllAnswers \ {"accepted"}, taken \in BOOLEAN :
                OrderFailed(answer, taken)
    BY <2>1, <2>3, FailureStatusType DEF OrderFailed
  <2> QED
    BY <2>2, <2>3 DEF Answered
<1>2. Persisted' = Persisted
  <2>1. results \in Seq(Statuses)
    BY DEF RInv, AInv, TypeOK
  <2>2. Len(results') = Len(results) + 1
    BY <1>1, <2>1
  <2> QED
    BY <1>1, <2>2 DEF Persisted, Acting
<1>3. ExecutableIsPriced'
  BY <1>1 DEF RInv, ExecutableIsPriced
<1>4. gaps \subseteq gaps'
  BY <1>1
<1> QED
  BY <1>1, <1>2, <1>3, <1>4, QuietReport

\* The prices of a cycle are kept as long as its decisions.
LEMMA KeptPrices ==
    ASSUME RInv, KeepPrices, decisions' \in {decisions, <<>>}
    PROVE  ExecutableIsPriced'
  BY DEF RInv, KeepPrices, ExecutableIsPriced

LEMMA PassedOverReport ==
    ASSUME DistinctWhitelist, RInv, AInv', NEW decided \in BOOLEAN, NEW recorded \in BOOLEAN,
           PassedOver(decided, recorded)
    PROVE  RInv'
<1>1. /\ pc = "act" /\ cycle' = cycle
      /\ decisionRows' = Written(decisionRows, DecisionRow(Acting), decided)
      /\ NoteGap(decided /\ recorded) /\ KeepPrices
      /\ \E status \in Statuses : Proceed(Append(results, status))
  BY DEF PassedOver, PassOver, PersistDecision, Statuses
<1>2. /\ decisions' \in {decisions, <<>>} /\ pc' \in {"sleeping", "act"}
      /\ pc' = "act" => Len(results') = Acting
  <2>1. results \in Seq(Statuses)
    BY DEF RInv, AInv, TypeOK
  <2>2. PICK status \in Statuses : Proceed(Append(results, status))
    BY <1>1
  <2>3. Len(Append(results, status)) = Len(results) + 1
    BY <2>1
  <2> QED
    BY <2>2, <2>3 DEF Proceed, Acting
<1>3. gaps \subseteq gaps'
  BY <1>1, NoteGapFacts DEF RInv
<1>4. resultRows' = Written(resultRows, ResultRow(Acting, "LOCAL_ERROR"), ShouldExecute /\ recorded)
  BY DEF PassedOver, Written
<1> DEFINE row == ResultRow(Acting, "LOCAL_ERROR")
           written == ShouldExecute /\ recorded
<1>5. row \in ResultRowType /\ row.cycle = cycle /\ row.status # "ACCEPTED"
  <2>1. /\ Acting \in DOMAIN Whitelist /\ Acting \in DOMAIN decisions
        /\ "LOCAL_ERROR" \in Statuses /\ pc # "down"
    BY <1>1, ActingFacts DEF RInv
  <2> QED
    BY <2>1, ResultRowFacts DEF RInv
<1>6. resultRows' = Written(resultRows, row, written) /\ written \in BOOLEAN
  BY <1>4
<1> HIDE DEF row, written
<1>7. /\ \A k \in DOMAIN decisionRows' : decisionRows'[k].cycle <= cycle
      /\ NamedOnce'
      /\ \A k \in DOMAIN decisionRows' :
            decisionRows'[k].cycle = cycle =>
                \E i \in DOMAIN Whitelist :
                    i <= Acting /\ decisionRows'[k].symbol = Whitelist[i]
      /\ \A c, s : HasPrice(c, s) => HasPrice(c, s)'
  BY <1>1, <1>3, DecisionRowReport
<1>8. (\A j \in DOMAIN resultRows' : resultRows'[j].cycle <= cycle) /\ AcceptedIsPriced'
  BY <1>1, <1>3, <1>5, <1>6, <1>7, ResultRowReport
<1>9. Dated'
  BY <1>1, <1>7, <1>8 DEF RInv, Dated
<1>10. InTurn'
  BY <1>1, <1>2, <1>7 DEF InTurn, Persisted
<1>11. OrderIsPriced'
  BY <1>2 DEF OrderIsPriced
<1>12. ExecutableIsPriced'
  BY <1>1, <1>2, KeptPrices
<1> QED
  BY <1>7, <1>8, <1>9, <1>10, <1>11, <1>12 DEF RInv

LEMMA SubmittedReport ==
    ASSUME DistinctWhitelist, RInv, AInv', NEW decided \in BOOLEAN, Submitted(decided)
    PROVE  RInv'
<1>1. /\ pc = "act" /\ pc' = "awaiting" /\ mode = "live" /\ IsExecutable(Due)
      /\ UNCHANGED <<cycle, executable, decisions, results, resultRows>>
      /\ decisionRows' = Written(decisionRows, DecisionRow(Acting), decided)
      /\ NoteGap(decided)
  BY DEF Submitted, Submit, ShouldExecute, ModeAllowsExecution, PersistDecision, cycleVars
<1>2. gaps \subseteq gaps' /\ (~decided => cycle \in gaps')
  <2>1. ModeAllowsSqlite
    BY <1>1 DEF ModeAllowsSqlite
  <2> QED
    BY <1>1, <2>1, NoteGapFacts DEF RInv
<1>3. /\ \A k \in DOMAIN decisionRows' : decisionRows'[k].cycle <= cycle
      /\ NamedOnce'
      /\ \A k \in DOMAIN decisionRows' :
            decisionRows'[k].cycle = cycle =>
                \E i \in DOMAIN Whitelist :
                    i <= Acting /\ decisionRows'[k].symbol = Whitelist[i]
      /\ \A c, s : HasPrice(c, s) => HasPrice(c, s)'
      /\ \A c, s : c = cycle /\ s = Whitelist[Acting] /\ decided /\ executable[Acting] # 0
                      => HasPrice(c, s)'
  BY <1>1, <1>2, DecisionRowReport
<1>4. Persisted' = Acting
  BY <1>1 DEF Persisted, Acting
<1>5. executable[Acting] # 0
  <2>1. Acting \in DOMAIN decisions
    BY <1>1, ActingFacts DEF RInv
  <2> QED
    BY <1>1, <2>1 DEF RInv, ExecutableIsPriced, Due
<1>6. OrderIsPriced'
  <2>1. \A c, s : c = cycle /\ s = Whitelist[Acting] /\ HasPrice(c, s)'
                   => HasPrice(cycle, Whitelist[Persisted])'
    BY <1>1, <1>4 DEF HasPrice
  <2>2. cycle \in gaps' \/ HasPrice(cycle, Whitelist[Persisted])'
    BY <1>2, <1>3, <1>5, <2>1
  <2> QED
    BY <1>1, <2>2 DEF OrderIsPriced
<1>7. Dated'
  BY <1>1, <1>3 DEF RInv, Dated
<1>8. InTurn'
  BY <1>1, <1>3, <1>4 DEF InTurn
<1>9. ExecutableIsPriced'
  BY <1>1 DEF RInv, ExecutableIsPriced
<1>10. AcceptedIsPriced'
  <2> SUFFICES ASSUME NEW j \in DOMAIN resultRows, resultRows[j].status = "ACCEPTED"
               PROVE  \/ resultRows[j].cycle \in gaps'
                      \/ HasPrice(resultRows[j].cycle, resultRows[j].symbol)'
    BY <1>1 DEF AcceptedIsPriced
  <2>1. \A c, s : c = resultRows[j].cycle /\ s = resultRows[j].symbol /\ HasPrice(c, s)'
                   => HasPrice(resultRows[j].cycle, resultRows[j].symbol)'
    BY <1>1 DEF HasPrice
  <2> QED
    BY <1>2, <1>3, <2>1 DEF RInv, AcceptedIsPriced
<1> QED
  BY <1>3, <1>6, <1>7, <1>8, <1>9, <1>10 DEF RInv

\* The row of an answer has the price its order was sent with.
LEMMA RecordedRowReport ==
    ASSUME RInv, pc = "record", cycle' = cycle, gaps \subseteq gaps',
           decisionRows' = decisionRows, NEW done \in BOOLEAN,
           resultRows' = Written(resultRows, RecordedRow, done)
    PROVE  /\ \A j \in DOMAIN resultRows' : resultRows'[j].cycle <= cycle
           /\ AcceptedIsPriced'
<1>1. /\ Len(results) \in DOMAIN Whitelist /\ Len(results) \in DOMAIN decisions
      /\ results[Len(results)] \in Statuses /\ pc # "down"
  BY ConfigAssumption DEF RInv, AInv, TypeOK
<1>2. /\ RecordedRow \in ResultRowType /\ RecordedRow.cycle = cycle
      /\ RecordedRow.symbol = Whitelist[Len(results)]
  BY <1>1, ResultRowFacts DEF RecordedRow, RInv
<1>3. cycle \in gaps \/ HasPrice(cycle, RecordedRow.symbol)
  BY <1>2 DEF RInv, OrderIsPriced, Persisted
<1>4. \A c, s : HasPrice(c, s) => HasPrice(c, s)'
  BY DEF HasPrice
<1> QED
  BY <1>2, <1>3, <1>4, ResultRowReport

LEMMA RecordedReport ==
    ASSUME RInv, AInv', NEW done \in BOOLEAN, Recorded(done)
    PROVE  RInv'
<1>1. /\ pc = "record" /\ pc' \in {"sleeping", "act"} /\ UNCHANGED <<cycle, decisionRows>>
      /\ resultRows' = Written(resultRows, RecordedRow, done)
      /\ NoteGap(done) /\ KeepPrices /\ decisions' \in {decisions, <<>>}
      /\ pc' = "act" => results' = results
  BY DEF Recorded, ResultRecorded, Proceed
<1>2. gaps \subseteq gaps'
  BY <1>1, NoteGapFacts DEF RInv
<1>3. (\A j \in DOMAIN resultRows' : resultRows'[j].cycle <= cycle) /\ AcceptedIsPriced'
  BY <1>1, <1>2, RecordedRowReport
<1>4. Dated' /\ NamedOnce'
  BY <1>1, <1>3 DEF RInv, Dated, NamedOnce
<1>5. InTurn'
  BY <1>1 DEF RInv, InTurn, Persisted
<1>6. OrderIsPriced'
  BY <1>1 DEF OrderIsPriced
<1>7. ExecutableIsPriced'
  BY <1>1, KeptPrices
<1> QED
  BY <1>3, <1>4, <1>5, <1>6, <1>7 DEF RInv

LEMMA StoppedReport ==
    ASSUME DistinctWhitelist, RInv, AInv', NEW taken \in BOOLEAN, NEW done \in BOOLEAN,
           Stopped(taken, done)
    PROVE  RInv'
<1>1. /\ pc' = "down" /\ cycle' = cycle /\ decisions' = <<>>
      /\ NoteGap(pc \notin {"act", "awaiting", "record"})
  BY DEF Stopped, Exit
<1>2. gaps \subseteq gaps'
  BY <1>1, NoteGapFacts DEF RInv
<1>3. InTurn' /\ OrderIsPriced' /\ ExecutableIsPriced'
  BY <1>1 DEF InTurn, OrderIsPriced, ExecutableIsPriced
<1>4. CASE pc = "act"
  <2>1. /\ decisionRows' = Written(decisionRows, DecisionRow(Acting), done)
        /\ resultRows' = resultRows
    BY <1>4 DEF Stopped
  <2>2. /\ \A k \in DOMAIN decisionRows' : decisionRows'[k].cycle <= cycle
        /\ NamedOnce'
        /\ \A c, s : HasPrice(c, s) => HasPrice(c, s)'
    BY <1>1, <1>2, <1>4, <2>1, DecisionRowReport
  <2>3. AcceptedIsPriced'
    <3> SUFFICES ASSUME NEW j \in DOMAIN resultRows, resultRows[j].status = "ACCEPTED"
                 PROVE  \/ resultRows[j].cycle \in gaps'
                        \/ HasPrice(resultRows[j].cycle, resultRows[j].symbol)'
      BY <2>1 DEF AcceptedIsPriced
    <3>1. \A c, s : c = resultRows[j].cycle /\ s = resultRows[j].symbol /\ HasPrice(c, s)'
                     => HasPrice(resultRows[j].cycle, resultRows[j].symbol)'
      BY <2>1 DEF HasPrice
    <3> QED
      BY <1>2, <2>2, <3>1 DEF RInv, AcceptedIsPriced
  <2>4. Dated'
    BY <1>1, <2>1, <2>2 DEF RInv, Dated
  <2> QED
    BY <1>3, <2>2, <2>3, <2>4 DEF RInv
<1>5. CASE pc = "record"
  <2>1. /\ decisionRows' = decisionRows
        /\ resultRows' = Written(resultRows, RecordedRow, done)
    BY <1>5 DEF Stopped
  <2>2. (\A j \in DOMAIN resultRows' : resultRows'[j].cycle <= cycle) /\ AcceptedIsPriced'
    BY <1>1, <1>2, <1>5, <2>1, RecordedRowReport
  <2>3. Dated' /\ NamedOnce'
    BY <1>1, <2>1, <2>2 DEF RInv, Dated, NamedOnce
  <2> QED
    BY <1>3, <2>2, <2>3 DEF RInv
<1>6. CASE pc \notin {"act", "record"}
  <2>1. UNCHANGED <<decisionRows, resultRows, cycle>>
    BY <1>1, <1>6 DEF Stopped
  <2> QED
    BY <1>1, <1>2, <1>3, <2>1, QuietReport
<1> QED
  BY <1>4, <1>5, <1>6

LEMMA ReportInductive ==
    ASSUME DistinctWhitelist
    PROVE  AuditSpec => []RInv
<1>1. AuditInit /\ AInv => RInv
  <2> SUFFICES ASSUME AuditInit, AInv
               PROVE  RInv
    OBVIOUS
  <2>1. /\ pc = "down" /\ decisions = <<>> /\ cycle = 0
        /\ decisionRows = <<>> /\ resultRows = <<>>
    BY DEF AuditInit, Init
  <2> QED
    BY <2>1, AuditAssumption DEF RInv, Dated, NamedOnce, InTurn, ExecutableIsPriced,
                                 OrderIsPriced, AcceptedIsPriced
<1>2. RInv /\ AInv' /\ [AuditNext]_allVars => RInv'
  <2>1. ASSUME RInv, AInv', AuditNext
        PROVE  RInv'
    BY <2>1, BeginCycleReport, PricedReport, UnpricedReport, UntracedReport,
       PassedOverReport, SubmittedReport, AnsweredReport, RecordedReport, StoppedReport
    DEF AuditNext
  <2>2. ASSUME RInv, AInv', UNCHANGED allVars
        PROVE  RInv'
    BY <2>2 DEF allVars, vars, cycleVars, auditVars, RInv, Dated, NamedOnce, InTurn,
                ExecutableIsPriced, OrderIsPriced, AcceptedIsPriced, HasPrice,
                Persisted, Acting
  <2> QED
    BY <2>1, <2>2
<1> QED
  BY <1>1, <1>2, AuditInductive, PTL DEF AuditSpec
-----------------------------------------------------------------------------
(* The trades of the report: what the join makes of each result row.       *)

\* The quantity of a row with the sign of its side.
Executed(e) == IF e.action = "BUY" THEN e.qty ELSE -e.qty

\* A row is joined with one decision at most.
LEMMA JoinedOnce ==
    ASSUME AuditTypeOK, NamedOnce, NEW e \in ResultRowType
    PROVE  LET trades == TradesOf(e, decisionRows)
           IN  /\ trades \in Seq(Trade)
               /\ Len(trades) <= 1
               /\ Len(trades) = 1 => trades[1].order = e.order /\ trades[1].size = Executed(e)
               /\ \A k \in Joined(e, decisionRows) :
                     decisionRows[k].executable # 0 =>
                        Len(trades) = 1 /\ trades[1].price = decisionRows[k].executable
<1> DEFINE priced == {k \in Joined(e, decisionRows) : PriceOf(decisionRows[k]) # 0}
           kept == Kept(decisionRows, priced)
           trades == TradesOf(e, decisionRows)
<1>1. decisionRows \in Seq(DecisionRowType)
  BY DEF AuditTypeOK
<1>2. trades \in Seq(Trade)
  BY <1>1, TradesOfType
<1>3. trades = [k \in DOMAIN kept |-> TradeOf(e, kept[k])]
  BY DEF TradesOf
<1>4. priced \subseteq DOMAIN decisionRows
  BY DEF Joined
<1>5. \A k, l \in Joined(e, decisionRows) : k = l
  BY DEF Joined, NamedOnce
<1>6. CASE priced = {}
  <2>1. kept = <<>>
    BY <1>1, <1>6, KeptOfNone
  <2>2. Len(trades) = 0
    BY <1>3, <2>1
  <2>3. \A k \in Joined(e, decisionRows) : decisionRows[k].executable = 0
    BY <1>6 DEF PriceOf
  <2> QED
    BY <1>2, <2>2, <2>3
<1>7. CASE priced # {}
  <2>1. PICK k : k \in priced
    BY <1>7
  <2>2. DOMAIN decisionRows \cap priced = {k}
    BY <1>4, <1>5, <2>1
  <2> HIDE DEF priced
  <2>3. kept = <<decisionRows[k]>>
    BY <1>1, <2>2, KeptOfOne
  <2> DEFINE row == decisionRows[k]
  <2> HIDE DEF kept
  <2>4. Len(trades) = 1 /\ trades[1] = TradeOf(e, row)
    BY <1>3, <2>3
  <2>5. trades[1].order = e.order /\ trades[1].size = Executed(e) /\ trades[1].price = PriceOf(row)
    BY <2>4 DEF TradeOf, Executed
  <2>6. \A l \in Joined(e, decisionRows) :
           decisionRows[l].executable # 0 => trades[1].price = decisionRows[l].executable
    <3>1. k \in Joined(e, decisionRows)
      BY <2>1 DEF priced
    <3> QED
      BY <1>5, <2>5, <3>1 DEF PriceOf
  <2> QED
    BY <1>2, <2>4, <2>5, <2>6
<1> QED
  BY <1>6, <1>7

ReportParts(s) ==
    [j \in DOMAIN resultRows |-> IF Selected(resultRows[j], s, 1, MaxCycles)
                                 THEN TradesOf(resultRows[j], decisionRows) ELSE <<>>]

\* The row j of an accepted order of symbol s.
IsAccepted(j, s) == resultRows[j].status = "ACCEPTED" /\ resultRows[j].symbol = s

LEMMA SelectedIsAccepted ==
    ASSUME RInv, NEW s, NEW j \in DOMAIN resultRows
    PROVE  Selected(resultRows[j], s, 1, MaxCycles) <=> IsAccepted(j, s)
<1>1. resultRows[j] \in ResultRowType /\ MaxCycles \in Nat /\ cycle \in Nat
  BY AuditAssumption DEF RInv, AInv, AuditTypeOK
<1>2. resultRows[j].cycle \in 1 .. MaxCycles
  BY <1>1 DEF RInv, Dated, ResultRowType, Positive
<1>3. resultRows[j].status = "ACCEPTED" => resultRows[j].order # 0
  <2>1. orders \in Seq(OrderType)
    BY DEF RInv, AInv, AuditTypeOK
  <2>2. 0 \notin DOMAIN orders
    BY <2>1
  <2> QED
    BY <2>2 DEF RInv, AInv, RecordedOrdersExist
<1> QED
  BY <1>2, <1>3, ReportAssumption DEF Selected, WasAccepted, IsAccepted

\* What each row contributes to the report of symbol s.
Contributes(part, j, s) ==
    /\ Len(part) <= 1
    /\ Len(part) = 1 =>
          /\ IsAccepted(j, s)
          /\ part[1].order = resultRows[j].order
          /\ part[1].size = Executed(resultRows[j])
    /\ IsAccepted(j, s) =>
          \/ resultRows[j].cycle \in gaps
          \/ /\ Len(part) = 1
             /\ \E k \in DOMAIN decisionRows :
                   /\ decisionRows[k].cycle = resultRows[j].cycle
                   /\ decisionRows[k].executable = part[1].price

LEMMA RowContributes ==
    ASSUME RInv, NEW s, NEW j \in DOMAIN resultRows
    PROVE  ReportParts(s)[j] \in Seq(Trade) /\ Contributes(ReportParts(s)[j], j, s)
<1> DEFINE part == ReportParts(s)[j]
           row == resultRows[j]
<1>1. row \in ResultRowType /\ AuditTypeOK /\ NamedOnce
  BY DEF RInv, AInv, AuditTypeOK
<1>2. part = IF IsAccepted(j, s) THEN TradesOf(row, decisionRows) ELSE <<>>
  BY SelectedIsAccepted DEF ReportParts
<1>3. CASE ~IsAccepted(j, s)
  BY <1>2, <1>3 DEF Contributes
<1>4. CASE IsAccepted(j, s)
  <2>1. /\ part \in Seq(Trade)
        /\ Len(part) <= 1
        /\ Len(part) = 1 => part[1].order = row.order /\ part[1].size = Executed(row)
        /\ \A k \in Joined(row, decisionRows) :
              decisionRows[k].executable # 0 =>
                 Len(part) = 1 /\ part[1].price = decisionRows[k].executable
    BY <1>1, <1>2, <1>4, JoinedOnce
  <2>2. row.cycle \in gaps \/ HasPrice(row.cycle, row.symbol)
    BY <1>4 DEF RInv, AcceptedIsPriced, IsAccepted
  <2>3. HasPrice(row.cycle, row.symbol) =>
           \E k \in Joined(row, decisionRows) : decisionRows[k].executable # 0
    BY DEF HasPrice, Joined
  <2> HIDE DEF part, row
  <2>4. HasPrice(row.cycle, row.symbol) =>
           /\ Len(part) = 1
           /\ \E k \in DOMAIN decisionRows :
                 /\ decisionRows[k].cycle = row.cycle
                 /\ decisionRows[k].executable = part[1].price
    BY <2>1, <2>3 DEF Joined
  <2> QED
    BY <1>4, <2>1, <2>2, <2>4 DEF Contributes, row, part
<1> QED
  BY <1>3, <1>4

LEMMA PartsOfReport ==
    ASSUME RInv, NEW s
    PROVE  /\ ReportParts(s) \in Seq(Seq(Trade))
           /\ Len(ReportParts(s)) = Len(resultRows) /\ DOMAIN resultRows = 1 .. Len(resultRows)
           /\ \A j \in 1 .. Len(resultRows) : Contributes(ReportParts(s)[j], j, s)
           /\ Trades(s) = FlattenSeq(ReportParts(s))
<1> DEFINE N == Len(resultRows)
           S == Seq(Trade)
           parts == ReportParts(s)
<1>1. N \in Nat /\ DOMAIN resultRows = 1 .. N
  BY DEF RInv, AInv, AuditTypeOK
<1>2. \A j \in 1 .. N : parts[j] \in S /\ Contributes(parts[j], j, s)
  BY <1>1, RowContributes
<1>3. parts = [j \in 1 .. N |-> parts[j]]
  BY <1>1 DEF ReportParts
<1>4. Trades(s) = FlattenSeq(parts)
  BY DEF Trades, TradesSince, LoadTrades, ReportParts
<1> HIDE DEF N, S, parts
<1>5. parts \in [1 .. N -> S]
  BY <1>2, <1>3
<1>6. parts \in Seq(S) /\ Len(parts) = N
  BY <1>1, <1>5
<1> QED
  BY <1>1, <1>2, <1>4, <1>6 DEF N, S, parts

\* TradesArePriced: however often the program is restarted, whatever writes are
\* lost and however many symbols it copies, as long as the whitelist names no
\* symbol twice.
THEOREM AcceptedOrdersArePriced ==
    ASSUME DistinctWhitelist
    PROVE  AuditSpec => []TradesArePriced
<1>1. RInv => TradesArePriced
  <2> SUFFICES ASSUME RInv, NEW j \in DOMAIN resultRows,
                      resultRows[j].status = "ACCEPTED", resultRows[j].cycle \notin gaps
               PROVE  LET trades == Trades(resultRows[j].symbol)
                          own    == {i \in DOMAIN trades : trades[i].order = resultRows[j].order}
                      IN  \E i \in own :
                             /\ own = {i}
                             /\ \E k \in DOMAIN decisionRows :
                                   /\ decisionRows[k].cycle = resultRows[j].cycle
                                   /\ decisionRows[k].executable = trades[i].price
    BY DEF TradesArePriced
  <2> DEFINE s == resultRows[j].symbol
             N == Len(resultRows)
             parts == ReportParts(s)
             trades == Trades(s)
  <2>1. /\ parts \in Seq(Seq(Trade)) /\ Len(parts) = N /\ DOMAIN resultRows = 1 .. N
        /\ \A m \in 1 .. N : Contributes(parts[m], m, s)
        /\ trades = FlattenSeq(parts)
    BY PartsOfReport
  <2>2. IsAccepted(j, s)
    BY DEF IsAccepted
  <2> HIDE DEF N, parts, trades, s
  <2>3. \A m \in 1 .. N : Len(parts[m]) <= 1
    BY <2>1 DEF Contributes
  <2>4. PICK h : Places(h, trades, parts, N)
    BY <2>1, <2>3, FlattenPlaces
  <2>5. ASSUME NEW i \in DOMAIN trades
        PROVE  /\ h[i] \in 1 .. N /\ resultRows[h[i]].status = "ACCEPTED"
               /\ trades[i] = parts[h[i]][1] /\ trades[i].order = resultRows[h[i]].order
    BY <2>1, <2>4 DEF Places, Contributes, IsAccepted
  <2>6. /\ Len(parts[j]) = 1
        /\ \E k \in DOMAIN decisionRows :
              /\ decisionRows[k].cycle = resultRows[j].cycle
              /\ decisionRows[k].executable = parts[j][1].price
    BY <2>1, <2>2 DEF Contributes
  <2>7. PICK i \in DOMAIN trades : h[i] = j
    BY <2>1, <2>4, <2>6 DEF Places
  <2>8. ASSUME NEW n \in DOMAIN trades, trades[n].order = resultRows[j].order
        PROVE  n = i
    <3>1. h[n] = j
      BY <2>1, <2>5, <2>8 DEF RInv, AInv, RecordedOrdersExist
    <3>2. trades \in Seq(Trade)
      BY <2>1, FlattenType
    <3>3. n \in Nat /\ i \in Nat /\ h[n] \in Nat /\ h[i] \in Nat
      BY <2>5, <3>2
    <3> QED
      BY <2>4, <2>7, <3>1, <3>3 DEF Places
  <2>9. {n \in DOMAIN trades : trades[n].order = resultRows[j].order} = {i}
    BY <2>5, <2>7, <2>8
  <2>10. trades[i] = parts[j][1]
    BY <2>5, <2>7
  <2> QED
    BY <2>6, <2>9, <2>10 DEF trades, s
<1> QED
  BY <1>1, ReportInductive, PTL
-----------------------------------------------------------------------------
(* The ledger: the accepted rows and the orders without a row that names   *)
(* them are together what the account holds and is about to hold.          *)

AcceptedSizes(rows, s) ==
    [j \in DOMAIN rows |-> IF rows[j].status = "ACCEPTED" /\ rows[j].symbol = s
                           THEN Executed(rows[j]) ELSE 0]

IsNamed(i, rows) == \E j \in DOMAIN rows : rows[j].order = i

UnnamedSizes(taken, rows, s) ==
    [i \in DOMAIN taken |-> IF taken[i].symbol = s /\ ~IsNamed(i, rows)
                            THEN taken[i].size ELSE 0]

Ledger(taken, rows, s) == Total(AcceptedSizes(rows, s)) + Total(UnnamedSizes(taken, rows, s))

Balanced == \A s \in Symbols : Ledger(orders, resultRows, s) = position[s] + working[s]

LEMMA LedgerType ==
    ASSUME NEW taken \in Seq(OrderType), NEW rows \in Seq(ResultRowType), NEW s
    PROVE  /\ AcceptedSizes(rows, s) \in Seq(Int)
           /\ Len(AcceptedSizes(rows, s)) = Len(rows)
           /\ UnnamedSizes(taken, rows, s) \in Seq(Int)
           /\ Len(UnnamedSizes(taken, rows, s)) = Len(taken)
           /\ Total(AcceptedSizes(rows, s)) \in Int
           /\ Total(UnnamedSizes(taken, rows, s)) \in Int
<1> DEFINE a == AcceptedSizes(rows, s)
           u == UnnamedSizes(taken, rows, s)
           N == Len(rows)
           M == Len(taken)
<1>1. /\ Len(rows) \in Nat /\ DOMAIN rows = 1 .. Len(rows)
      /\ Len(taken) \in Nat /\ DOMAIN taken = 1 .. Len(taken)
  OBVIOUS
<1>2. \A j \in 1 .. Len(rows) : rows[j] \in ResultRowType
  OBVIOUS
<1>3. \A i \in 1 .. Len(taken) : taken[i] \in OrderType
  OBVIOUS
<1>4. a \in [1 .. Len(rows) -> Int]
  BY <1>1, <1>2 DEF AcceptedSizes, Executed, ResultRowType
<1>5. u \in [1 .. Len(taken) -> Int]
  BY <1>1, <1>3 DEF UnnamedSizes, OrderType
<1> HIDE DEF a, u, N, M
<1>6. a \in Seq(Int) /\ Len(a) = N
  <2> a \in [1 .. N -> Int] /\ N \in Nat
    BY <1>1, <1>4 DEF N
  <2> QED
    OBVIOUS
<1>7. u \in Seq(Int) /\ Len(u) = M
  <2> u \in [1 .. M -> Int] /\ M \in Nat
    BY <1>1, <1>5 DEF M
  <2> QED
    OBVIOUS
<1>8. Total(a) \in Int /\ Total(u) \in Int
  BY <1>6, <1>7, TotalType
<1> QED
  BY <1>6, <1>7, <1>8 DEF a, u, N, M

\* An order that no row names yet.
LEMMA LedgerOfOrder ==
    ASSUME NEW taken \in Seq(OrderType), NEW rows \in Seq(ResultRowType), NEW s,
           NEW order \in OrderType, ~IsNamed(Len(taken) + 1, rows)
    PROVE  Ledger(Append(taken, order), rows, s)
             = Ledger(taken, rows, s) + (IF order.symbol = s THEN order.size ELSE 0)
<1> DEFINE old == UnnamedSizes(taken, rows, s)
           new == UnnamedSizes(Append(taken, order), rows, s)
           size == IF order.symbol = s THEN order.size ELSE 0
           N == Len(taken)
<1>1. /\ Append(taken, order) \in Seq(OrderType) /\ Len(Append(taken, order)) = N + 1
      /\ N \in Nat /\ DOMAIN taken = 1 .. N /\ DOMAIN Append(taken, order) = 1 .. N + 1
      /\ \A i \in 1 .. N : Append(taken, order)[i] = taken[i]
      /\ Append(taken, order)[N + 1] = order
  OBVIOUS
<1>2. old \in Seq(Int) /\ Len(old) = N /\ new \in Seq(Int) /\ Len(new) = N + 1
  <2> HIDE DEF N
  <2> DEFINE more == Append(taken, order)
  <2> HIDE DEF more
  <2>1. more \in Seq(OrderType) /\ Len(more) = N + 1 /\ N = Len(taken)
    BY <1>1 DEF more, N
  <2> QED
    BY <2>1, LedgerType DEF more
<1>3. \A i \in 1 .. N : new[i] = old[i]
  BY <1>1 DEF UnnamedSizes
<1>4. new[N + 1] = size
  BY <1>1 DEF UnnamedSizes
<1>5. size \in Int
  BY DEF OrderType
<1>6. Total(AcceptedSizes(rows, s)) \in Int /\ Total(old) \in Int
  BY LedgerType
<1> HIDE DEF old, new, size, N
<1>7. \A i \in 1 .. N + 1 : new[i] = Append(old, size)[i]
  BY <1>1, <1>2, <1>3, <1>4, <1>5
<1>8. Append(old, size) \in Seq(Int) /\ Len(Append(old, size)) = N + 1
  BY <1>1, <1>2, <1>5
<1>9. Total(new) = Total(old) + size
  BY <1>1, <1>2, <1>5, <1>7, <1>8, TotalOfSame, TotalOfAppend
<1> QED
  BY <1>5, <1>6, <1>9 DEF Ledger, old, new, size, N

\* A row that names no order, or one that was not named yet: then the order is
\* counted as its row is, and no longer by itself.
LEMMA LedgerOfRow ==
    ASSUME NEW taken \in Seq(OrderType), NEW rows \in Seq(ResultRowType), NEW s,
           NEW row \in ResultRowType,
           \/ row.status # "ACCEPTED" /\ row.order = 0
           \/ /\ row.status = "ACCEPTED"
              /\ row.order \in DOMAIN taken
              /\ ~IsNamed(row.order, rows)
              /\ taken[row.order].symbol = row.symbol
              /\ taken[row.order].size = Executed(row)
    PROVE  Ledger(taken, Append(rows, row), s) = Ledger(taken, rows, s)
<1> DEFINE more == Append(rows, row)
           a == AcceptedSizes(rows, s)
           b == AcceptedSizes(more, s)
           u == UnnamedSizes(taken, rows, s)
           v == UnnamedSizes(taken, more, s)
           size == IF row.status = "ACCEPTED" /\ row.symbol = s THEN Executed(row) ELSE 0
           N == Len(rows)
           M == Len(taken)
           m == row.order
<1>1. /\ more \in Seq(ResultRowType) /\ Len(more) = N + 1
      /\ N \in Nat /\ DOMAIN rows = 1 .. N /\ DOMAIN more = 1 .. N + 1
      /\ \A j \in 1 .. N : more[j] = rows[j]
      /\ more[N + 1] = row
      /\ M \in Nat /\ DOMAIN taken = 1 .. M
  OBVIOUS
<1>2. size \in Int
  BY DEF Executed, ResultRowType
<1>3. \A j \in 1 .. N : b[j] = a[j]
  BY <1>1 DEF AcceptedSizes
<1>4. b[N + 1] = size
  BY <1>1 DEF AcceptedSizes
<1>5. \A i : IsNamed(i, more) <=> IsNamed(i, rows) \/ i = m
  <2> HIDE DEF more, N
  <2>1. DOMAIN more = DOMAIN rows \cup {N + 1}
    BY <1>1
  <2> QED
    BY <1>1, <2>1 DEF IsNamed
<1>6. \A i \in 1 .. M : i # m => v[i] = u[i]
  <2> HIDE DEF more, N, M, m
  <2> QED
    BY <1>1, <1>5 DEF UnnamedSizes
<1>7. m \in 1 .. M => v[m] = 0
  <2> HIDE DEF more, N, M, m
  <2> QED
    BY <1>1, <1>5 DEF UnnamedSizes
<1>8. m \in 1 .. M /\ row.status = "ACCEPTED" => u[m] = size
  <2>1. DOMAIN taken = 1 .. M
    BY <1>1
  <2> HIDE DEF M
  <2> SUFFICES ASSUME m \in 1 .. M, row.status = "ACCEPTED"
               PROVE  u[m] = size
    OBVIOUS
  <2>2. u[m] = IF taken[m].symbol = s /\ ~IsNamed(m, rows) THEN taken[m].size ELSE 0
    BY <2>1 DEF UnnamedSizes
  <2>3. m # 0
    BY <1>1 DEF M
  <2> QED
    BY <2>2
<1> HIDE DEF more
<1>9. /\ a \in Seq(Int) /\ Len(a) = N /\ b \in Seq(Int) /\ Len(b) = N + 1
      /\ u \in Seq(Int) /\ Len(u) = M /\ v \in Seq(Int) /\ Len(v) = M
      /\ Total(a) \in Int /\ Total(u) \in Int
  BY <1>1, LedgerType
<1>10. row.status # "ACCEPTED" => size = 0
  OBVIOUS
<1> HIDE DEF a, b, u, v, size, N, M
<1>11. (m = 0 /\ size = 0) \/ (m \in 1 .. M /\ row.status = "ACCEPTED")
  BY <1>1, <1>10
<1> HIDE DEF m
<1>12. Total(b) = Total(a) + size
  <2>1. Append(a, size) \in Seq(Int) /\ Len(Append(a, size)) = N + 1
    BY <1>2, <1>9
  <2>2. \A j \in 1 .. N + 1 : b[j] = Append(a, size)[j]
    BY <1>1, <1>2, <1>3, <1>4, <1>9
  <2> QED
    BY <1>2, <1>9, <2>1, <2>2, TotalOfSame, TotalOfAppend
<1>13. CASE m = 0 /\ size = 0
  <2>1. \A i \in 1 .. M : v[i] = u[i]
    BY <1>1, <1>6, <1>13
  <2>2. Total(v) = Total(u)
    BY <1>9, <2>1, TotalOfSame
  <2> QED
    BY <1>9, <1>12, <1>13, <2>2 DEF Ledger, a, b, u, v, more
<1>14. CASE m \in 1 .. M /\ row.status = "ACCEPTED"
  <2>1. v[m] = 0 /\ u[m] = size
    BY <1>7, <1>8, <1>14
  <2>2. Total(v) = Total(u) + v[m] - u[m]
    <3>1. m \in 1 .. Len(u) /\ Len(v) = Len(u) /\ \A i \in 1 .. Len(u) : i # m => v[i] = u[i]
      BY <1>6, <1>9, <1>14
    <3> QED
      BY <1>9, <3>1, TotalOfChanged
  <2>3. Total(b) + Total(v) = Total(a) + Total(u)
    BY <1>2, <1>9, <1>12, <2>1, <2>2
  <2> QED
    BY <2>3 DEF Ledger, a, b, u, v, more
<1> QED
  BY <1>11, <1>13, <1>14

LEMMA QuietLedger ==
    ASSUME Balanced, UNCHANGED <<orders, resultRows>>,
           \A s \in Symbols : position'[s] + working'[s] = position[s] + working[s]
    PROVE  Balanced'
  BY DEF Balanced

\* Binance takes the order that is out, or does not.
LEMMA TakenLedger ==
    ASSUME AInv, Balanced, pc = "awaiting", NEW taken \in BOOLEAN,
           TakenOrders(taken), Take(taken), UNCHANGED <<position, resultRows>>
    PROVE  Balanced'
<1> DEFINE order == [cycle |-> cycle, symbol |-> Symbol, size |-> OrderSize(Due)]
<1>1. /\ orders \in Seq(OrderType) /\ resultRows \in Seq(ResultRowType)
      /\ position \in [Symbols -> Int] /\ working \in [Symbols -> Int]
  BY DEF AInv, AuditTypeOK, TypeOK
<1>2. order \in OrderType /\ Symbol \in Symbols /\ OrderSize(Due) \in Int
  <2>1. Acting \in DOMAIN Whitelist /\ Acting \in DOMAIN decisions
    BY ConfigAssumption DEF AInv, TypeOK, Acting
  <2>2. Symbol \in Symbols /\ Due \in Decision
    BY <2>1, ConfigAssumption DEF AInv, TypeOK, Symbol, Due
  <2>3. OrderSize(Due) \in Int
    BY <2>2, OrderSizeType
  <2>4. cycle \in Positive
    BY DEF AInv, AuditTypeOK, Numbered, Positive
  <2> QED
    BY <2>2, <2>3, <2>4 DEF OrderType
<1>3. ~IsNamed(Len(orders) + 1, resultRows)
  <2>1. Len(orders) \in Nat
    BY <1>1
  <2> QED
    BY <2>1 DEF AInv, RowsPointBack, IsNamed
<1>4. CASE ~taken
  BY <1>4, QuietLedger DEF TakenOrders, Take
<1>5. CASE taken
  <2>1. orders' = Append(orders, order) /\ working' = [working EXCEPT ![Symbol] = @ + OrderSize(Due)]
    BY <1>5 DEF TakenOrders, Take
  <2>2. order.symbol = Symbol /\ order.size = OrderSize(Due)
    OBVIOUS
  <2> HIDE DEF order
  <2> SUFFICES ASSUME NEW s \in Symbols
               PROVE  Ledger(orders', resultRows', s) = position'[s] + working'[s]
    BY DEF Balanced
  <2>3. Ledger(orders', resultRows', s)
          = Ledger(orders, resultRows, s) + (IF order.symbol = s THEN order.size ELSE 0)
    BY <1>1, <1>2, <1>3, <2>1, LedgerOfOrder
  <2>4. Ledger(orders, resultRows, s) = position[s] + working[s]
    BY DEF Balanced
  <2>5. position'[s] = position[s]
        /\ working'[s] = working[s] + (IF order.symbol = s THEN order.size ELSE 0)
    BY <1>1, <1>2, <2>1, <2>2
  <2>6. position[s] \in Int /\ working[s] \in Int
    BY <1>1
  <2> QED
    BY <1>2, <2>2, <2>3, <2>4, <2>5, <2>6
<1> QED
  BY <1>4, <1>5

\* A row is written, or lost.
LEMMA WrittenLedger ==
    ASSUME AInv, Balanced, UNCHANGED <<orders, position, working>>,
           NEW row \in ResultRowType, NEW done \in BOOLEAN,
           resultRows' = Written(resultRows, row, done),
           \/ row.status # "ACCEPTED" /\ row.order = 0
           \/ /\ row.status = "ACCEPTED"
              /\ row.order \in DOMAIN orders
              /\ ~IsNamed(row.order, resultRows)
              /\ orders[row.order].symbol = row.symbol
              /\ orders[row.order].size = Executed(row)
    PROVE  Balanced'
<1>1. orders \in Seq(OrderType) /\ resultRows \in Seq(ResultRowType)
  BY DEF AInv, AuditTypeOK
<1>2. \A s : Ledger(orders, Append(resultRows, row), s) = Ledger(orders, resultRows, s)
  BY <1>1, LedgerOfRow
<1>3. CASE done
  BY <1>2, <1>3 DEF Written, Balanced
<1>4. CASE ~done
  BY <1>4 DEF Written, Balanced
<1> QED
  BY <1>3, <1>4

\* A row gives back the size of the order it was made from.
LEMMA ExecutedIsOrderSize ==
    ASSUME NEW row, NEW size \in Int, row.action = Side(size), row.qty = Abs(size)
    PROVE  Executed(row) = size
  BY DEF Executed, Side, Abs

LEMMA RecordedLedger ==
    ASSUME AInv, Balanced, pc = "record", UNCHANGED <<orders, position, working>>,
           NEW done \in BOOLEAN, resultRows' = Written(resultRows, RecordedRow, done)
    PROVE  Balanced'
<1> DEFINE n == Len(results)
           row == RecordedRow
<1>1. /\ n \in DOMAIN Whitelist /\ n \in DOMAIN decisions
      /\ results[n] \in Statuses /\ pc # "down" /\ decisions[n] \in Decision
  BY ConfigAssumption DEF AInv, TypeOK
<1>2. /\ row \in ResultRowType
      /\ row.symbol = Whitelist[n]
      /\ row.action = Side(OrderSize(decisions[n]))
      /\ row.qty = Abs(OrderSize(decisions[n]))
      /\ row.status = results[n]
      /\ row.order = IF results[n] = "ACCEPTED" THEN Len(orders) ELSE 0
  BY <1>1, ResultRowFacts DEF RecordedRow
<1>3. Executed(row) = OrderSize(decisions[n])
  BY <1>1, <1>2, OrderSizeType, ExecutedIsOrderSize
<1>4. resultRows' = Written(resultRows, row, done)
  OBVIOUS
<1> HIDE DEF row
<1>5. CASE row.status # "ACCEPTED"
  BY <1>2, <1>4, <1>5, WrittenLedger
<1>6. CASE row.status = "ACCEPTED"
  <2>1. /\ Len(orders) \in DOMAIN orders
        /\ IsPending(Len(orders))
        /\ \A k \in DOMAIN resultRows : resultRows[k].order < Len(orders)
    BY <1>2, <1>6 DEF AInv, AcceptedIsPending
  <2>2. ~IsNamed(Len(orders), resultRows)
    <3>1. Len(orders) \in Nat
      BY DEF AInv, AuditTypeOK
    <3> QED
      BY <2>1, <3>1 DEF IsNamed
  <2>3. orders[Len(orders)].symbol = row.symbol /\ orders[Len(orders)].size = Executed(row)
    BY <1>2, <1>3, <2>1 DEF IsPending
  <2>4. row.order = Len(orders)
    BY <1>2, <1>6
  <2> QED
    BY <1>2, <1>4, <1>6, <2>1, <2>2, <2>3, <2>4, WrittenLedger
<1> QED
  BY <1>5, <1>6

\* Every order fills in whole: none is ever cut short.
WholeFills == ~PartialFills

\* The account held nothing when the program was first started.
FlatStart == InitialPositions \subseteq {[s \in Symbols |-> 0]}

LEMMA StepKeepsBalance ==
    ASSUME WholeFills, AInv, Balanced, AuditNext
    PROVE  Balanced'
<1> USE DEF exchangeVars
<1>1. CASE BeginCycle
  <2>1. UNCHANGED <<orders, resultRows, position, working>>
    BY <1>1 DEF BeginCycle, WakeUp, Start
  <2> QED
    BY <2>1, QuietLedger
<1>2. ASSUME NEW p \in Prices, Priced(p)
      PROVE  Balanced'
  <2>1. UNCHANGED <<orders, resultRows, position, working>>
    BY <1>2 DEF Priced, PriceFetched, AddDecision
  <2> QED
    BY <2>1, QuietLedger
<1>3. CASE Unpriced
  <2>1. UNCHANGED <<orders, resultRows, position, working>>
    BY <1>3 DEF Unpriced, SourceUnavailable, BinanceUnavailable, AddDecision
  <2> QED
    BY <2>1, QuietLedger
<1>4. CASE Untraced
  <2>1. UNCHANGED <<orders, resultRows>>
    BY <1>4 DEF Untraced, auditVars
  <2>2. ASSUME NEW s \in Symbols
        PROVE  position'[s] + working'[s] = position[s] + working[s]
    <3>1. position \in [Symbols -> Int] /\ working \in [Symbols -> Int]
      BY DEF AInv, TypeOK
    <3>2. CASE \E t \in Symbols : \E q \in FilledOf(working[t]) : Fill(t, q)
      <4>1. PICK t \in Symbols : /\ position' = [position EXCEPT ![t] = @ + working[t]]
                                 /\ working' = [working EXCEPT ![t] = 0]
        BY <3>2 DEF Fill, FilledOf, WholeFills
      <4> QED
        BY <3>1, <4>1
    <3>3. CASE UNCHANGED <<position, working>>
      BY <3>3
    <3> QED
      BY <1>4, <3>2, <3>3 DEF Untraced, SourceFetched, SourceUnexpected, PositionFetched,
         PositionMissing, SourceMoves, CooldownExpires
  <2> QED
    BY <2>1, <2>2, QuietLedger
<1>5. ASSUME NEW decided \in BOOLEAN, NEW recorded \in BOOLEAN, PassedOver(decided, recorded)
      PROVE  Balanced'
  <2> DEFINE row == ResultRow(Acting, "LOCAL_ERROR")
             written == ShouldExecute /\ recorded
  <2>1. /\ pc = "act" /\ UNCHANGED <<orders, position, working>>
        /\ resultRows' = Written(resultRows, row, written)
    BY <1>5 DEF PassedOver, PassOver, Written
  <2>2. row \in ResultRowType /\ row.status # "ACCEPTED" /\ row.order = 0
    BY <2>1, ActingFacts, ResultRowFacts
  <2>3. written \in BOOLEAN
    OBVIOUS
  <2> HIDE DEF row, written
  <2> QED
    BY <2>1, <2>2, <2>3, WrittenLedger
<1>6. ASSUME NEW decided \in BOOLEAN, Submitted(decided)
      PROVE  Balanced'
  <2>1. UNCHANGED <<orders, resultRows, position, working>>
    BY <1>6 DEF Submitted, Submit
  <2> QED
    BY <2>1, QuietLedger
<1>7. CASE Answered
  <2>1. PICK taken \in BOOLEAN : TakenOrders(taken) /\ Take(taken)
    BY <1>7 DEF Answered, OrderAccepted, OrderFailed
  <2>2. pc = "awaiting" /\ UNCHANGED <<position, resultRows>>
    BY <1>7 DEF Answered, OrderAccepted, OrderFailed
  <2> QED
    BY <2>1, <2>2, TakenLedger
<1>8. ASSUME NEW done \in BOOLEAN, Recorded(done)
      PROVE  Balanced'
  <2>1. /\ pc = "record" /\ UNCHANGED <<orders, position, working>>
        /\ resultRows' = Written(resultRows, RecordedRow, done)
    BY <1>8 DEF Recorded, ResultRecorded
  <2> QED
    BY <2>1, RecordedLedger
<1>9. ASSUME NEW taken \in BOOLEAN, NEW done \in BOOLEAN, Stopped(taken, done)
      PROVE  Balanced'
  <2>1. /\ TakenOrders(taken) /\ Take(taken) /\ position' = position
        /\ taken => pc = "awaiting"
    BY <1>9 DEF Stopped, Exit
  <2>2. CASE pc = "awaiting"
    <3>1. resultRows' = resultRows
      BY <1>9, <2>2 DEF Stopped
    <3> QED
      BY <2>1, <2>2, <3>1, TakenLedger
  <2>3. CASE pc = "record"
    <3>1. resultRows' = Written(resultRows, RecordedRow, done)
      BY <1>9, <2>3 DEF Stopped
    <3>2. UNCHANGED <<orders, working>>
      BY <2>1, <2>3 DEF TakenOrders, Take
    <3> QED
      BY <2>1, <2>3, <3>1, <3>2, RecordedLedger
  <2>4. CASE pc \notin {"awaiting", "record"}
    <3>1. resultRows' = resultRows
      BY <1>9, <2>4 DEF Stopped
    <3>2. UNCHANGED <<orders, working>>
      BY <2>1, <2>4 DEF TakenOrders, Take
    <3> QED
      BY <2>1, <3>1, <3>2, QuietLedger
  <2> QED
    BY <2>2, <2>3, <2>4
<1> QED
  BY <1>1, <1>2, <1>3, <1>4, <1>5, <1>6, <1>7, <1>8, <1>9 DEF AuditNext

LEMMA LedgerInductive ==
    ASSUME WholeFills, FlatStart
    PROVE  AuditSpec => []Balanced
<1>1. AuditInit => Balanced
  <2> SUFFICES ASSUME AuditInit, NEW s \in Symbols
               PROVE  Ledger(orders, resultRows, s) = position[s] + working[s]
    BY DEF Balanced
  <2>1. orders = <<>> /\ resultRows = <<>> /\ position[s] = 0 /\ working[s] = 0
    BY DEF AuditInit, Init, FlatStart
  <2>2. AcceptedSizes(<<>>, s) = <<>> /\ UnnamedSizes(<<>>, <<>>, s) = <<>>
    BY DEF AcceptedSizes, UnnamedSizes
  <2> QED
    BY <2>1, <2>2, TotalOfNone DEF Ledger
<1>2. AInv /\ Balanced /\ [AuditNext]_allVars => Balanced'
  <2>1. ASSUME AInv, Balanced, UNCHANGED allVars
        PROVE  Balanced'
    BY <2>1 DEF allVars, vars, exchangeVars, auditVars, Balanced
  <2> QED
    BY <2>1, StepKeepsBalance
<1> QED
  BY <1>1, <1>2, AuditInductive, PTL DEF AuditSpec

\* The report's net position is the sum of the accepted rows.
LEMMA NetOfRows ==
    ASSUME RInv, gaps = {}, NEW s
    PROVE  NetOpen(ComputePnl(Trades(s))) = Total(AcceptedSizes(resultRows, s))
<1> DEFINE N == Len(resultRows)
           parts == ReportParts(s)
           trades == Trades(s)
           each == [n \in DOMAIN parts |-> IF Len(parts[n]) = 1 THEN Sizes[parts[n][1]] ELSE 0]
           a == AcceptedSizes(resultRows, s)
<1>1. /\ parts \in Seq(Seq(Trade)) /\ Len(parts) = N /\ DOMAIN resultRows = 1 .. N
      /\ \A j \in 1 .. N : Contributes(parts[j], j, s)
      /\ trades = FlattenSeq(parts)
  BY PartsOfReport
<1>2. a \in Seq(Int) /\ Len(a) = N
  BY LedgerType DEF RInv, AInv, AuditTypeOK
<1>3. trades \in Seq(Trade)
  BY <1>1, FlattenType
<1>4. NetOpen(ComputePnl(trades)) = Total(Values(trades, Sizes))
  <2>1. LET pnl == ComputePnl(trades)
        IN  pnl \in Pnl /\ SizeOf(pnl.lots) = Total(Values(trades, Sizes))
    BY <1>3, PnlBalance
  <2> DEFINE pnl == ComputePnl(trades)
  <2>2. NetOpen(pnl) = SizeOf(pnl.lots)
    <3>1. pnl \in Pnl /\ 0 \in Int
      BY <2>1
    <3> HIDE DEF pnl
    <3> QED
      BY <3>1, OpenLotsWorth
  <2> QED
    BY <2>1, <2>2
<1> HIDE DEF N, parts, trades
<1>5. Total(Values(trades, Sizes)) = Total(each)
  <2>1. \A n \in 1 .. Len(parts) : Len(parts[n]) <= 1
    BY <1>1 DEF Contributes
  <2> QED
    BY <1>1, <2>1, ProductsAreNumbers, TotalOfFlattened
<1>6. ASSUME NEW n \in 1 .. N
      PROVE  parts[n] \in Seq(Trade) /\ each[n] = a[n]
  <2>1. parts[n] \in Seq(Trade) /\ n \in DOMAIN parts
    BY <1>1
  <2>2. a[n] = IF IsAccepted(n, s) THEN Executed(resultRows[n]) ELSE 0
    BY <1>1 DEF AcceptedSizes, IsAccepted
  <2>3. Len(parts[n]) = 1 <=> IsAccepted(n, s)
    BY <1>1 DEF Contributes
  <2>4. Len(parts[n]) = 1 => Sizes[parts[n][1]] = Executed(resultRows[n])
    <3> SUFFICES ASSUME Len(parts[n]) = 1
                 PROVE  Sizes[parts[n][1]] = Executed(resultRows[n])
      OBVIOUS
    <3>1. parts[n][1] \in Trade
      BY <2>1
    <3>2. parts[n][1].size = Executed(resultRows[n])
      BY <1>1 DEF Contributes
    <3> QED
      BY <3>1, <3>2 DEF Sizes
  <2> QED
    BY <2>1, <2>2, <2>3, <2>4
<1>7. each \in Seq(Int) /\ Len(each) = N
  <2>1. N \in Nat /\ DOMAIN parts = 1 .. N
    BY <1>1
  <2>2. \A n \in 1 .. N : a[n] \in Int
    BY <1>2
  <2>3. each = [n \in 1 .. N |-> each[n]]
    BY <2>1
  <2> HIDE DEF each, a
  <2>4. each \in [1 .. N -> Int]
    BY <1>6, <2>2, <2>3
  <2> QED
    BY <2>1, <2>4
<1> HIDE DEF each, a
<1>8. Total(each) = Total(a)
  BY <1>2, <1>6, <1>7, TotalOfSame
<1> QED
  BY <1>4, <1>5, <1>8 DEF trades, a

\* NetIsAccount: the report and the orders whose answer was lost are the account,
\* however often the program is restarted and whatever it trades, as long as the
\* whitelist names no symbol twice, fills are whole and the start was flat.
THEOREM ReportIsAccount ==
    ASSUME DistinctWhitelist, WholeFills, FlatStart
    PROVE  AuditSpec => []NetIsAccount
<1>1. RInv /\ Balanced => NetIsAccount
  <2> SUFFICES ASSUME RInv, Balanced, gaps = {}, NEW s \in Symbols
               PROVE  NetOpen(ComputePnl(Trades(s)))
                        + Total([i \in DOMAIN orders |->
                                    IF i \in Unconfirmed(s) THEN orders[i].size ELSE 0])
                        = position[s] + working[s]
    BY DEF NetIsAccount
  <2>1. [i \in DOMAIN orders |-> IF i \in Unconfirmed(s) THEN orders[i].size ELSE 0]
          = UnnamedSizes(orders, resultRows, s)
    BY DEF Unconfirmed, UnnamedSizes, IsNamed
  <2> QED
    BY <2>1, NetOfRows DEF Balanced, Ledger
<1> QED
  BY <1>1, ReportInductive, LedgerInductive, PTL
=============================================================================
