------------------------ MODULE StrategyRoundProofs ------------------------
(***************************************************************************)
(* The pace of reductions, for any options, books, positions and any       *)
(* number of timers: the round, the receiver and the timers share two      *)
(* flags without a lock, and no order of their accesses breaks the pace.   *)
(* And of the batches, for anything a round may read: the order of the     *)
(* quotes and where they stand in the book, that no bid falls to zero,     *)
(* what a reduction may do, and what the ladders quote and give up to a    *)
(* reduction.                                                              *)
(***************************************************************************)
EXTENDS StrategyRound, FiniteSetTheorems, WellFoundedInduction, TLAPS

\* A timer that has not ended the waiting yet.
Waits(t) == timer[t] \in {"asleep", "armed"}

\* While a timer waits the flag says so, and no second one is started; what
\* arms a reduction is a timer that ran out.
PaceInv ==
    /\ timer \in [Timers -> {"none", "asleep", "armed", "released"}]
    /\ \A t \in Timers : Waits(t) => waitingToReduce
    /\ \A t, u \in Timers : Waits(t) /\ Waits(u) => t = u
    /\ reduceExposureThisCycle => ranOut
    /\ pc = "resetting" => ranOut

\* The round leaves the timers alone, and uses up what armed it.
LEMMA RoundKeepsPace ==
    ASSUME PaceInv, Round
    PROVE  PaceInv'
<1>1. CASE Read
  BY <1>1 DEF Read, PaceInv, Waits, reductionVars
<1>2. CASE Panics \/ FindsNoPrice
  BY <1>2 DEF Panics, FindsNoPrice, Goes, PaceInv, Waits, reductionVars
<1>3. CASE GoesOn
  BY <1>3 DEF GoesOn, Goes, AfterSizes, PaceInv, Waits, reductionVars
<1>4. CASE Asks
  BY <1>4 DEF Asks, Ask, Goes, PaceInv, Waits
<1>5. CASE NotArmed
  BY <1>5 DEF NotArmed, Goes, AfterSizes, PaceInv, Waits, reductionVars
<1>6. CASE FindsArmed
  BY <1>6 DEF FindsArmed, Goes, PaceInv, Waits, reductionVars
<1>7. CASE Resets
  BY <1>7 DEF Resets, Uses, Goes, AfterSizes, PaceInv, Waits
<1>8. CASE Reports
  BY <1>8 DEF Reports, Goes, PaceInv, Waits, reductionVars
<1>9. CASE Hands
  BY <1>9 DEF Hands, PaceInv, Waits, reductionVars
<1> QED
  BY <1>1, <1>2, <1>3, <1>4, <1>5, <1>6, <1>7, <1>8, <1>9 DEF Round

\* A timer is started only while none waits.
LEMMA ReceiverKeepsPace ==
    ASSUME PaceInv, ReceiverStep
    PROVE  PaceInv'
<1>1. CASE IgnoresAsk
  BY <1>1 DEF ReceiverStep, IgnoresAsk, roundVars, PaceInv, Waits
<1>2. ASSUME NEW t \in Timers, StartsTimer(t)
      PROVE  PaceInv'
  <2>1. \A u \in Timers : ~Waits(u)
    BY <1>2 DEF StartsTimer, PaceInv
  <2>2. timer' = [timer EXCEPT ![t] = "asleep"] /\ waitingToReduce'
    BY <1>2 DEF StartsTimer
  <2>3. \A u \in Timers : Waits(u)' => u = t
    BY <2>1, <2>2 DEF Waits, PaceInv
  <2> QED
    BY <1>2, <2>2, <2>3 DEF StartsTimer, ReceiverStep, roundVars, PaceInv
<1> QED
  BY <1>1, <1>2 DEF ReceiverStep, Receiver

\* A timer's two stores, in either order: the flag of the waiting falls with
\* the only timer that waits.
LEMMA TimerKeepsPace ==
    ASSUME PaceInv, NEW t \in Timers, TimerStep(t)
    PROVE  PaceInv'
<1>1. CASE Arms(t)
  <2>1. \A u \in Timers : Waits(u)' => Waits(u)
    BY <1>1 DEF Arms, Waits, PaceInv
  <2> QED
    BY <1>1, <2>1 DEF Arms, TimerStep, roundVars, PaceInv
<1>2. CASE Releases(t)
  <2>1. /\ Waits(t)
        /\ \A u \in Timers : u # t => timer'[u] = timer[u]
        /\ timer'[t] \in {"released", "none"}
    BY <1>2 DEF Releases, Waits, PaceInv
  <2>2. \A u \in Timers : ~Waits(u)'
    BY <2>1 DEF Waits, PaceInv
  <2> QED
    BY <1>2, <2>2 DEF Releases, TimerStep, roundVars, PaceInv
<1> QED
  BY <1>1, <1>2 DEF TimerStep, Timer

LEMMA PaceKept == Spec => []PaceInv
<1>1. Init => PaceInv
  BY DEF Init, ReductionInit, PaceInv, Waits
<1>2. PaceInv /\ [Next]_vars => PaceInv'
  <2> SUFFICES ASSUME PaceInv, [Next]_vars PROVE PaceInv'
    OBVIOUS
  <2>1. CASE UNCHANGED vars
    BY <2>1 DEF vars, reductionVars, PaceInv, Waits
  <2> QED
    BY <2>1, RoundKeepsPace, ReceiverKeepsPace, TimerKeepsPace DEF Next
<1> QED
  BY <1>1, <1>2, PTL DEF Spec

\* One timer at most sleeps, and between two reductions of a strategy one
\* has run out: aggressive.go:285-302 and the reset at 482.
THEOREM ReductionsPaced == Spec => []PacedReductions
<1>1. ASSUME PaceInv PROVE PacedReductions
  <2>1. Cardinality(Asleep) <= 1
    <3>1. CASE Asleep = {}
      BY <3>1, FS_EmptySet
    <3>2. CASE Asleep # {}
      <4>1. PICK t \in Timers : Asleep = {t}
        BY <1>1, <3>2 DEF Asleep, PaceInv, Waits
      <4> QED
        BY <4>1, FS_Singleton
    <3> QED
      BY <3>1, <3>2
  <2> QED
    BY <1>1, <2>1 DEF PacedReductions, PaceInv
<1>2. PaceInv => PacedReductions
  BY <1>1
<1> QED
  BY <1>2, PaceKept, PTL
-----------------------------------------------------------------------------
(* What a round has read.                                                  *)

\* The values of the last getter calls, and a reduction only where they
\* show too much exposure.
ReadInv ==
    /\ strategy \in Strategies
    /\ pc \in {"reading", "testing", "resetting", "reporting", "handing", "panicked"}
    /\ done \in Nat
    /\ DOMAIN r = Fields
    /\ r.book.bid \in Nat /\ r.book.ask \in Nat /\ r.book.mid \in Nat
    /\ r.external \in ExternalBooks \cup {{}}
    /\ r.binanceBid \in Nat /\ r.binanceAsk \in Nat
    /\ r.volume \in Int /\ r.entry \in Nat
    /\ pc = "testing" => Excess(strategy, r)
    /\ reducing => /\ pc \in {"resetting", "reporting", "handing", "panicked"}
                   /\ Excess(strategy, r)

LEMMA NextField ==
    ASSUME strategy \in Strategies, NEW n \in 1 .. Len(Reads(strategy.kind))
    PROVE  Reads(strategy.kind)[n] \in Fields
<1>1. CASE strategy.kind = "aggressive"
  BY <1>1 DEF Reads, Aggressive!Reads, Fields
<1>2. CASE strategy.kind = "points"
  BY <1>2 DEF Reads, Points!Reads, Fields
<1>3. CASE strategy.kind = "martingale"
  BY <1>3 DEF Reads, Martingale!Reads, Fields
<1> QED
  BY <1>1, <1>2, <1>3, RoundAssumption

LEMMA ReadKeepsTypes ==
    ASSUME ReadInv, Read
    PROVE  ReadInv'
<1> DEFINE f == Reads(strategy.kind)[done + 1]
<1>1. PICK v \in Returned(f) : r' = [r EXCEPT ![f] = v]
  BY DEF Read
<1>2. /\ done + 1 \in 1 .. Len(Reads(strategy.kind))
      /\ strategy' = strategy /\ pc' = pc /\ done' = done + 1 /\ reducing' = reducing
      /\ pc = "reading"
  <2>1. Len(Reads(strategy.kind)) \in Nat
    BY RoundAssumption DEF ReadInv, Reads, Aggressive!Reads, Points!Reads, Martingale!Reads
  <2> QED
    BY <2>1 DEF Read, ReadInv
<1>3. f \in Fields
  BY <1>2, NextField DEF ReadInv
<1>4. /\ DOMAIN r' = Fields /\ r'[f] = v
      /\ \A g \in Fields : g # f => r'[g] = r[g]
  BY <1>1, <1>3 DEF ReadInv
<1>5. /\ r'["book"].bid \in Nat /\ r'["book"].ask \in Nat /\ r'["book"].mid \in Nat
      /\ r'["external"] \in ExternalBooks \cup {{}}
      /\ r'["binanceBid"] \in Nat /\ r'["binanceAsk"] \in Nat
      /\ r'["volume"] \in Int /\ r'["entry"] \in Nat
  BY <1>1, <1>3, <1>4, RoundAssumption DEF ReadInv, Fields, Returned
<1> QED
  BY <1>2, <1>4, <1>5 DEF ReadInv

LEMMA ReadsKept == Spec => []ReadInv
<1>1. Init => ReadInv
  BY DEF Init, ReadInv, NoReads, Fields
<1>2. ReadInv /\ [Next]_vars => ReadInv'
  <2> SUFFICES ASSUME ReadInv, [Next]_vars PROVE ReadInv'
    OBVIOUS
  <2>1. CASE UNCHANGED vars
    BY <2>1 DEF vars, ReadInv, Excess, Exposure
  <2>2. CASE Read
    BY <2>2, ReadKeepsTypes
  <2>3. CASE Panics \/ FindsNoPrice \/ GoesOn
    BY <2>3 DEF Panics, FindsNoPrice, GoesOn, ReadAll, Goes, AfterSizes, ReadInv
  <2>4. CASE Asks
    BY <2>4 DEF Asks, ReadAll, Goes, ReadInv
  <2>5. CASE NotArmed \/ FindsArmed \/ Resets \/ Reports
    BY <2>5 DEF NotArmed, FindsArmed, Resets, Reports, Goes, AfterSizes, ReadInv
  <2>6. CASE Hands
    BY <2>6 DEF Hands, ReadInv, NoReads, Fields
  <2>7. CASE ReceiverStep \/ \E t \in Timers : TimerStep(t)
    BY <2>7 DEF ReceiverStep, TimerStep, roundVars, ReadInv
  <2> QED
    BY <2>1, <2>2, <2>3, <2>4, <2>5, <2>6, <2>7 DEF Next, Round
<1> QED
  BY <1>1, <1>2, PTL DEF Spec
-----------------------------------------------------------------------------
(* Signs, parts and rounding.                                              *)

LEMMA ProductSign ==
    ASSUME NEW v \in Int, NEW e \in Nat, v * e # 0
    PROVE  v * e > 0 <=> v > 0
<1>1. v # 0 /\ e > 0
  OBVIOUS
<1>2. CASE v > 0
  <2>1. v \in Nat /\ v * e \in Nat
    BY <1>2
  <2> QED
    BY <1>2, <2>1
<1>3. CASE v < 0
  <2>1. -v \in Nat /\ (-v) * e \in Nat /\ (-v) * e = -(v * e)
    BY <1>3
  <2> QED
    BY <1>3, <2>1
<1> QED
  BY <1>1, <1>2, <1>3

LEMMA PartOf ==
    ASSUME NEW n \in Nat, NEW f \in 0 .. 1000
    PROVE  (n * f) \div 1000 \in Nat /\ (n * f) \div 1000 <= n
<1>1. n * f \in Nat /\ n * f <= n * 1000
  OBVIOUS
<1> QED
  BY <1>1

LEMMA SizeNat ==
    ASSUME NEW v \in Int
    PROVE  Size(v) \in Nat /\ (v # 0 <=> Size(v) > 0)
BY DEF Size

LEMMA TruncatedMonotone ==
    ASSUME NEW a \in Int, NEW b \in Int, a <= b
    PROVE  /\ Truncated(a, Unit) \in Int /\ Truncated(b, Unit) \in Int
           /\ Truncated(a, Unit) <= Truncated(b, Unit)
BY DEF Truncated, Unit

\* A larger offset moves a price further, and none beyond the price itself.
LEMMA BelowMonotone ==
    ASSUME NEW price \in Nat, NEW x \in Nat, NEW y \in Nat, x <= y
    PROVE  /\ Below(price, x) \in Int /\ Below(price, y) \in Int
           /\ Below(price, y) <= Below(price, x)
           /\ Below(price, x) <= price
<1>1. /\ price * (Unit - y) \in Int /\ price * (Unit - x) \in Int /\ price * Unit \in Int
      /\ price * (Unit - y) <= price * (Unit - x)
      /\ price * (Unit - x) <= price * Unit
  <2>1. price * x <= price * y /\ price * x \in Nat /\ price * y \in Nat
    OBVIOUS
  <2>2. price * (Unit - y) = price * Unit - price * y
    BY DEF Unit
  <2>3. price * (Unit - x) = price * Unit - price * x
    BY DEF Unit
  <2> QED
    BY <2>1, <2>2, <2>3 DEF Unit
<1>2. Truncated(price * Unit, Unit) = price
  BY DEF Truncated, Unit
<1>3. Truncated(price * (Unit - y), Unit) <= Truncated(price * (Unit - x), Unit)
  BY <1>1, TruncatedMonotone
<1>4. Truncated(price * (Unit - x), Unit) <= price
  BY <1>1, <1>2, TruncatedMonotone
<1>5. /\ Truncated(price * (Unit - x), Unit) \in Int
      /\ Truncated(price * (Unit - y), Unit) \in Int
  BY <1>1, TruncatedMonotone
<1> QED
  BY <1>3, <1>4, <1>5 DEF Below

LEMMA AboveMonotone ==
    ASSUME NEW price \in Nat, NEW x \in Nat, NEW y \in Nat, x <= y
    PROVE  /\ Above(price, x) \in Int /\ Above(price, y) \in Int
           /\ Above(price, x) <= Above(price, y)
           /\ price <= Above(price, x)
<1>1. /\ price * (Unit + y) \in Int /\ price * (Unit + x) \in Int /\ price * Unit \in Int
      /\ price * (Unit + x) <= price * (Unit + y)
      /\ price * Unit <= price * (Unit + x)
  <2>1. price * x <= price * y /\ price * x \in Nat /\ price * y \in Nat
    OBVIOUS
  <2>2. price * (Unit + y) = price * Unit + price * y
    BY DEF Unit
  <2>3. price * (Unit + x) = price * Unit + price * x
    BY DEF Unit
  <2> QED
    BY <2>1, <2>2, <2>3 DEF Unit
<1>2. Truncated(price * Unit, Unit) = price
  BY DEF Truncated, Unit
<1>3. Truncated(price * (Unit + x), Unit) <= Truncated(price * (Unit + y), Unit)
  BY <1>1, TruncatedMonotone
<1>4. price <= Truncated(price * (Unit + x), Unit)
  BY <1>1, <1>2, TruncatedMonotone
<1>5. /\ Truncated(price * (Unit + x), Unit) \in Int
      /\ Truncated(price * (Unit + y), Unit) \in Int
  BY <1>1, TruncatedMonotone
<1> QED
  BY <1>3, <1>4, <1>5 DEF Above
-----------------------------------------------------------------------------
(* The aggressive strategy's prices.                                       *)

LEMMA LastMatch ==
    ASSUME NEW matches \in SUBSET (1 .. 5), matches # {}
    PROVE  /\ Aggressive!Max(matches) \in matches
           /\ Points!Max(matches) \in matches
           /\ Martingale!Max(matches) \in matches
<1>1. \E m \in matches : \A n \in matches : m >= n
  <2>1. \A m \in matches : m = 1 \/ m = 2 \/ m = 3 \/ m = 4 \/ m = 5
    OBVIOUS
  <2>2. CASE 5 \in matches
    BY <2>1, <2>2
  <2>3. CASE 5 \notin matches /\ 4 \in matches
    BY <2>1, <2>3
  <2>4. CASE 5 \notin matches /\ 4 \notin matches /\ 3 \in matches
    BY <2>1, <2>4
  <2>5. CASE 5 \notin matches /\ 4 \notin matches /\ 3 \notin matches /\ 2 \in matches
    BY <2>1, <2>5
  <2>6. CASE \A m \in matches : m = 1
    <3>1. PICK m \in matches : TRUE
      OBVIOUS
    <3> QED
      BY <2>6, <3>1
  <2> QED
    BY <2>1, <2>2, <2>3, <2>4, <2>5, <2>6
<1> QED
  BY <1>1 DEF Aggressive!Max, Points!Max, Martingale!Max

LEMMA AggressiveOffset ==
    ASSUME NEW s, s.initialOffset \in Nat, NEW exposure
    PROVE  Aggressive!SteppedOffset(s, exposure) \in Nat
<1> DEFINE further == {i \in Aggressive!Crossed(exposure, s.target * Scale, Aggressive!Thresholds, 10) :
                          Aggressive!NeutralityOffsets[i] > s.initialOffset}
<1>1. further \subseteq 1 .. 5
  BY DEF Aggressive!Crossed, Aggressive!Thresholds
<1>2. CASE further = {}
  BY <1>2 DEF Aggressive!SteppedOffset
<1>3. CASE further # {}
  <2>1. Aggressive!Max(further) \in 1 .. 5
    BY <1>1, <1>3, LastMatch
  <2>2. Aggressive!NeutralityOffsets[Aggressive!Max(further)] \in Nat
    BY <2>1 DEF Aggressive!NeutralityOffsets
  <2> QED
    BY <1>3, <2>2 DEF Aggressive!SteppedOffset, Aggressive!LastOf
<1> QED
  BY <1>2, <1>3

\* The quotes of a round: the references, moved outwards.
LEMMA AggressivePrices ==
    ASSUME ReadInv, strategy.kind = "aggressive"
    PROVE  LET bidRef == Aggressive!BidReference(r, reducing)
               askRef == Aggressive!AskReference(r, reducing)
               bidOff == Aggressive!BidOffset(strategy, r, reducing)
               askOff == Aggressive!AskOffset(strategy, r, reducing)
           IN  /\ bidRef \in Nat /\ askRef \in Nat /\ bidOff \in Nat /\ askOff \in Nat
               /\ reducing /\ Aggressive!Long(r) =>
                      bidRef = r.book.bid /\ bidOff >= Aggressive!TakerOffset
               /\ reducing /\ ~Aggressive!Long(r) =>
                      askRef = r.book.ask /\ askOff >= Aggressive!TakerOffset
               /\ PricesOf(OurBids) = {Below(bidRef, bidOff)}
               /\ PricesOf(OurAsks) = {Above(askRef, askOff)}
<1>1. strategy.initialOffset \in Nat
  BY RoundAssumption DEF ReadInv
<1>2. /\ Aggressive!SteppedOffset(strategy, Exposure(r)) \in Nat
      /\ Aggressive!SteppedOffset(strategy, -Exposure(r)) \in Nat
  BY <1>1, AggressiveOffset
<1>3. /\ Aggressive!BidOffset(strategy, r, reducing) \in Nat
      /\ Aggressive!AskOffset(strategy, r, reducing) \in Nat
      /\ reducing /\ Aggressive!Long(r) =>
             Aggressive!BidOffset(strategy, r, reducing) >= Aggressive!TakerOffset
      /\ reducing /\ ~Aggressive!Long(r) =>
             Aggressive!AskOffset(strategy, r, reducing) >= Aggressive!TakerOffset
  BY <1>2 DEF Aggressive!BidOffset, Aggressive!AskOffset, Aggressive!TakerOffset,
              Aggressive!Exposure, Exposure
<1>4. /\ Aggressive!BidReference(r, reducing) \in Nat
      /\ Aggressive!AskReference(r, reducing) \in Nat
      /\ reducing /\ Aggressive!Long(r) => Aggressive!BidReference(r, reducing) = r.book.bid
      /\ reducing /\ ~Aggressive!Long(r) => Aggressive!AskReference(r, reducing) = r.book.ask
  BY DEF ReadInv, Aggressive!BidReference, Aggressive!AskReference,
       Aggressive!Larger, Aggressive!Smaller
<1>5. ASSUME NEW side, NEW price, NEW size
      PROVE  PricesOf(<<Aggressive!Order(side, price, size)>>) = {price}
  BY DEF PricesOf, Aggressive!Order
<1>6. /\ \A p, o : Aggressive!Below(p, o) = Below(p, o)
      /\ \A p, o : Aggressive!Above(p, o) = Above(p, o)
  BY DEF Aggressive!Below, Aggressive!Above, Aggressive!Truncated, Aggressive!Unit,
         Below, Above, Truncated, Unit
<1>7. /\ PricesOf(OurBids) = {Below(Aggressive!BidReference(r, reducing),
                                   Aggressive!BidOffset(strategy, r, reducing))}
      /\ PricesOf(OurAsks) = {Above(Aggressive!AskReference(r, reducing),
                                   Aggressive!AskOffset(strategy, r, reducing))}
  BY <1>5, <1>6 DEF OurBids, OurAsks, Aggressive!Bids, Aggressive!Asks
<1> QED
  BY <1>3, <1>4, <1>7

\* The bid of a batch is never above its ask, for any options, books and
\* positions, where the two Binance prices are ordered.
THEOREM OrderedQuotes == Spec => []QuotesOrdered
<1>1. ASSUME ReadInv PROVE QuotesOrdered
  <2> SUFFICES ASSUME Priced("aggressive"), r.binanceBid <= r.binanceAsk,
                      NEW bid \in PricesOf(OurBids), NEW ask \in PricesOf(OurAsks)
               PROVE  bid <= ask
    BY DEF QuotesOrdered
  <2> DEFINE bidRef == Aggressive!BidReference(r, reducing)
             askRef == Aggressive!AskReference(r, reducing)
  <2>1. /\ bid \in Int /\ bid <= bidRef /\ ask \in Int /\ askRef <= ask
        /\ bidRef \in Nat /\ askRef \in Nat
    BY <1>1, AggressivePrices, BelowMonotone, AboveMonotone DEF Priced
  <2>2. bidRef <= askRef
    BY <1>1 DEF ReadInv, Aggressive!BidReference, Aggressive!AskReference, Aggressive!Larger,
                Aggressive!Smaller, Aggressive!Long, Aggressive!Exposure
  <2> QED
    BY <2>1, <2>2
<1>2. ReadInv => QuotesOrdered
  BY <1>1
<1> QED
  BY <1>2, ReadsKept, PTL

\* The volume that was read decides about the side of a reduction.
LEMMA ReducingSide ==
    ASSUME ReadInv, reducing, strategy.kind # "martingale"
    PROVE  Exposure(r) \in Int /\ r.volume # 0 /\ (Exposure(r) > 0 <=> r.volume > 0)
<1>1. /\ r.volume \in Int /\ r.entry \in Nat
      /\ Size(Exposure(r)) > strategy.threshold * Scale
  BY DEF ReadInv, Excess
<1>2. Exposure(r) \in Int
  BY <1>1 DEF Exposure
<1>3. strategy.threshold * Scale \in Nat
  BY RoundAssumption, ScaleAssumption DEF ReadInv
<1>4. Exposure(r) # 0
  BY <1>1, <1>2, <1>3, SizeNat
<1> QED
  BY <1>1, <1>2, <1>4, ProductSign DEF Exposure

\* A batch that closes a part of a position does not open it again at a
\* better price for the other side, for any options, books and positions.
THEOREM NeverBuysBack == Spec => []NoBuyBack
<1>1. ASSUME ReadInv PROVE NoBuyBack
  <2> SUFFICES ASSUME Priced("aggressive"), reducing
               PROVE  IF r.volume > 0
                      THEN \A bid \in PricesOf(OurBids) : bid <= Reduction.price
                      ELSE \A ask \in PricesOf(OurAsks) : ask >= Reduction.price
    BY DEF NoBuyBack
  <2> DEFINE bidOff == Aggressive!BidOffset(strategy, r, reducing)
             askOff == Aggressive!AskOffset(strategy, r, reducing)
  <2>1. Aggressive!Long(r) <=> r.volume > 0
    BY <1>1, ReducingSide DEF Priced, Aggressive!Long, Aggressive!Exposure, Exposure
  <2>2. r.book.bid \in Nat /\ r.book.ask \in Nat
    BY <1>1 DEF ReadInv
  <2>3. CASE r.volume > 0
    <3>1. Reduction.price = Below(r.book.bid, Aggressive!TakerOffset)
      BY <2>1, <2>3 DEF Priced, Reduction, Aggressive!Reduction, Aggressive!Order,
         Aggressive!Below, Aggressive!Truncated, Aggressive!Unit, Below, Truncated, Unit
    <3>2. /\ PricesOf(OurBids) = {Below(r.book.bid, bidOff)}
          /\ bidOff \in Nat /\ bidOff >= Aggressive!TakerOffset
      BY <1>1, <2>1, <2>3, AggressivePrices DEF Priced
    <3>3. Below(r.book.bid, bidOff) <= Below(r.book.bid, Aggressive!TakerOffset)
      BY <2>2, <3>2, BelowMonotone DEF Aggressive!TakerOffset
    <3> QED
      BY <2>3, <3>1, <3>2, <3>3
  <2>4. CASE ~(r.volume > 0)
    <3>1. Reduction.price = Above(r.book.ask, Aggressive!TakerOffset)
      BY <2>1, <2>4 DEF Priced, Reduction, Aggressive!Reduction, Aggressive!Order,
         Aggressive!Above, Aggressive!Truncated, Aggressive!Unit, Above, Truncated, Unit
    <3>2. /\ PricesOf(OurAsks) = {Above(r.book.ask, askOff)}
          /\ askOff \in Nat /\ askOff >= Aggressive!TakerOffset
      BY <1>1, <2>1, <2>4, AggressivePrices DEF Priced
    <3>3. Above(r.book.ask, Aggressive!TakerOffset) <= Above(r.book.ask, askOff)
          /\ Above(r.book.ask, Aggressive!TakerOffset) \in Int
          /\ Above(r.book.ask, askOff) \in Int
      BY <2>2, <3>2, AboveMonotone DEF Aggressive!TakerOffset
    <3> QED
      BY <2>4, <3>1, <3>2, <3>3
  <2> QED
    BY <2>3, <2>4
<1>2. ReadInv => NoBuyBack
  BY <1>1
<1> QED
  BY <1>2, ReadsKept, PTL

\* A reduction closes at most the volume that was read, on the closing side,
\* for any position and any entry price read after it.
THEOREM ReductionsShrink == Spec => []ReductionShrinks
<1>1. ASSUME ReadInv PROVE ReductionShrinks
  <2> SUFFICES ASSUME Priced("aggressive") \/ Priced("points"), reducing
               PROVE  /\ Reduction.size <= Size(r.volume)
                      /\ r.volume > 0 => Reduction.side = "sell"
                      /\ r.volume < 0 => Reduction.side = "buy"
    BY DEF ReductionShrinks
  <2>1. /\ Exposure(r) > 0 <=> r.volume > 0
        /\ r.volume \in Int /\ Size(r.volume) \in Nat
        /\ strategy.reductionFactor \in 0 .. 1000
    BY <1>1, ReducingSide, SizeNat, RoundAssumption DEF Priced, ReadInv
  <2> DEFINE Part(part) == (Size(r.volume) * part) \div 1000
  <2>2. \A part \in 0 .. 1000 : Part(part) <= Size(r.volume)
    BY <2>1, PartOf
  <2>3. CASE Priced("points")
    <3>1. /\ Reduction.size = Part(strategy.reductionFactor)
          /\ Reduction.side = IF Exposure(r) > 0 THEN "sell" ELSE "buy"
      BY <2>3 DEF Priced, Reduction, Points!Reduction, Points!Long, Points!Exposure,
         Points!Size, Points!Order, Exposure, Size
    <3>2. Reduction.size <= Size(r.volume)
      <4> HIDE DEF Part
      <4> QED
        BY <2>1, <2>2, <3>1
    <3>3. /\ r.volume > 0 => Reduction.side = "sell"
          /\ r.volume < 0 => Reduction.side = "buy"
      <4>1. r.volume < 0 => ~(Exposure(r) > 0)
        BY <2>1
      <4> QED
        BY <2>1, <3>1, <4>1, Zenon
    <3> QED
      BY <3>2, <3>3
  <2>4. CASE Priced("aggressive")
    <3>1. \E part \in {1000, strategy.reductionFactor} :
             Reduction.size = Part(part)
      BY <2>4 DEF Priced, Reduction, Aggressive!Reduction, Aggressive!Size,
         Aggressive!Order, Size
    <3>2. Reduction.side = IF Exposure(r) > 0 THEN "sell" ELSE "buy"
      BY <2>4 DEF Priced, Reduction, Aggressive!Reduction, Aggressive!Long,
         Aggressive!Exposure, Aggressive!Order, Exposure
    <3>3. Reduction.size <= Size(r.volume)
      <4> HIDE DEF Part
      <4>1. PICK part \in {1000, strategy.reductionFactor} :
               Reduction.size = Part(part)
        BY <3>1
      <4>2. part \in 0 .. 1000
        BY <2>1
      <4> QED
        BY <2>2, <4>1, <4>2
    <3> QED
      BY <2>1, <3>2, <3>3
  <2> QED
    BY <2>3, <2>4
<1>2. ReadInv => ReductionShrinks
  BY <1>1
<1> QED
  BY <1>2, ReadsKept, PTL
-----------------------------------------------------------------------------
(* The types.                                                              *)

\* No getter is called twice in a round.
LEMMA FieldsApart ==
    ASSUME strategy \in Strategies
    PROVE  /\ Len(Reads(strategy.kind)) \in Nat
           /\ \A m, n \in 1 .. Len(Reads(strategy.kind)) :
                 Reads(strategy.kind)[m] = Reads(strategy.kind)[n] => m = n
<1>1. CASE strategy.kind = "aggressive"
  BY <1>1 DEF Reads, Aggressive!Reads
<1>2. CASE strategy.kind = "points"
  BY <1>2 DEF Reads, Points!Reads
<1>3. CASE strategy.kind = "martingale"
  BY <1>3 DEF Reads, Martingale!Reads
<1> QED
  BY <1>1, <1>2, <1>3, RoundAssumption

ReductionTypes ==
    /\ reducing \in BOOLEAN
    /\ receiver \in {"ready", "took"}
    /\ waitingToReduce \in BOOLEAN
    /\ reduceExposureThisCycle \in BOOLEAN
    /\ ranOut \in BOOLEAN

\* What the calls made so far have returned.
ReadSoFar ==
    /\ done <= Len(Reads(strategy.kind))
    /\ \A k \in 1 .. done : r[Reads(strategy.kind)[k]] \in Returned(Reads(strategy.kind)[k])

LEMMA ReadSoFarKept ==
    ASSUME ReadInv, ReadSoFar, Read
    PROVE  ReadSoFar'
<1> DEFINE reads == Reads(strategy.kind)
           f == reads[done + 1]
<1>1. /\ Len(reads) \in Nat /\ \A m, n \in 1 .. Len(reads) : reads[m] = reads[n] => m = n
      /\ \A n \in 1 .. Len(reads) : reads[n] \in Fields
  BY FieldsApart, NextField DEF ReadInv
<1>2. PICK v \in Returned(f) : r' = [r EXCEPT ![f] = v]
  BY DEF Read
<1>3. done < Len(reads) /\ done' = done + 1 /\ done \in Nat /\ strategy' = strategy
  BY DEF Read, ReadInv
<1>4. done + 1 \in 1 .. Len(reads)
  BY <1>1, <1>3
<1>5. reads' = reads
  BY <1>3
<1>6. \A k \in 1 .. done + 1 : r'[reads[k]] \in Returned(reads[k])
  <2> SUFFICES ASSUME NEW k \in 1 .. done + 1 PROVE r'[reads[k]] \in Returned(reads[k])
    OBVIOUS
  <2>1. k \in 1 .. Len(reads) /\ reads[k] \in DOMAIN r
    BY <1>1, <1>3 DEF ReadInv
  <2>2. CASE k = done + 1
    BY <1>2, <2>1, <2>2
  <2>3. CASE k # done + 1
    <3>1. reads[k] # f /\ k \in 1 .. done
      BY <1>1, <1>3, <1>4, <2>1, <2>3
    <3>2. r[reads[k]] \in Returned(reads[k])
      BY <3>1 DEF ReadSoFar
    <3> QED
      BY <1>2, <2>1, <3>1, <3>2
  <2> QED
    BY <2>2, <2>3
<1>7. \A x : Returned(x)' = Returned(x)
  BY DEF Returned
<1> QED
  BY <1>1, <1>3, <1>5, <1>6, <1>7 DEF ReadSoFar

LEMMA TypesKept == Spec => [](ReductionTypes /\ ReadSoFar)
<1>1. Init => ReductionTypes /\ ReadSoFar
  <2> SUFFICES ASSUME Init PROVE ReductionTypes /\ ReadSoFar
    OBVIOUS
  <2>1. strategy \in Strategies /\ done = 0
    BY DEF Init
  <2>2. Len(Reads(strategy.kind)) \in Nat
    BY <2>1, FieldsApart
  <2> QED
    <3>1. ReductionTypes
      BY DEF Init, ReductionInit, ReductionTypes
    <3>2. ReadSoFar
      BY <2>1, <2>2 DEF ReadSoFar
    <3> QED
      BY <3>1, <3>2
<1>2. ReductionTypes /\ [Next]_vars => ReductionTypes'
  <2> SUFFICES ASSUME ReductionTypes, [Next]_vars PROVE ReductionTypes'
    OBVIOUS
  <2>1. CASE Round \/ UNCHANGED vars
    BY <2>1 DEF Round, Read, FindsNoPrice, Panics, GoesOn, Asks, NotArmed, FindsArmed, Resets, Reports, Hands,
       Ask, Uses, Goes, ReductionTypes, reductionVars, vars
  <2>2. CASE ReceiverStep
    BY <2>2 DEF ReceiverStep, Receiver, IgnoresAsk, StartsTimer, ReductionTypes, roundVars
  <2>3. CASE \E t \in Timers : TimerStep(t)
    BY <2>3 DEF TimerStep, Timer, Arms, Releases, ReductionTypes, roundVars
  <2> QED
    BY <2>1, <2>2, <2>3 DEF Next
<1>3. ReadInv /\ ReadSoFar /\ [Next]_vars => ReadSoFar'
  <2> SUFFICES ASSUME ReadInv, ReadSoFar, [Next]_vars PROVE ReadSoFar'
    OBVIOUS
  <2>1. CASE UNCHANGED <<strategy, done, r>>
    BY <2>1 DEF ReadSoFar
  <2>2. CASE Read
    BY <2>2, ReadSoFarKept
  <2>3. CASE Hands
    <3>1. strategy' = strategy /\ done' = 0
      BY <2>3 DEF Hands
    <3>2. Len(Reads(strategy.kind)) \in Nat
      BY FieldsApart DEF ReadInv
    <3> QED
      BY <3>1, <3>2 DEF ReadSoFar
  <2>4. CASE \/ FindsNoPrice \/ Panics \/ GoesOn \/ Asks \/ NotArmed \/ FindsArmed
             \/ Resets \/ Reports
    BY <2>1, <2>4 DEF FindsNoPrice, Panics, GoesOn, Asks, NotArmed, FindsArmed, Resets, Reports,
       Goes
  <2>5. CASE ReceiverStep \/ (\E t \in Timers : TimerStep(t)) \/ UNCHANGED vars
    BY <2>1, <2>5 DEF ReceiverStep, TimerStep, roundVars, vars
  <2> QED
    BY <2>2, <2>3, <2>4, <2>5 DEF Next, Round
<1> QED
  BY <1>1, <1>2, <1>3, ReadsKept, PTL DEF Spec

\* The types of the round and of the two flags, and that what a round has
\* read so far came from the getters of its strategy, in their order.
THEOREM TypeCorrect == Spec => []TypeOK
<1>1. ASSUME PaceInv, ReadInv, ReductionTypes, ReadSoFar PROVE TypeOK
  <2>1. done \in 0 .. Len(Reads(strategy.kind))
    BY <1>1, FieldsApart DEF ReadInv, ReadSoFar
  <2> QED
    BY <1>1, <2>1 DEF PaceInv, ReadInv, ReductionTypes, ReadSoFar, TypeOK
<1>2. PaceInv /\ ReadInv /\ ReductionTypes /\ ReadSoFar => TypeOK
  BY <1>1
<1> QED
  BY <1>2, PaceKept, ReadsKept, TypesKept, PTL
-----------------------------------------------------------------------------
(* Sums and powers: a recursive function on numbers or sets exists, and    *)
(* what holds step by step holds of it.                                    *)

\* A set of numbers has a least one: what induction comes to here.
LEMMA LeastOf ==
    ASSUME NEW T, T \subseteq Nat, T # {}
    PROVE  \E n \in T : \A m \in T : n <= m
<1>1. PICK n \in T : \A m \in T : ~(<<m, n>> \in OpToRel(<, Nat))
  BY NatLessThanWellFounded, WFMin
<1>2. \A m \in T : ~(m < n)
  BY <1>1 DEF OpToRel
<1> QED
  BY <1>2

\* A function that is defined step by step up to some number.
Steps(first, next, n) ==
    \E g \in [0 .. n -> Nat] :
        g[0] = first /\ \A k \in 0 .. n : k # 0 => g[k] = next[<<k, g[k - 1]>>]

LEMMA Stepwise ==
    ASSUME NEW first \in Nat, NEW next \in [Nat \X Nat -> Nat], NEW n \in Nat
    PROVE  Steps(first, next, n)
<1> DEFINE Has(m) == \E g \in [0 .. m -> Nat] :
              g[0] = first /\ \A k \in 0 .. m : k # 0 => g[k] = next[<<k, g[k - 1]>>]
           Lacking == {m \in Nat : ~Has(m)}
<1> SUFFICES ASSUME Lacking # {} PROVE FALSE
  BY DEF Steps
<1>1. PICK m \in Lacking : \A l \in Lacking : m <= l
  <2> HIDE DEF Lacking
  <2>1. Lacking \subseteq Nat
    BY DEF Lacking
  <2> QED
    BY <2>1, LeastOf
<1>2. CASE m = 0
  <2>1. Has(0)
    <3> DEFINE g == [k \in 0 .. 0 |-> first]
    <3>1. g \in [0 .. 0 -> Nat] /\ g[0] = first /\ \A k \in 0 .. 0 : k = 0
      OBVIOUS
    <3> QED
      BY <3>1
  <2> QED
    BY <1>2, <2>1
<1>3. CASE m # 0
  <2>1. m \in Nat /\ m - 1 \in Nat
    BY <1>3
  <2>2. Has(m - 1)
    <3> HIDE DEF Has
    <3>1. m - 1 \in Lacking => m <= m - 1
      BY <1>1, Zenon
    <3> QED
      BY <2>1, <3>1
  <2>3. PICK g \in [0 .. m - 1 -> Nat] :
           g[0] = first /\ \A k \in 0 .. m - 1 : k # 0 => g[k] = next[<<k, g[k - 1]>>]
    BY <2>2
  <2> DEFINE h == [k \in 0 .. m |-> IF k = m THEN next[<<m, g[m - 1]>>] ELSE g[k]]
  <2>4. h \in [0 .. m -> Nat]
    BY <2>1
  <2>5. h[0] = first /\ \A k \in 0 .. m - 1 : h[k] = g[k]
    BY <1>3, <2>1, <2>3
  <2>6. ASSUME NEW k \in 0 .. m, k # 0 PROVE h[k] = next[<<k, h[k - 1]>>]
    <3>1. k - 1 \in 0 .. m - 1
      BY <2>1, <2>6
    <3>2. CASE k = m
      BY <2>1, <2>5, <3>1, <3>2
    <3>3. CASE k # m
      BY <2>1, <2>3, <2>5, <2>6, <3>1, <3>3
    <3> QED
      BY <3>2, <3>3
  <2>7. Has(m)
    <3> HIDE DEF h
    <3> QED
      BY <2>4, <2>5, <2>6
  <2> QED
    BY <2>7
<1> QED
  BY <1>2, <1>3

\* What a fold over the subsets of a set computes.
Adds(f, S, sum) ==
    sum = [s \in SUBSET S |->
              IF s = {} THEN 0
              ELSE f[CHOOSE x \in s : TRUE] + sum[s \ {CHOOSE x \in s : TRUE}]]

SumOf(f, S) == (CHOOSE sum : Adds(f, S, sum))[S]

LEMMA OneLess ==
    ASSUME NEW S, IsFiniteSet(S), NEW s \in SUBSET S, NEW x \in s
    PROVE  /\ s \ {x} \in SUBSET S
           /\ Cardinality(s) \in Nat /\ Cardinality(s) # 0
           /\ Cardinality(s \ {x}) = Cardinality(s) - 1
<1>1. IsFiniteSet(s) /\ Cardinality(s) \in Nat
  BY FS_Subset, FS_CardinalityType
<1>2. Cardinality(s) # 0
  BY <1>1, FS_EmptySet
<1> QED
  BY <1>1, <1>2, FS_RemoveElement

LEMMA AddsExists ==
    ASSUME NEW S, IsFiniteSet(S), NEW f
    PROVE  \E sum : Adds(f, S, sum)
<1> DEFINE Upto(n) == {s \in SUBSET S : Cardinality(s) <= n}
           AddsUpto(n, sum) ==
              sum = [s \in Upto(n) |->
                        IF s = {} THEN 0
                        ELSE f[CHOOSE x \in s : TRUE] + sum[s \ {CHOOSE x \in s : TRUE}]]
           Lacking == {n \in Nat : ~\E sum : AddsUpto(n, sum)}
<1>1. Lacking = {}
  <2> SUFFICES ASSUME Lacking # {} PROVE FALSE
    OBVIOUS
  <2>1. PICK m \in Lacking : \A l \in Lacking : m <= l
    <3>1. Lacking \subseteq Nat
      OBVIOUS
    <3> HIDE DEF Lacking
    <3> QED
      BY <3>1, LeastOf
  <2>2. m \in Nat /\ ~\E sum : AddsUpto(m, sum)
    OBVIOUS
  <2>3. CASE m = 0
    <3> DEFINE none == [s \in Upto(0) |-> 0]
    <3>1. \A s \in Upto(0) : s = {}
      <4> SUFFICES ASSUME NEW s \in SUBSET S, Cardinality(s) <= 0, s # {} PROVE FALSE
        OBVIOUS
      <4>1. PICK x \in s : TRUE
        OBVIOUS
      <4>2. Cardinality(s) \in Nat /\ Cardinality(s) # 0
        BY <4>1, OneLess
      <4> QED
        BY <4>2
    <3>2. AddsUpto(0, none)
      BY <3>1
    <3> QED
      BY <2>2, <2>3, <3>2
  <2>4. CASE m # 0
    <3>1. m - 1 \in Nat /\ m - 1 \notin Lacking
      <4> HIDE DEF Lacking
      <4>1. m - 1 \in Lacking => m <= m - 1
        BY <2>1, Zenon
      <4> QED
        BY <2>2, <2>4, <4>1
    <3>2. PICK sum : AddsUpto(m - 1, sum)
      BY <3>1
    <3> DEFINE more == [s \in Upto(m) |->
                           IF s = {} THEN 0
                           ELSE f[CHOOSE x \in s : TRUE] + sum[s \ {CHOOSE x \in s : TRUE}]]
    <3>3. \A s \in Upto(m - 1) : s \in Upto(m) /\ more[s] = sum[s]
      <4> SUFFICES ASSUME NEW s \in Upto(m - 1) PROVE s \in Upto(m) /\ more[s] = sum[s]
        OBVIOUS
      <4>1. Cardinality(s) \in Nat
        BY FS_Subset, FS_CardinalityType
      <4>2. s \in Upto(m)
        BY <2>2, <4>1
      <4>3. sum[s] = IF s = {} THEN 0
                     ELSE f[CHOOSE x \in s : TRUE] + sum[s \ {CHOOSE x \in s : TRUE}]
        <5> HIDE DEF Upto
        <5> QED
          BY <3>2
      <4> QED
        BY <4>2, <4>3
    <3>4. \A s \in Upto(m) : s # {} => s \ {CHOOSE x \in s : TRUE} \in Upto(m - 1)
      <4> SUFFICES ASSUME NEW s \in Upto(m), s # {}
                   PROVE  s \ {CHOOSE x \in s : TRUE} \in Upto(m - 1)
        OBVIOUS
      <4>1. (CHOOSE x \in s : TRUE) \in s
        OBVIOUS
      <4> DEFINE y == CHOOSE x \in s : TRUE
      <4> HIDE DEF y
      <4>2. y \in s
        BY <4>1 DEF y
      <4>3. s \ {y} \in Upto(m - 1)
        BY <2>2, <4>2, OneLess
      <4> QED
        BY <4>3 DEF y
    <3>5. AddsUpto(m, more)
      <4> HIDE DEF Upto
      <4>1. ASSUME NEW s \in Upto(m)
            PROVE  more[s] = IF s = {} THEN 0
                             ELSE f[CHOOSE x \in s : TRUE] + more[s \ {CHOOSE x \in s : TRUE}]
        <5>1. CASE s = {}
          BY <5>1
        <5>2. CASE s # {}
          <6>1. more[s \ {CHOOSE x \in s : TRUE}] = sum[s \ {CHOOSE x \in s : TRUE}]
            <7> HIDE DEF more
            <7> QED
              BY <3>3, <3>4, <5>2
          <6>2. more[s] = f[CHOOSE x \in s : TRUE] + sum[s \ {CHOOSE x \in s : TRUE}]
            BY <5>2
          <6> HIDE DEF more
          <6> QED
            BY <5>2, <6>1, <6>2
        <5> QED
          BY <5>1, <5>2
      <4>2. more = [s \in Upto(m) |-> more[s]]
        OBVIOUS
      <4> HIDE DEF more
      <4> QED
        BY <4>1, <4>2, Zenon
    <3> HIDE DEF more, AddsUpto
    <3> QED
      BY <2>2, <3>5
  <2> QED
    BY <2>3, <2>4
<1>2. Cardinality(S) \in Nat
  BY FS_CardinalityType
<1>3. PICK sum : AddsUpto(Cardinality(S), sum)
  BY <1>1, <1>2
<1>4. Upto(Cardinality(S)) = SUBSET S
  BY FS_Subset
<1>5. Adds(f, S, sum)
  <2> HIDE DEF Upto
  <2> QED
    BY <1>3, <1>4 DEF Adds
<1> QED
  BY <1>5

\* The order in which a sum is taken does not matter.
LEMMA AddsAll ==
    ASSUME NEW S, IsFiniteSet(S), NEW f, \A x \in S : f[x] \in Int,
           NEW sum, Adds(f, S, sum)
    PROVE  /\ sum[{}] = 0
           /\ \A s \in SUBSET S : sum[s] \in Int
           /\ \A s \in SUBSET S : \A x \in s : sum[s] = f[x] + sum[s \ {x}]
<1> DEFINE Right(s) == sum[s] \in Int /\ \A x \in s : sum[s] = f[x] + sum[s \ {x}]
           Wrong == {n \in Nat : \E s \in SUBSET S : Cardinality(s) = n /\ ~Right(s)}
<1>0. \A s \in SUBSET S : Cardinality(s) \in Nat
  BY FS_Subset, FS_CardinalityType
<1>1. sum[{}] = 0
  BY DEF Adds
<1>2. Wrong = {}
  <2> SUFFICES ASSUME Wrong # {} PROVE FALSE
    OBVIOUS
  <2>1. PICK n \in Wrong : \A l \in Wrong : n <= l
    <3>1. Wrong \subseteq Nat
      OBVIOUS
    <3> HIDE DEF Wrong
    <3> QED
      BY <3>1, LeastOf
  <2>2. PICK s \in SUBSET S : Cardinality(s) = n /\ ~Right(s)
    OBVIOUS
  <2>3. \A t \in SUBSET S : Cardinality(t) < n => Right(t)
    BY <1>0, <2>1
  <2>4. s # {}
    BY <1>1, <2>2
  <2> DEFINE y == CHOOSE x \in s : TRUE
  <2>5. y \in s
    BY <2>4
  <2>6. sum[s] = f[y] + sum[s \ {y}]
    BY <2>4 DEF Adds
  <2> HIDE DEF y, Right
  <2>7. \A x \in s : s \ {x} \in SUBSET S /\ Right(s \ {x})
    <3>1. n \in Nat
      BY <2>1
    <3> QED
      BY <2>2, <2>3, <3>1, OneLess
  <2>8. \A x \in s : f[x] \in Int /\ sum[s \ {x}] \in Int
    BY <2>7 DEF Right
  <2>9. ASSUME NEW x \in s PROVE sum[s] = f[x] + sum[s \ {x}]
    <3>1. CASE x = y
      BY <2>6, <3>1
    <3>2. CASE x # y
      <4>1. y \in s \ {x} /\ x \in s \ {y}
        BY <2>5, <3>2
      <4>2. /\ sum[s \ {x}] = f[y] + sum[(s \ {x}) \ {y}]
            /\ sum[s \ {y}] = f[x] + sum[(s \ {y}) \ {x}]
        BY <2>5, <2>7, <4>1 DEF Right
      <4>3. (s \ {x}) \ {y} = (s \ {y}) \ {x} /\ (s \ {x}) \ {y} \in SUBSET S
        OBVIOUS
      <4>4. sum[(s \ {x}) \ {y}] \in Int
        <5>1. Cardinality(s \ {x}) \in Nat /\ Cardinality((s \ {x}) \ {y}) < n
          <6>1. s \ {x} \in SUBSET S /\ Cardinality(s \ {x}) = n - 1 /\ n \in Nat
            BY <2>2, OneLess
          <6>2. Cardinality((s \ {x}) \ {y}) = Cardinality(s \ {x}) - 1
            BY <4>1, <6>1, OneLess
          <6> QED
            BY <1>0, <6>1, <6>2
        <5> QED
          BY <2>3, <4>3, <5>1 DEF Right
      <4> DEFINE z == sum[(s \ {x}) \ {y}]
      <4>5. /\ sum[s] = f[y] + sum[s \ {y}] /\ sum[s \ {y}] = f[x] + z
            /\ sum[s \ {x}] = f[y] + z
            /\ z \in Int /\ f[x] \in Int /\ f[y] \in Int
        BY <2>5, <2>6, <2>8, <4>2, <4>3, <4>4
      <4> HIDE DEF z
      <4> QED
        BY <4>5
    <3> QED
      BY <3>1, <3>2
  <2>10. sum[s] \in Int
    BY <2>5, <2>6, <2>8
  <2> QED
    BY <2>2, <2>9, <2>10 DEF Right
<1>3. ASSUME NEW s \in SUBSET S PROVE Right(s)
  BY <1>0, <1>2
<1> QED
  BY <1>1, <1>3

\* The sums of the first numbers of f.
SumsUp(f, a, b, sum) ==
    /\ a \in Int /\ b \in Int
    /\ \A i \in a .. b : f[i] \in Int
    /\ Adds(f, a .. b, sum)

LEMMA PrefixSums ==
    ASSUME NEW f, NEW a, NEW b, NEW sum, SumsUp(f, a, b, sum)
    PROVE  /\ sum[a .. a - 1] = 0
           /\ \A m \in a .. b : sum[a .. m] = f[m] + sum[a .. m - 1]
<1>0. a \in Int /\ b \in Int /\ (\A i \in a .. b : f[i] \in Int) /\ Adds(f, a .. b, sum)
  BY DEF SumsUp
<1>1. IsFiniteSet(a .. b)
  BY <1>0, FS_Interval
<1>2. /\ sum[{}] = 0
      /\ \A s \in SUBSET (a .. b) : \A x \in s : sum[s] = f[x] + sum[s \ {x}]
  <2> DEFINE S == a .. b
  <2>1. IsFiniteSet(S) /\ (\A i \in S : f[i] \in Int) /\ Adds(f, S, sum)
    BY <1>0, <1>1
  <2> HIDE DEF S
  <2>2. /\ sum[{}] = 0
        /\ \A s \in SUBSET S : \A x \in s : sum[s] = f[x] + sum[s \ {x}]
    BY <2>1, AddsAll
  <2> QED
    BY <2>2 DEF S
<1>3. sum[a .. a - 1] = 0
  <2>1. a .. a - 1 = {}
    BY <1>0
  <2> QED
    BY <1>2, <2>1
<1>4. ASSUME NEW m \in a .. b PROVE sum[a .. m] = f[m] + sum[a .. m - 1]
  <2>1. a .. m \in SUBSET (a .. b) /\ m \in a .. m
    BY <1>0
  <2>2. (a .. m) \ {m} = a .. m - 1
    BY <1>0
  <2>3. sum[a .. m] = f[m] + sum[(a .. m) \ {m}]
    BY <1>2, <2>1, Zenon
  <2> QED
    BY <2>2, <2>3
<1> QED
  BY <1>3, <1>4

\* What holds at 0 and goes from each number to the next holds up to n.
LEMMA UpTo ==
    ASSUME NEW n \in Nat, NEW T, 0 \in T, \A k \in 0 .. n - 1 : k \in T => k + 1 \in T
    PROVE  \A k \in 0 .. n : k \in T
<1> DEFINE Wrong == {k \in 0 .. n : k \notin T}
<1> SUFFICES ASSUME Wrong # {} PROVE FALSE
  OBVIOUS
<1>1. PICK m \in Wrong : \A l \in Wrong : m <= l
  <2>1. Wrong \subseteq Nat
    OBVIOUS
  <2> HIDE DEF Wrong
  <2> QED
    BY <2>1, LeastOf
<1>2. m \in 1 .. n
  OBVIOUS
<1>3. m - 1 \in T
  <2>1. m - 1 \in Wrong => m <= m - 1
    <3> HIDE DEF Wrong
    <3> QED
      BY <1>1, Zenon
  <2> QED
    BY <1>2, <2>1
<1>4. m \in T
  <2>1. m - 1 \in 0 .. n - 1 /\ (m - 1) + 1 = m
    BY <1>2
  <2> QED
    BY <1>3, <2>1
<1> QED
  BY <1>4

\* One more order of size x, after orders of size y.
LEMMA OneMoreOrder ==
    ASSUME NEW amount \in Nat, NEW x \in Nat, NEW y \in Nat
    PROVE  /\ Larger(0, Larger(0, amount - y) - x) = Larger(0, amount - (x + y))
           /\ Larger(0, x - Larger(0, amount - y)) + Larger(0, y - amount)
                 = Larger(0, (x + y) - amount)
  BY DEF Larger

\* Order by order, left is what the orders before have not taken up of an
\* amount, and g what that leaves of the sizes f; they add up to fsum, gsum.
Carries(n, amount, f, left, g, fsum, gsum) ==
    /\ n \in Nat /\ amount \in Nat
    /\ left[0] = amount
    /\ \A i \in 0 .. n - 1 :
          /\ f[i] \in Nat
          /\ left[i + 1] = Larger(0, left[i] - f[i])
          /\ g[i] = Larger(0, f[i] - left[i])
    /\ Adds(f, 0 .. n - 1, fsum)
    /\ Adds(g, 0 .. n - 1, gsum)

\* The amount is taken off the sum of the ladder.
LEMMA CarriedOver ==
    ASSUME NEW n, NEW amount, NEW f, NEW left, NEW g, NEW fsum, NEW gsum,
           Carries(n, amount, f, left, g, fsum, gsum)
    PROVE  gsum[0 .. n - 1] = Larger(0, fsum[0 .. n - 1] - amount)
<1>0. /\ n \in Nat /\ amount \in Nat
      /\ left[0] = amount
      /\ \A i \in 0 .. n - 1 : f[i] \in Nat
      /\ \A i \in 0 .. n - 1 : left[i + 1] = Larger(0, left[i] - f[i])
      /\ \A i \in 0 .. n - 1 : g[i] = Larger(0, f[i] - left[i])
      /\ Adds(f, 0 .. n - 1, fsum) /\ Adds(g, 0 .. n - 1, gsum)
  BY Zenon DEF Carries
<1> DEFINE F(m) == fsum[0 .. m - 1]
           G(m) == gsum[0 .. m - 1]
           Holds(m) == /\ left[m] = Larger(0, amount - F(m))
                       /\ F(m) \in Nat
                       /\ G(m) = Larger(0, F(m) - amount)
           Good == {m \in 0 .. n : Holds(m)}
<1>1. \A i \in 0 .. n : left[i] \in Nat
  <2> DEFINE T == {i \in 0 .. n : left[i] \in Nat}
  <2>1. 0 \in T
    BY <1>0
  <2>2. ASSUME NEW k \in 0 .. n - 1, k \in T PROVE k + 1 \in T
    <3>1. left[k] \in Nat /\ f[k] \in Nat /\ k + 1 \in 0 .. n
      BY <1>0, <2>2
    <3>2. left[k + 1] = Larger(0, left[k] - f[k])
      BY <1>0
    <3>3. Larger(0, left[k] - f[k]) \in Nat
      BY <3>1 DEF Larger
    <3> QED
      BY <3>1, <3>2, <3>3
  <2>3. \A k \in 0 .. n : k \in T
    <3> HIDE DEF T
    <3> QED
      BY <1>0, <2>1, <2>2, UpTo
  <2> QED
    BY <1>0, <2>3
<1>2. \A i \in 0 .. n - 1 : f[i] \in Int /\ g[i] \in Int
  <2> SUFFICES ASSUME NEW i \in 0 .. n - 1 PROVE f[i] \in Int /\ g[i] \in Int
    OBVIOUS
  <2>1. left[i] \in Nat /\ f[i] \in Nat
    BY <1>0, <1>1
  <2>2. Larger(0, f[i] - left[i]) \in Int
    BY <1>0, <2>1 DEF Larger
  <2> QED
    BY <1>0, <2>1, <2>2
<1>3. /\ F(0) = 0
      /\ \A m \in 0 .. n - 1 : fsum[0 .. m] = f[m] + F(m)
  <2>1. SumsUp(f, 0, n - 1, fsum)
    BY <1>0, <1>2 DEF SumsUp
  <2> QED
    BY <2>1, PrefixSums
<1>4. /\ G(0) = 0
      /\ \A m \in 0 .. n - 1 : gsum[0 .. m] = g[m] + G(m)
  <2>1. SumsUp(g, 0, n - 1, gsum)
    BY <1>0, <1>2 DEF SumsUp
  <2> QED
    BY <2>1, PrefixSums
<1>5. \A m \in 0 .. n - 1 : (m + 1) - 1 = m
  BY <1>0
<1>6. \A m \in 0 .. n - 1 : F(m + 1) = f[m] + F(m) /\ G(m + 1) = g[m] + G(m)
  BY <1>3, <1>4, <1>5
<1>7. 0 \in Good
  <2> HIDE DEF F, G
  <2> QED
    BY <1>0, <1>3, <1>4 DEF Larger
<1>8. ASSUME NEW m \in 0 .. n - 1, m \in Good PROVE m + 1 \in Good
  <2>1. m \in 0 .. n /\ m + 1 \in 0 .. n /\ Holds(m)
    BY <1>0, <1>8
  <2>2. /\ left[m + 1] = Larger(0, left[m] - f[m]) /\ f[m] \in Nat
        /\ g[m] = Larger(0, f[m] - left[m])
    BY <1>0
  <2>3. F(m + 1) = f[m] + F(m) /\ G(m + 1) = g[m] + G(m)
    BY <1>6
  <2> HIDE DEF F, G, Good
  <2>4. F(m + 1) \in Nat
    BY <2>1, <2>2, <2>3
  <2>5. /\ Larger(0, Larger(0, amount - F(m)) - f[m]) = Larger(0, amount - (f[m] + F(m)))
        /\ Larger(0, f[m] - Larger(0, amount - F(m))) + Larger(0, F(m) - amount)
              = Larger(0, (f[m] + F(m)) - amount)
    <3>1. amount \in Nat /\ f[m] \in Nat /\ F(m) \in Nat
      BY <1>0, <2>1, <2>2
    <3> QED
      BY <3>1, OneMoreOrder, Zenon
  <2>6. Holds(m + 1)
    BY <2>1, <2>2, <2>3, <2>4, <2>5, Zenon
  <2> QED
    BY <2>1, <2>6 DEF Good
<1>9. n \in Good
  <2>1. \A m \in 0 .. n : m \in Good
    <3> HIDE DEF Good
    <3> QED
      BY <1>0, <1>7, <1>8, UpTo
  <2> QED
    BY <1>0, <2>1
<1> QED
  BY <1>0, <1>9

\* A power, and a product, of numbers that are not negative is not either.
LEMMA Product ==
    ASSUME NEW a \in Nat, NEW b \in Nat
    PROVE  a * b \in Nat /\ (a > 0 /\ b > 0 => a * b > 0)
  OBVIOUS

LEMMA PowerIsNat ==
    ASSUME NEW b \in Nat, NEW n \in Nat
    PROVE  /\ Martingale!Power(b, n) \in Nat
           /\ b > 0 => Martingale!Power(b, n) > 0
           /\ n = 0 => Martingale!Power(b, n) = 1
<1> DEFINE Is(power) == power = [k \in 0 .. n |-> IF k = 0 THEN 1 ELSE b * power[k - 1]]
           next == [p \in Nat \X Nat |-> b * p[2]]
<1>1. next \in [Nat \X Nat -> Nat]
  BY Product
<1>2. Steps(1, next, n)
  <2> HIDE DEF next
  <2>1. 1 \in Nat
    OBVIOUS
  <2> QED
    BY <1>1, <2>1, Stepwise
<1>3. PICK g \in [0 .. n -> Nat] :
         g[0] = 1 /\ \A k \in 0 .. n : k # 0 => g[k] = next[<<k, g[k - 1]>>]
  BY <1>2 DEF Steps
<1>4. ASSUME NEW k \in 0 .. n, k # 0 PROVE g[k] = b * g[k - 1]
  <2>1. k - 1 \in 0 .. n
    BY <1>4
  <2>2. <<k, g[k - 1]>> \in Nat \X Nat
    BY <2>1
  <2>3. next[<<k, g[k - 1]>>] = b * g[k - 1]
    BY <2>2
  <2> QED
    BY <1>3, <1>4, <2>3
<1>5. Is(g)
  BY <1>3, <1>4
<1> DEFINE power == CHOOSE f : Is(f)
<1>6. Is(power)
  BY <1>5
<1>7. Martingale!Power(b, n) = power[n]
  BY Zenon DEF Martingale!Power
<1> HIDE DEF power
<1>8. \A k \in 0 .. n : power[k] \in Nat /\ (b > 0 => power[k] > 0)
  <2> DEFINE T == {k \in 0 .. n : power[k] \in Nat /\ (b > 0 => power[k] > 0)}
  <2>1. 0 \in T
    BY <1>6
  <2>2. ASSUME NEW k \in 0 .. n - 1, k \in T PROVE k + 1 \in T
    <3>1. k + 1 \in 0 .. n /\ k + 1 # 0 /\ (k + 1) - 1 = k
      OBVIOUS
    <3>2. power[k + 1] = b * power[k]
      BY <1>6, <3>1
    <3>3. b * power[k] \in Nat /\ (b > 0 => b * power[k] > 0)
      BY <2>2, Product
    <3> QED
      BY <3>1, <3>2, <3>3
  <2>3. \A k \in 0 .. n : k \in T
    <3> HIDE DEF T
    <3> QED
      BY <2>1, <2>2, UpTo
  <2> QED
    BY <2>3
<1>9. power[0] = 1
  BY <1>6
<1> QED
  BY <1>7, <1>8, <1>9

\* The sum of numbers that are not negative is not negative.
LEMMA SumIsNat ==
    ASSUME NEW n \in Nat, NEW f, \A i \in 0 .. n - 1 : f[i] \in Nat
    PROVE  SumOf(f, 0 .. n - 1) \in Nat
<1> DEFINE sum == CHOOSE g : Adds(f, 0 .. n - 1, g)
<1>1. Adds(f, 0 .. n - 1, sum)
  <2>1. IsFiniteSet(0 .. n - 1)
    BY FS_Interval
  <2>2. \E g : Adds(f, 0 .. n - 1, g)
    BY <2>1, AddsExists
  <2> QED
    BY <2>2
<1>2. SumOf(f, 0 .. n - 1) = sum[0 .. n - 1]
  BY DEF SumOf
<1> HIDE DEF sum
<1>3. /\ sum[0 .. 0 - 1] = 0
      /\ \A m \in 0 .. n - 1 : sum[0 .. m] = f[m] + sum[0 .. m - 1]
  <2>1. SumsUp(f, 0, n - 1, sum)
    BY <1>1 DEF SumsUp
  <2> QED
    BY <2>1, PrefixSums
<1> DEFINE T == {m \in 0 .. n : sum[0 .. m - 1] \in Nat}
<1>4. 0 \in T
  BY <1>3
<1>5. ASSUME NEW m \in 0 .. n - 1, m \in T PROVE m + 1 \in T
  <2>1. m + 1 \in 0 .. n /\ (m + 1) - 1 = m
    OBVIOUS
  <2>2. sum[0 .. m] \in Nat
    <3>1. f[m] \in Nat /\ sum[0 .. m - 1] \in Nat
      BY <1>5
    <3>2. sum[0 .. m] = f[m] + sum[0 .. m - 1]
      BY <1>3
    <3> QED
      BY <3>1, <3>2
  <2> QED
    BY <2>1, <2>2
<1>6. \A m \in 0 .. n : m \in T
  <2> HIDE DEF T
  <2> QED
    BY <1>4, <1>5, UpTo
<1> QED
  BY <1>2, <1>6

\* The shares of a ladder.
LEMMA SharesAreNat ==
    ASSUME NEW b, b.num \in Nat, b.den \in Nat, NEW n \in Nat
    PROVE  /\ Martingale!Shares(b, n) \in Nat
           /\ \A i \in 0 .. n - 1 : Martingale!Share(b, n, i) \in Nat
<1>1. ASSUME NEW i \in 0 .. n - 1 PROVE Martingale!Share(b, n, i) \in Nat
  <2>1. i + 1 \in Nat /\ n - 1 - i \in Nat
    OBVIOUS
  <2>2. Martingale!Power(b.num, i + 1) \in Nat /\ Martingale!Power(b.den, n - 1 - i) \in Nat
    BY <2>1, PowerIsNat
  <2> QED
    BY <2>2, Product, Zenon DEF Martingale!Share
<1> DEFINE f == [j \in 0 .. n |-> Martingale!Power(b.num, j) * Martingale!Power(b.den, n - j)]
<1>2. ASSUME NEW j \in 0 .. n PROVE f[j] \in Nat
  <2>1. j \in Nat /\ n - j \in Nat
    OBVIOUS
  <2>2. Martingale!Power(b.num, j) \in Nat /\ Martingale!Power(b.den, n - j) \in Nat
    BY <2>1, PowerIsNat
  <2> QED
    BY <2>2, Product, Zenon
<1> DEFINE Is(iter) ==
             iter = [s \in SUBSET (0 .. n) |->
                       IF s = {} THEN 0
                       ELSE Martingale!Power(b.num, CHOOSE x \in s : TRUE)
                              * Martingale!Power(b.den, n - CHOOSE x \in s : TRUE)
                            + iter[s \ {CHOOSE x \in s : TRUE}]]
<1>3. Martingale!Shares(b, n) = (CHOOSE iter : Is(iter))[0 .. n]
  BY Zenon DEF Martingale!Shares, Martingale!MapThenSumSet, Martingale!MapThenFoldSet
<1>4. ASSUME NEW iter PROVE Is(iter) <=> Adds(f, 0 .. n, iter)
  <2>1. ASSUME NEW s \in SUBSET (0 .. n), s # {}
        PROVE  f[CHOOSE x \in s : TRUE] = Martingale!Power(b.num, CHOOSE x \in s : TRUE)
                                           * Martingale!Power(b.den, n - CHOOSE x \in s : TRUE)
    <3>1. (CHOOSE x \in s : TRUE) \in s
      BY <2>1
    <3>2. (CHOOSE x \in s : TRUE) \in 0 .. n
      BY <3>1
    <3> QED
      BY <3>2, Zenon
  <2> HIDE DEF f
  <2> QED
    BY <2>1 DEF Adds
<1>5. Martingale!Shares(b, n) = SumOf(f, 0 .. n)
  <2> HIDE DEF Is, f
  <2> QED
    BY <1>3, <1>4, Zenon DEF SumOf
<1>6. SumOf(f, 0 .. n) \in Nat
  <2>1. n + 1 \in Nat /\ (n + 1) - 1 = n
    OBVIOUS
  <2> HIDE DEF f
  <2>2. \A j \in 0 .. (n + 1) - 1 : f[j] \in Nat
    BY <1>2, <2>1
  <2>3. SumOf(f, 0 .. (n + 1) - 1) \in Nat
    BY <2>1, <2>2, SumIsNat
  <2> QED
    BY <2>1, <2>3
<1> QED
  BY <1>1, <1>5, <1>6, Zenon

-----------------------------------------------------------------------------
(* The ladders.                                                            *)

\* What is left to reduce, order by order.
LEMMA LeftSteps ==
    ASSUME NEW s, s.orders \in Nat, NEW amount \in Nat,
           \A i \in 0 .. s.orders - 1 : Martingale!FullSize(s, i) \in Nat
    PROVE  /\ Martingale!LeftToReduce(s, amount)[0] = amount
           /\ \A i \in 0 .. s.orders - 1 :
                 Martingale!LeftToReduce(s, amount)[i + 1]
                    = Larger(0, Martingale!LeftToReduce(s, amount)[i] - Martingale!FullSize(s, i))
<1> DEFINE n == s.orders
           full == [i \in 0 .. n |-> IF i = n THEN 0 ELSE Martingale!FullSize(s, i)]
           Is(left) == left = [i \in 0 .. n |->
                                 IF i = 0 THEN amount
                                 ELSE Martingale!Larger(0, left[i - 1] - Martingale!FullSize(s, i - 1))]
           next == [p \in Nat \X Nat |->
                      IF p[1] \in 1 .. n THEN Larger(0, p[2] - full[p[1] - 1]) ELSE 0]
<1>0. n \in Nat
  OBVIOUS
<1>1. \A i \in 0 .. n : full[i] \in Nat
  BY <1>0
<1>2. next \in [Nat \X Nat -> Nat]
  <2>1. ASSUME NEW a \in 1 .. n, NEW b \in Nat PROVE Larger(0, b - full[a - 1]) \in Nat
    <3>1. a - 1 \in 0 .. n
      BY <1>0
    <3>2. full[a - 1] \in Nat
      BY <1>1, <3>1
    <3> HIDE DEF full, n
    <3> QED
      BY <3>2 DEF Larger
  <2> HIDE DEF full, n
  <2> QED
    BY <2>1
<1>3. PICK g \in [0 .. n -> Nat] :
         g[0] = amount /\ \A k \in 0 .. n : k # 0 => g[k] = next[<<k, g[k - 1]>>]
  <2> HIDE DEF next, n
  <2>1. Steps(amount, next, n)
    BY <1>0, <1>2, Stepwise
  <2> QED
    BY <2>1 DEF Steps
<1>4. ASSUME NEW k \in 0 .. n, k # 0
      PROVE  g[k] = Martingale!Larger(0, g[k - 1] - Martingale!FullSize(s, k - 1))
  <2>1. k - 1 \in 0 .. n /\ k - 1 # n /\ k \in 1 .. n /\ k \in Nat
    BY <1>0, <1>4
  <2>2. <<k, g[k - 1]>> \in Nat \X Nat
    <3> HIDE DEF n
    <3> QED
      BY <2>1
  <2>3. next[<<k, g[k - 1]>>] = Larger(0, g[k - 1] - full[k - 1])
    <3> HIDE DEF full, n
    <3> QED
      BY <2>1, <2>2
  <2>4. full[k - 1] = Martingale!FullSize(s, k - 1)
    BY <2>1
  <2> HIDE DEF full, next, n
  <2> QED
    BY <1>3, <1>4, <2>3, <2>4 DEF Larger, Martingale!Larger
<1>5. Is(g)
  <2> HIDE DEF next, full, n
  <2> QED
    BY <1>3, <1>4
<1> DEFINE left == CHOOSE f : Is(f)
<1>6. Is(left)
  BY <1>5
<1>7. Martingale!LeftToReduce(s, amount) = left
  BY Zenon DEF Martingale!LeftToReduce
<1> HIDE DEF left
<1>8. left[0] = amount
  BY <1>0, <1>6
<1>9. ASSUME NEW i \in 0 .. n - 1
      PROVE  left[i + 1] = Larger(0, left[i] - Martingale!FullSize(s, i))
  <2>1. i + 1 \in 0 .. n /\ i + 1 # 0 /\ (i + 1) - 1 = i
    BY <1>0
  <2>2. left[i + 1] = Martingale!Larger(0, left[i] - Martingale!FullSize(s, i))
    <3> HIDE DEF n
    <3> QED
      BY <1>6, <2>1
  <2> QED
    BY <2>2 DEF Larger, Martingale!Larger
<1> QED
  BY <1>7, <1>8, <1>9

\* The two sums of LadderReduced.
LEMMA LadderSums ==
    ASSUME strategy \in Strategies, strategy.kind = "martingale", NEW amount \in Nat
    PROVE  LET slots == 0 .. strategy.orders - 1
               full == MapThenSumSet(LAMBDA i : Martingale!FullSize(strategy, i), slots)
               left == MapThenSumSet(
                           LAMBDA i : Martingale!AdjustedSize(strategy, amount, i), slots)
           IN  left = Larger(0, full - amount)
<1> DEFINE n == strategy.orders
           S == 0 .. n - 1
           f == [i \in S |-> Martingale!FullSize(strategy, i)]
           g == [i \in S |-> Martingale!AdjustedSize(strategy, amount, i)]
           left == Martingale!LeftToReduce(strategy, amount)
           Full(iter) == iter = [s \in SUBSET S |->
                            IF s = {} THEN 0
                            ELSE Martingale!FullSize(strategy, CHOOSE x \in s : TRUE)
                                 + iter[s \ {CHOOSE x \in s : TRUE}]]
           Adjusted(iter) == iter = [s \in SUBSET S |->
                            IF s = {} THEN 0
                            ELSE Martingale!AdjustedSize(strategy, amount, CHOOSE x \in s : TRUE)
                                 + iter[s \ {CHOOSE x \in s : TRUE}]]
<1>1. /\ n \in Nat /\ strategy.sizeBase.num \in Nat /\ strategy.sizeBase.den \in Nat
      /\ strategy.target \in Nat /\ strategy.coefficient \in Nat
  BY RoundAssumption
<1>2. ASSUME NEW i \in S PROVE Martingale!FullSize(strategy, i) \in Nat
  <2>1. Martingale!Share(strategy.sizeBase, n, i) \in Nat
    BY <1>1, SharesAreNat
  <2>2. strategy.target * strategy.coefficient \in Nat
    BY <1>1, Product
  <2>3. Martingale!TargetVolume(strategy) \in Nat
    <3> DEFINE z == strategy.target * strategy.coefficient
    <3>1. Martingale!TargetVolume(strategy) = z \div 100 /\ z \in Nat
      BY <2>2 DEF Martingale!TargetVolume
    <3> HIDE DEF z
    <3> QED
      BY <3>1
  <2>4. 2 * Martingale!TargetVolume(strategy) \in Nat
    BY <2>3
  <2>5. Scale \in Nat
    BY ScaleAssumption
  <2>6. 2 * Martingale!TargetVolume(strategy) * Scale \in Nat
    BY <2>4, <2>5, Product, Zenon
  <2>7. 2 * Martingale!TargetVolume(strategy) * Scale
           * Martingale!Share(strategy.sizeBase, n, i) \in Nat
    BY <2>1, <2>6, Product, Zenon
  <2> QED
    BY <2>7 DEF Martingale!FullSize
<1>3. MapThenSumSet(LAMBDA i : Martingale!FullSize(strategy, i), S)
         = (CHOOSE iter : Full(iter))[S]
  BY Zenon DEF MapThenSumSet, MapThenFoldSet
<1>4. MapThenSumSet(LAMBDA i : Martingale!AdjustedSize(strategy, amount, i), S)
         = (CHOOSE iter : Adjusted(iter))[S]
  BY Zenon DEF MapThenSumSet, MapThenFoldSet
<1>5. \A s \in SUBSET S : s # {} => (CHOOSE x \in s : TRUE) \in S
  <2> SUFFICES ASSUME NEW s \in SUBSET S, s # {} PROVE (CHOOSE x \in s : TRUE) \in S
    OBVIOUS
  <2>1. (CHOOSE x \in s : TRUE) \in s
    OBVIOUS
  <2> QED
    BY <2>1
<1>6. ASSUME NEW iter PROVE Full(iter) <=> Adds(f, S, iter)
  <2>1. \A i \in S : f[i] = Martingale!FullSize(strategy, i)
    OBVIOUS
  <2> HIDE DEF f, S
  <2> QED
    BY <1>5, <2>1 DEF Adds
<1>7. ASSUME NEW iter PROVE Adjusted(iter) <=> Adds(g, S, iter)
  <2>1. \A i \in S : g[i] = Martingale!AdjustedSize(strategy, amount, i)
    OBVIOUS
  <2> HIDE DEF g, S
  <2> QED
    BY <1>5, <2>1 DEF Adds
<1> DEFINE fsum == CHOOSE iter : Full(iter)
           gsum == CHOOSE iter : Adjusted(iter)
<1>8. IsFiniteSet(S)
  <2>1. 0 \in Int /\ n - 1 \in Int
    BY <1>1
  <2> QED
    BY <2>1, FS_Interval, Zenon
<1>9. Adds(f, S, fsum)
  <2> HIDE DEF Full, f, S
  <2>1. \E iter : Full(iter)
    BY <1>6, <1>8, AddsExists
  <2> QED
    BY <1>6, <2>1
<1>10. Adds(g, S, gsum)
  <2> HIDE DEF Adjusted, g, S
  <2>1. \E iter : Adjusted(iter)
    BY <1>7, <1>8, AddsExists
  <2> QED
    BY <1>7, <2>1
<1>11. \A i \in S : f[i] \in Nat
  BY <1>2
<1>12. /\ left[0] = amount
       /\ \A i \in S : left[i + 1] = Larger(0, left[i] - f[i])
  <2>1. /\ left[0] = amount
        /\ \A i \in S : left[i + 1] = Larger(0, left[i] - Martingale!FullSize(strategy, i))
    <3> HIDE DEF left
    <3> QED
      BY <1>1, <1>2, LeftSteps DEF left
  <2> HIDE DEF left, S
  <2> QED
    BY <2>1
<1>13. \A i \in S : g[i] = Larger(0, f[i] - left[i])
  BY DEF Martingale!AdjustedSize, Martingale!Larger, Larger
<1>14. gsum[S] = Larger(0, fsum[S] - amount)
  <2> HIDE DEF f, g, left, fsum, gsum, n
  <2>1. Carries(n, amount, f, left, g, fsum, gsum)
    BY <1>1, <1>9, <1>10, <1>11, <1>12, <1>13, Zenon DEF Carries
  <2>2. gsum[0 .. n - 1] = Larger(0, fsum[0 .. n - 1] - amount)
    <3> HIDE DEF S, Full, Adjusted
    <3> QED
      BY <2>1, CarriedOver
  <2> QED
    BY <2>2
<1> HIDE DEF Full, Adjusted, fsum, gsum
<1> QED
  BY <1>3, <1>4, <1>14, Zenon DEF fsum, gsum

\* Carrying the reduction amount from order to order takes exactly that
\* amount off a martingale ladder, or all of it, for any number of orders,
\* size base and target volume.
THEOREM LadderReducedExactly == Spec => []LadderReduced
<1>1. ReadInv => LadderReduced
  <2> SUFFICES ASSUME ReadInv, strategy.kind = "martingale", NEW side \in {"buy", "sell"}
               PROVE  LET amount == Martingale!Reducing(strategy, r, side)
                          slots == 0 .. strategy.orders - 1
                          full == MapThenSumSet(LAMBDA i : Martingale!FullSize(strategy, i), slots)
                          left == MapThenSumSet(
                                      LAMBDA i : Martingale!AdjustedSize(strategy, amount, i), slots)
                      IN  left = Larger(0, full - amount)
    BY Zenon DEF LadderReduced
  <2> DEFINE amount == Martingale!Reducing(strategy, r, side)
  <2>1. strategy \in Strategies
    BY DEF ReadInv
  <2>2. amount \in Nat
    <3>1. r.volume * r.entry \in Int
      BY DEF ReadInv
    <3> DEFINE exposure == r.volume * r.entry
    <3>2. Martingale!Shares(strategy.sizeBase, strategy.orders) \in Nat
      BY <2>1, SharesAreNat, RoundAssumption
    <3>3. Martingale!Exposure(r) = exposure /\ exposure \in Int
      BY <3>1 DEF Martingale!Exposure
    <3> HIDE DEF exposure
    <3>4. Martingale!Larger(0, IF side = "buy" THEN Martingale!Exposure(r)
                               ELSE -Martingale!Exposure(r)) \in Nat
      BY <3>3 DEF Martingale!Larger
    <3>5. amount = Martingale!Larger(0, IF side = "buy" THEN Martingale!Exposure(r)
                                       ELSE -Martingale!Exposure(r))
                      * Martingale!Shares(strategy.sizeBase, strategy.orders)
      BY Zenon DEF Martingale!Reducing
    <3> QED
      BY <3>2, <3>4, <3>5, Product
  <2> HIDE DEF amount
  <2> QED
    BY <2>1, <2>2, LadderSums, Zenon DEF amount
<1> QED
  BY <1>1, ReadsKept, PTL
-----------------------------------------------------------------------------
(* Quotes and the book.                                                    *)

LEMMA LargestOf ==
    ASSUME NEW T, T \subseteq Nat, T # {}, IsFiniteSet(T)
    PROVE  \E n \in T : \A m \in T : n >= m
<1> DEFINE HasMax(s) == \E n \in s : \A m \in s : n >= m
           Sizes == {c \in Nat : \E s \in SUBSET T : s # {} /\ ~HasMax(s) /\ Cardinality(s) = c}
<1> SUFFICES ASSUME ~HasMax(T) PROVE FALSE
  OBVIOUS
<1>1. \A s \in SUBSET T : IsFiniteSet(s) /\ Cardinality(s) \in Nat
  BY FS_Subset, FS_CardinalityType
<1>2. Sizes # {} /\ Sizes \subseteq Nat
  BY <1>1
<1>3. PICK c \in Sizes : \A d \in Sizes : c <= d
  <2> HIDE DEF Sizes
  <2> QED
    BY <1>2, LeastOf
<1>4. PICK s \in SUBSET T : s # {} /\ ~HasMax(s) /\ Cardinality(s) = c
  OBVIOUS
<1>5. PICK x \in s : TRUE
  BY <1>4
<1>6. s \ {x} \in SUBSET T /\ Cardinality(s \ {x}) = c - 1 /\ c \in Nat
  BY <1>1, <1>4, <1>5, FS_RemoveElement
<1>7. s \ {x} # {}
  <2> SUFFICES ASSUME s \ {x} = {} PROVE FALSE
    OBVIOUS
  <2>1. \A m \in s : m = x
    OBVIOUS
  <2> QED
    BY <1>4, <1>5, <2>1
<1>8. HasMax(s \ {x})
  <2> SUFFICES ASSUME ~HasMax(s \ {x}) PROVE FALSE
    OBVIOUS
  <2>1. c - 1 \in Nat
    BY <1>1, <1>6
  <2>2. c - 1 \in Sizes
    <3> HIDE DEF HasMax
    <3> QED
      BY <1>6, <1>7, <2>1
  <2> HIDE DEF Sizes
  <2>3. c <= c - 1
    BY <1>3, <2>2
  <2> QED
    BY <1>6, <2>3
<1>9. PICK y \in s \ {x} : \A m \in s \ {x} : y >= m
  BY <1>8
<1>10. x \in Nat /\ y \in Nat
  BY <1>4, <1>5
<1>11. CASE x >= y
  <2>1. \A m \in s : x >= m
    <3> SUFFICES ASSUME NEW m \in s PROVE x >= m
      OBVIOUS
    <3>1. m \in Nat
      BY <1>4
    <3> QED
      BY <1>9, <1>10, <1>11, <3>1
  <2> QED
    BY <1>4, <1>5, <2>1
<1>12. CASE ~(x >= y)
  <2>1. \A m \in s : y >= m
    <3> SUFFICES ASSUME NEW m \in s PROVE y >= m
      OBVIOUS
    <3> QED
      BY <1>9, <1>10, <1>12
  <2> QED
    BY <1>4, <1>9, <2>1
<1> QED
  BY <1>11, <1>12

\* The best external prices are numbers, and only an empty side has none.
LEMMA BestPrices ==
    ASSUME NEW external \in ExternalBooks \cup {{}}
    PROVE  Points!BestBid(external) \in Nat /\ Points!BestAsk(external) \in Nat \ {0}
<1>1. IsFiniteSet(external) /\ \A o \in external : o.price \in Nat \ {0}
  <2>1. \A x \in ExternalBooks : IsFiniteSet(x) /\ \A o \in x : o.price \in Nat \ {0}
    BY Zenon, RoundAssumption
  <2>2. IsFiniteSet({})
    BY FS_EmptySet
  <2> QED
    BY <2>1, <2>2
<1> DEFINE buys == {x \in external : x.side = "buy"}
           bids == {o.price : o \in buys}
           sells == {x \in external : x.side = "sell"}
           asks == {o.price : o \in sells}
<1>2. {0} \cup bids \subseteq Nat /\ IsFiniteSet({0} \cup bids)
  <2>1. IsFiniteSet(buys)
    BY <1>1, FS_Subset
  <2>2. IsFiniteSet(bids)
    <3> DEFINE f == [o \in buys |-> o.price]
    <3>1. f \in Surjection(buys, bids)
      BY DEF Surjection
    <3> HIDE DEF buys, f
    <3> QED
      BY <2>1, <3>1, FS_Surjection
  <2>3. IsFiniteSet({0} \cup bids)
    BY <2>2, FS_Singleton, FS_Union
  <2> QED
    BY <1>1, <2>3
<1>3. PICK n \in {0} \cup bids : \A m \in {0} \cup bids : n >= m
  <2> DEFINE T == {0} \cup bids
  <2>1. T \subseteq Nat /\ IsFiniteSet(T) /\ T # {}
    BY <1>2
  <2> HIDE DEF T
  <2>2. \E n \in T : \A m \in T : n >= m
    BY <2>1, LargestOf
  <2> QED
    BY <2>2 DEF T
<1>4. Points!BestBid(external) \in {0} \cup bids
  <2> DEFINE T == {0} \cup bids
  <2>1. Points!BestBid(external) = CHOOSE k \in T : \A m \in T : k >= m
    BY DEF Points!BestBid, Points!Max
  <2>2. \E k \in T : \A m \in T : k >= m
    BY <1>3
  <2> HIDE DEF T
  <2>3. Points!BestBid(external) \in T
    BY <2>1, <2>2
  <2> QED
    BY <2>3 DEF T
<1>5. {MaxInt} \cup asks \subseteq Nat \ {0}
  BY <1>1, RoundAssumption
<1>6. Points!BestAsk(external) \in {MaxInt} \cup asks
  <2> DEFINE T == {MaxInt} \cup asks
  <2>1. Points!BestAsk(external) = CHOOSE k \in T : \A m \in T : k <= m
    BY DEF Points!BestAsk, Points!Min
  <2>2. T # {} /\ T \subseteq Nat
    BY <1>5
  <2> HIDE DEF T
  <2>3. Points!BestAsk(external) \in T
    BY <2>1, <2>2, LeastOf
  <2> QED
    BY <2>3 DEF T
<1> QED
  BY <1>2, <1>4, <1>5, <1>6

\* Rounding at half a tick.
LEMMA HalfTicks ==
    ASSUME NEW a \in Int, NEW b \in Int, a <= b
    PROVE  /\ Truncated(a, 2 * Unit) \in Int /\ Truncated(b, 2 * Unit) \in Int
           /\ Truncated(a, 2 * Unit) <= Truncated(b, 2 * Unit)
BY DEF Truncated, Unit

\* A ladder's price, from the sum of the two best prices, is not across the
\* other one.
LEMMA FromTheMiddle ==
    ASSUME NEW bid \in Nat, NEW ask \in Nat, bid < ask,
           NEW x \in Nat, NEW y \in Nat, y <= x
    PROVE  /\ Truncated((bid + ask) * (Unit - x), 2 * Unit) \in Int
           /\ Truncated((bid + ask) * (Unit - x), 2 * Unit) < ask
           /\ Resolves(bid + ask, y) => Truncated((bid + ask) * (Unit + x), 2 * Unit) > bid
<1> DEFINE m == bid + ask
           low == m * (Unit - x)
           high == m * (Unit + x)
           moved == m * x
<1>1. /\ moved \in Nat /\ m * y \in Nat /\ m * y <= moved
      /\ low = m * Unit - moved /\ high = m * Unit + moved
  <2>1. m \in Nat
    OBVIOUS
  <2> HIDE DEF m
  <2>2. m * y <= m * x /\ m * x \in Nat /\ m * y \in Nat
    BY <2>1
  <2>3. m * (Unit - x) = m * Unit - m * x
    BY <2>1 DEF Unit
  <2>4. m * (Unit + x) = m * Unit + m * x
    BY <2>1 DEF Unit
  <2> QED
    BY <2>2, <2>3, <2>4
<1>2. Truncated(low, 2 * Unit) \in Int /\ Truncated(low, 2 * Unit) < ask
  <2>1. low \in Int /\ m * Unit \in Int /\ low <= m * Unit
    <3> HIDE DEF low, moved
    <3> QED
      BY <1>1 DEF Unit
  <2>2. Truncated(m * Unit, 2 * Unit) < ask
    BY DEF Truncated, Unit
  <2> HIDE DEF low, m
  <2>3. /\ Truncated(low, 2 * Unit) \in Int /\ Truncated(m * Unit, 2 * Unit) \in Int
        /\ Truncated(low, 2 * Unit) <= Truncated(m * Unit, 2 * Unit)
    BY <2>1, HalfTicks
  <2> QED
    BY <2>2, <2>3
<1>3. ASSUME Resolves(m, y) PROVE Truncated(high, 2 * Unit) > bid
  <2>1. moved >= Unit
    <3> DEFINE z == m * y
    <3>1. z >= Unit /\ z \in Nat /\ z <= moved
      BY <1>1, <1>3 DEF Resolves
    <3> HIDE DEF z, moved
    <3> QED
      BY <1>1, <3>1 DEF Unit
  <2>2. /\ high \in Int /\ (bid + 1) * (2 * Unit) \in Int
        /\ (bid + 1) * (2 * Unit) <= high
    <3> HIDE DEF high, moved
    <3> QED
      BY <1>1, <2>1 DEF Unit
  <2>3. Truncated((bid + 1) * (2 * Unit), 2 * Unit) = bid + 1
    BY DEF Truncated, Unit
  <2> HIDE DEF high
  <2>4. /\ Truncated(high, 2 * Unit) \in Int
        /\ Truncated((bid + 1) * (2 * Unit), 2 * Unit) <= Truncated(high, 2 * Unit)
    BY <2>2, HalfTicks
  <2> QED
    BY <2>3, <2>4
<1> QED
  BY <1>2, <1>3

LEMMA PointsOffset ==
    ASSUME NEW s, s.initialOffset \in Nat, NEW exposure
    PROVE  /\ Points!SteppedOffset(s, exposure) \in Nat
           /\ Points!SteppedOffset(s, exposure) >= s.initialOffset
<1> DEFINE matches == {i \in Points!Crossed(exposure, s.target * Scale, Points!Thresholds, 10) :
                          Points!NeutralityOffsets[i] > s.initialOffset}
<1>1. matches \subseteq 1 .. 5
  BY DEF Points!Crossed, Points!Thresholds
<1>2. Points!LastOf(Points!NeutralityOffsets, matches) \in Nat
  <2>1. CASE matches = {}
    BY <2>1 DEF Points!LastOf
  <2>2. CASE matches # {}
    <3>1. Points!Max(matches) \in 1 .. 5
      BY <1>1, <2>2, LastMatch
    <3>2. Points!NeutralityOffsets[Points!Max(matches)] \in Nat
      BY <3>1 DEF Points!NeutralityOffsets
    <3> QED
      BY <2>2, <3>2 DEF Points!LastOf
  <2> QED
    BY <2>1, <2>2
<1>3. Points!SteppedOffset(s, exposure)
         = s.initialOffset + Points!LastOf(Points!NeutralityOffsets, matches)
  BY DEF Points!SteppedOffset
<1> HIDE DEF matches
<1> QED
  BY <1>2, <1>3

LEMMA MartingaleOffset ==
    ASSUME NEW s, NEW exposure
    PROVE  Martingale!SteppedOffset(s, exposure) \in Nat
<1> DEFINE matches == Martingale!Crossed(exposure, s.balance * Scale, Martingale!Thresholds, 1000)
<1>1. matches \subseteq 1 .. 4
  BY DEF Martingale!Crossed, Martingale!Thresholds
<1>2. CASE matches = {}
  BY <1>2 DEF Martingale!SteppedOffset, Martingale!LastOf
<1>3. CASE matches # {}
  <2>1. matches \in SUBSET (1 .. 5)
    BY <1>1
  <2>2. Martingale!Max(matches) \in 1 .. 4
    BY <1>1, <1>3, <2>1, LastMatch
  <2>3. Martingale!NeutralityOffsets[Martingale!Max(matches)] \in Nat
    BY <2>2 DEF Martingale!NeutralityOffsets
  <2> QED
    BY <1>3, <2>3 DEF Martingale!SteppedOffset, Martingale!LastOf
<1> QED
  BY <1>2, <1>3

LEMMA SameMoves ==
    /\ \A p, o : Martingale!Below(p, o) = Below(p, o)
    /\ \A p, o : Martingale!Above(p, o) = Above(p, o)
    /\ \A a, b : Martingale!Truncated(a, b) = Truncated(a, b)
    /\ \A a, b : Points!Truncated(a, b) = Truncated(a, b)
    /\ Martingale!Unit = Unit /\ Points!Unit = Unit
BY DEF Martingale!Below, Martingale!Above, Martingale!Truncated, Martingale!Unit,
       Points!Truncated, Points!Unit, Below, Above, Truncated, Unit

\* Where the two ladders of a martingale start.
LEMMA FirstPrices ==
    ASSUME ReadInv, TwoSided(r.book), NEW steps \in Nat
    PROVE  /\ Martingale!FirstBid(r, steps) \in Nat
           /\ Martingale!FirstBid(r, steps) < r.book.ask
           /\ Martingale!FirstAsk(r, steps) \in Nat
           /\ Resolves(r.book.mid, 60) => Martingale!FirstAsk(r, steps) > r.book.bid
<1> DEFINE bid == r.book.bid
           mid == r.book.mid
           ask == r.book.ask
           down == bid * (Unit - 4 * steps)
           up == ask * (Unit + 5 * steps)
<1>1. bid \in Nat /\ mid \in Nat /\ ask \in Nat /\ bid <= mid /\ mid < ask
  BY DEF ReadInv, TwoSided
<1>2. /\ Martingale!FirstBid(r, steps) = IF down < mid * (Unit - 62) THEN Below(mid, 60)
                                        ELSE Truncated(down, Unit)
      /\ Martingale!FirstAsk(r, steps) = IF up > mid * (Unit + 62) THEN Above(mid, 60)
                                        ELSE Truncated(up, Unit)
  BY SameMoves DEF Martingale!FirstBid, Martingale!FirstAsk,
     Martingale!SearchedBid, Martingale!SearchedAsk
<1> HIDE DEF bid, mid, ask
<1>3. down \in Int /\ down <= bid * Unit
  <2>1. bid * (4 * steps) \in Nat
    BY <1>1, Product
  <2>2. bid * (Unit - 4 * steps) = bid * Unit - bid * (4 * steps)
    BY <1>1 DEF Unit
  <2> DEFINE z == bid * (4 * steps)
  <2>3. down = bid * Unit - z /\ z \in Nat
    BY <2>1, <2>2
  <2> HIDE DEF z, down
  <2> QED
    BY <1>1, <2>3 DEF Unit
<1>4. up \in Int /\ ask * Unit <= up
  <2>1. ask * (5 * steps) \in Nat
    BY <1>1, Product
  <2>2. ask * (Unit + 5 * steps) = ask * Unit + ask * (5 * steps)
    BY <1>1 DEF Unit
  <2> DEFINE z == ask * (5 * steps)
  <2>3. up = ask * Unit + z /\ z \in Nat
    BY <2>1, <2>2
  <2> HIDE DEF z, up
  <2> QED
    BY <1>1, <2>3 DEF Unit
<1> HIDE DEF down, up
<1>5. /\ Martingale!FirstBid(r, steps) \in Nat
      /\ Martingale!FirstBid(r, steps) < ask
  <2>1. Below(mid, 60) \in Nat /\ Below(mid, 60) < ask
    BY <1>1 DEF Below, Truncated, Unit
  <2>2. ASSUME ~(down < mid * (Unit - 62))
        PROVE  Truncated(down, Unit) \in Nat /\ Truncated(down, Unit) < ask
    BY <1>1, <1>3, <2>2 DEF Truncated, Unit
  <2> QED
    BY <1>2, <2>1, <2>2
<1>6. /\ Martingale!FirstAsk(r, steps) \in Nat
      /\ Resolves(mid, 60) => Martingale!FirstAsk(r, steps) > bid
  <2>1. Above(mid, 60) \in Nat /\ (Resolves(mid, 60) => Above(mid, 60) > bid)
    BY <1>1 DEF Above, Truncated, Unit, Resolves
  <2>2. Truncated(up, Unit) \in Nat /\ Truncated(up, Unit) > bid
    BY <1>1, <1>4 DEF Truncated, Unit
  <2> QED
    BY <1>2, <2>1, <2>2
<1> QED
  BY <1>5, <1>6 DEF bid, mid, ask

\* How far a martingale's ladders are moved out.
LEMMA MartingaleOffsets ==
    ASSUME ReadInv, TwoSided(r.book), NEW stale
    PROVE  Martingale!BidOffset(r, stale) \in Nat /\ Martingale!AskOffset(r, stale) \in Nat
<1> DEFINE bid == r.book.bid
           ask == r.book.ask
           far == r.binanceBid
           high == r.binanceAsk
<1>1. bid \in Nat /\ ask \in Nat \ {0} /\ far \in Nat /\ high \in Nat
  BY DEF ReadInv, TwoSided
<1>2. /\ Martingale!SteppedOffset(r, Martingale!Exposure(r)) \in Nat
      /\ Martingale!SteppedOffset(r, -Martingale!Exposure(r)) \in Nat
  BY MartingaleOffset
<1> HIDE DEF bid, ask, far, high
<1>3. ASSUME far * Unit < bid * (Unit - 10) PROVE Unit - (far * Unit) \div bid \in Nat
  <2> DEFINE q == (far * Unit) \div bid
  <2>1. bid # 0
    BY <1>1, <1>3 DEF Unit
  <2>2. q \in Int /\ bid * q <= far * Unit
    BY <1>1, <2>1 DEF Unit
  <2> HIDE DEF q
  <2>3. bid * q < bid * (Unit - 10)
    BY <1>1, <1>3, <2>2 DEF Unit
  <2>4. q < Unit - 10
    <3> SUFFICES ASSUME q >= Unit - 10 PROVE FALSE
      BY <2>2 DEF Unit
    <3>1. q - (Unit - 10) \in Nat
      BY <2>2 DEF Unit
    <3>2. bid * (q - (Unit - 10)) \in Nat
      BY <1>1, <3>1, Product
    <3>3. bid * (q - (Unit - 10)) = bid * q - bid * (Unit - 10)
      BY <1>1, <2>2 DEF Unit
    <3> DEFINE z == bid * q
    <3>4. z \in Int /\ z < bid * (Unit - 10) /\ z - bid * (Unit - 10) >= 0
      BY <1>1, <2>2, <2>3, <3>2, <3>3
    <3> HIDE DEF z
    <3> QED
      BY <1>1, <3>4 DEF Unit
  <2> QED
    BY <2>2, <2>4 DEF q, Unit
<1>4. ASSUME high * Unit > ask * (Unit + 10) PROVE (high * Unit) \div ask - Unit \in Nat
  <2> DEFINE q == (high * Unit) \div ask
  <2>1. q \in Int /\ high * Unit < ask * (q + 1)
    BY <1>1 DEF Unit
  <2> HIDE DEF q
  <2>2. ask * (Unit + 10) < ask * (q + 1)
    BY <1>1, <1>4, <2>1 DEF Unit
  <2>3. q + 1 > Unit + 10
    <3> SUFFICES ASSUME q + 1 <= Unit + 10 PROVE FALSE
      BY <2>1 DEF Unit
    <3>1. (Unit + 10) - (q + 1) \in Nat
      BY <2>1 DEF Unit
    <3>2. ask * ((Unit + 10) - (q + 1)) \in Nat
      BY <1>1, <3>1, Product
    <3>3. ask * ((Unit + 10) - (q + 1)) = ask * (Unit + 10) - ask * (q + 1)
      BY <1>1, <2>1 DEF Unit
    <3> DEFINE z == ask * (q + 1)
    <3>4. z \in Int /\ ask * (Unit + 10) < z /\ ask * (Unit + 10) - z >= 0
      BY <1>1, <2>1, <2>2, <3>2, <3>3
    <3> HIDE DEF z
    <3> QED
      BY <1>1, <3>4 DEF Unit
  <2> QED
    BY <2>1, <2>3 DEF q, Unit
<1>5. /\ Martingale!BidOffset(r, stale)
            = Martingale!SteppedOffset(r, Martingale!Exposure(r))
              + (IF far * Unit < bid * (Unit - 10) /\ ~stale
                 THEN Unit - (far * Unit) \div bid ELSE 0)
      /\ Martingale!AskOffset(r, stale)
            = Martingale!SteppedOffset(r, -Martingale!Exposure(r))
              + (IF high * Unit > ask * (Unit + 10) /\ ~stale
                 THEN (high * Unit) \div ask - Unit ELSE 0)
  BY SameMoves DEF Martingale!BidOffset, Martingale!AskOffset, bid, ask, far, high
<1>6. Martingale!BidOffset(r, stale) \in Nat
  <2>1. CASE far * Unit < bid * (Unit - 10) /\ ~stale
    BY <1>2, <1>3, <1>5, <2>1
  <2>2. CASE ~(far * Unit < bid * (Unit - 10) /\ ~stale)
    BY <1>2, <1>5, <2>2
  <2> QED
    BY <2>1, <2>2
<1>7. Martingale!AskOffset(r, stale) \in Nat
  <2>1. CASE high * Unit > ask * (Unit + 10) /\ ~stale
    BY <1>2, <1>4, <1>5, <2>1
  <2>2. CASE ~(high * Unit > ask * (Unit + 10) /\ ~stale)
    BY <1>2, <1>5, <2>2
  <2> QED
    BY <2>1, <2>2
<1> QED
  BY <1>6, <1>7

\* A quote is never priced through the book it was computed from, for any
\* options, positions, Binance prices and books that do not cross.
THEOREM InsideTheBook == Spec => []QuotesInsideBook
<1>1. ASSUME ReadInv, Priced("aggressive"), TwoSided(r.book)
      PROVE  /\ \A bid \in PricesOf(OurBids) : bid <= r.book.ask
             /\ \A ask \in PricesOf(OurAsks) : ask >= r.book.bid
  <2> DEFINE bidRef == Aggressive!BidReference(r, reducing)
             askRef == Aggressive!AskReference(r, reducing)
  <2>1. /\ r.book.bid \in Nat /\ r.book.mid \in Nat /\ r.book.ask \in Nat
        /\ r.binanceBid \in Nat /\ r.binanceAsk \in Nat
        /\ r.book.bid <= r.book.ask
    BY <1>1 DEF ReadInv, TwoSided
  <2>2. \A bid \in PricesOf(OurBids) : bid \in Int /\ bid <= bidRef /\ bidRef \in Nat
    BY <1>1, AggressivePrices, BelowMonotone DEF Priced
  <2>3. \A ask \in PricesOf(OurAsks) : ask \in Int /\ askRef <= ask /\ askRef \in Nat
    BY <1>1, AggressivePrices, AboveMonotone DEF Priced
  <2>4. bidRef <= r.book.ask
    BY <2>1 DEF Aggressive!BidReference, Aggressive!Smaller
  <2>5. r.book.bid <= askRef
    BY <2>1 DEF Aggressive!AskReference, Aggressive!Larger
  <2> HIDE DEF bidRef, askRef
  <2>6. ASSUME NEW bid \in PricesOf(OurBids) PROVE bid <= r.book.ask
    BY <2>1, <2>2, <2>4
  <2>7. ASSUME NEW ask \in PricesOf(OurAsks) PROVE ask >= r.book.bid
    BY <2>1, <2>3, <2>5
  <2> QED
    BY <2>6, <2>7
<1>2. ASSUME ReadInv, Priced("points"),
             Points!BestBid(r.external) < Points!BestAsk(r.external)
      PROVE  /\ \A bid \in PricesOf(OurBids) : bid < Points!BestAsk(r.external)
             /\ Resolves(Points!TwiceMid(r), strategy.initialOffset) =>
                    \A ask \in PricesOf(OurAsks) : ask > Points!BestBid(r.external)
  <2> DEFINE bestBid == Points!BestBid(r.external)
             bestAsk == Points!BestAsk(r.external)
             bidOff == Points!BidOffset(strategy, r, reducing)
             askOff == Points!AskOffset(strategy, r, reducing)
  <2>1. bestBid \in Nat /\ bestAsk \in Nat /\ Points!TwiceMid(r) = bestBid + bestAsk
    BY <1>2, BestPrices DEF ReadInv, Points!TwiceMid
  <2>2. /\ strategy \in Strategies /\ strategy.kind = "points"
        /\ strategy.initialOffset \in Nat /\ strategy.spacing \in Nat
        /\ strategy.orders \in Nat
    BY <1>2, RoundAssumption DEF ReadInv, Priced
  <2>3. /\ bidOff \in Nat
        /\ askOff \in Nat /\ askOff >= strategy.initialOffset
    BY <2>2, PointsOffset DEF Points!BidOffset, Points!AskOffset, Points!TakerOffset
  <2>4. ASSUME NEW bid \in PricesOf(OurBids) PROVE bid < bestAsk
    <3>1. PICK k \in 1 .. strategy.orders :
             bid = Points!BidPrice(strategy, r, bidOff, k - 1)
      BY <2>2 DEF PricesOf, OurBids, Points!Bids, Points!Order
    <3>2. (k - 1) * strategy.spacing \in Nat
      BY <2>2, Product
    <3> DEFINE x == (k - 1) * strategy.spacing + bidOff
    <3>3. x \in Nat
      BY <2>3, <3>2
    <3>4. bid = Truncated((bestBid + bestAsk) * (Unit - x), 2 * Unit)
      <4>1. bid = Truncated(Points!TwiceMid(r)
                              * (Unit - (k - 1) * strategy.spacing - bidOff), 2 * Unit)
        BY <3>1, SameMoves DEF Points!BidPrice
      <4> DEFINE z == (k - 1) * strategy.spacing
      <4>2. Unit - z - bidOff = Unit - (z + bidOff)
        <5>1. z \in Nat
          BY <3>2
        <5> HIDE DEF z, bidOff
        <5> QED
          BY <2>3, <5>1 DEF Unit
      <4> QED
        BY <2>1, <4>1, <4>2
    <3> HIDE DEF x, bestBid, bestAsk
    <3>5. bestBid < bestAsk
      BY <1>2 DEF bestBid, bestAsk
    <3>6. x <= x
      BY <3>3
    <3> QED
      BY <2>1, <3>3, <3>4, <3>5, <3>6, FromTheMiddle
  <2>5. ASSUME Resolves(Points!TwiceMid(r), strategy.initialOffset),
               NEW ask \in PricesOf(OurAsks)
        PROVE  ask > bestBid
    <3>1. PICK k \in 1 .. strategy.orders :
             ask = Points!AskPrice(strategy, r, askOff, k - 1)
      BY <2>2 DEF PricesOf, OurAsks, Points!Asks, Points!Order
    <3>2. (k - 1) * strategy.spacing \in Nat
      BY <2>2, Product
    <3> DEFINE x == (k - 1) * strategy.spacing + askOff
    <3>3. x \in Nat /\ strategy.initialOffset <= x
      <4> DEFINE z == (k - 1) * strategy.spacing
      <4>1. z \in Nat
        BY <3>2
      <4> HIDE DEF z, askOff
      <4> QED
        BY <2>2, <2>3, <4>1 DEF z
    <3>4. ask = Truncated((bestBid + bestAsk) * (Unit + x), 2 * Unit)
      <4>1. ask = Truncated(Points!TwiceMid(r)
                              * (Unit + (k - 1) * strategy.spacing + askOff), 2 * Unit)
        BY <3>1, SameMoves DEF Points!AskPrice
      <4> DEFINE z == (k - 1) * strategy.spacing
      <4>2. Unit + z + askOff = Unit + (z + askOff)
        <5>1. z \in Nat
          BY <3>2
        <5> HIDE DEF z, askOff
        <5> QED
          BY <2>3, <5>1 DEF Unit
      <4> QED
        BY <2>1, <4>1, <4>2
    <3>5. Resolves(bestBid + bestAsk, strategy.initialOffset)
      BY <2>1, <2>5
    <3> HIDE DEF x, bestBid, bestAsk
    <3>6. bestBid < bestAsk
      BY <1>2 DEF bestBid, bestAsk
    <3> QED
      BY <2>1, <2>2, <3>3, <3>4, <3>5, <3>6, FromTheMiddle
  <2> QED
    BY <2>4, <2>5
<1>3. ASSUME ReadInv, strategy.kind = "martingale", TwoSided(r.book),
             NEW steps \in 1 .. MaxSteps, NEW stale \in BOOLEAN
      PROVE  /\ \A bid \in PricesOf(Martingale!Bids(strategy, r, steps, stale)) :
                    bid < r.book.ask
             /\ Resolves(r.book.mid, 60) =>
                    \A ask \in PricesOf(Martingale!Asks(strategy, r, steps, stale)) :
                        ask > r.book.bid
  <2> DEFINE first == Martingale!FirstBid(r, steps)
             start == Martingale!FirstAsk(r, steps)
             bidOff == Martingale!BidOffset(r, stale)
             askOff == Martingale!AskOffset(r, stale)
  <2>1. strategy.spacing \in Nat /\ strategy.orders \in Nat
    BY <1>3, RoundAssumption DEF ReadInv
  <2>2. steps \in Nat /\ r.book.bid \in Nat /\ r.book.ask \in Nat
    BY <1>3 DEF ReadInv
  <2>3. /\ first \in Nat /\ first < r.book.ask
        /\ start \in Nat /\ (Resolves(r.book.mid, 60) => start > r.book.bid)
    BY <1>3, <2>2, FirstPrices
  <2>4. bidOff \in Nat /\ askOff \in Nat
    BY <1>3, MartingaleOffsets
  <2>5. ASSUME NEW bid \in PricesOf(Martingale!Bids(strategy, r, steps, stale))
        PROVE  bid < r.book.ask
    <3>1. PICK k \in 1 .. strategy.orders :
             bid = Below(first, (k - 1) * strategy.spacing + bidOff)
      BY <2>1, SameMoves DEF PricesOf, Martingale!Bids, Martingale!Order
    <3>2. (k - 1) * strategy.spacing \in Nat
      BY <2>1, Product
    <3> DEFINE x == (k - 1) * strategy.spacing + bidOff
    <3>3. x \in Nat /\ bid = Below(first, x)
      BY <2>4, <3>1, <3>2
    <3> HIDE DEF x, first
    <3>4. bid \in Int /\ bid <= first
      BY <2>3, <3>3, BelowMonotone
    <3> QED
      BY <2>2, <2>3, <3>4
  <2>6. ASSUME Resolves(r.book.mid, 60),
               NEW ask \in PricesOf(Martingale!Asks(strategy, r, steps, stale))
        PROVE  ask > r.book.bid
    <3>1. PICK k \in 1 .. strategy.orders :
             ask = Above(start, (k - 1) * strategy.spacing + askOff)
      BY <2>1, SameMoves DEF PricesOf, Martingale!Asks, Martingale!Order
    <3>2. (k - 1) * strategy.spacing \in Nat
      BY <2>1, Product
    <3> DEFINE x == (k - 1) * strategy.spacing + askOff
    <3>3. x \in Nat /\ ask = Above(start, x)
      BY <2>4, <3>1, <3>2
    <3> HIDE DEF x, start
    <3>4. ask \in Int /\ start <= ask
      BY <2>3, <3>3, AboveMonotone
    <3> QED
      BY <2>2, <2>3, <2>6, <3>4
  <2> QED
    BY <2>5, <2>6
<1>4. ReadInv => QuotesInsideBook
  <2> SUFFICES ASSUME ReadInv PROVE QuotesInsideBook
    OBVIOUS
  <2> QED
    BY <1>1, <1>2, <1>3, Zenon DEF QuotesInsideBook
<1> QED
  BY <1>4, ReadsKept, PTL
-----------------------------------------------------------------------------
(* Bids stay above zero.                                                   *)

\* A smaller offset leaves more of a larger price.
LEMMA LeavesMore ==
    ASSUME NEW price \in Nat, NEW least \in Nat, least <= price,
           NEW x \in Nat, NEW y \in Nat, x <= y, Leaves(least, y)
    PROVE  price * (Unit - x) \in Int /\ price * (Unit - x) >= Unit
<1> DEFINE room == Unit - y
           left == Unit - x
<1>1. room \in Int /\ left \in Int /\ room <= left /\ least * room >= Unit
  BY DEF Unit, Leaves
<1> HIDE DEF room, left
<1>2. room > 0
  <2> SUFFICES ASSUME room <= 0 PROVE FALSE
    BY <1>1
  <2>1. -room \in Nat
    BY <1>1
  <2>2. least * (-room) \in Nat /\ least * (-room) = -(least * room)
    BY <1>1, <2>1, Product
  <2> QED
    BY <1>1, <2>2 DEF Unit
<1>3. least * room <= least * left
  <2>1. left - room \in Nat
    BY <1>1
  <2>2. least * (left - room) \in Nat /\ least * (left - room) = least * left - least * room
    BY <1>1, <2>1, Product
  <2> QED
    BY <1>1, <2>2
<1>4. least * left <= price * left
  <2>1. price - least \in Nat /\ left \in Nat
    BY <1>1, <1>2
  <2>2. (price - least) * left \in Nat /\ (price - least) * left = price * left - least * left
    BY <1>1, <2>1, Product
  <2> QED
    BY <1>1, <2>2
<1>5. price * left \in Int /\ least * left \in Int /\ least * room \in Int
  BY <1>1
<1>6. price * left >= Unit
  BY <1>1, <1>3, <1>4, <1>5 DEF Unit
<1> QED
  BY <1>5, <1>6 DEF left

LEMMA StaysAboveZero ==
    ASSUME NEW price \in Nat, NEW least \in Nat, least <= price,
           NEW x \in Nat, NEW y \in Nat, x <= y, Leaves(least, y)
    PROVE  Below(price, x) > 0
<1> DEFINE z == price * (Unit - x)
<1>1. z \in Int /\ z >= Unit
  BY LeavesMore
<1> HIDE DEF z
<1>2. Truncated(z, Unit) > 0
  BY <1>1 DEF Truncated, Unit
<1> QED
  BY <1>2 DEF z, Below

\* No threshold moves a quote further out than Furthest counts.
LEMMA AggressiveFurthest ==
    ASSUME NEW s, s.initialOffset \in Nat, NEW exposure
    PROVE  Aggressive!SteppedOffset(s, exposure)
              <= Larger(s.initialOffset, Aggressive!NeutralityOffsets[5])
<1> DEFINE further == {i \in Aggressive!Crossed(exposure, s.target * Scale, Aggressive!Thresholds, 10) :
                          Aggressive!NeutralityOffsets[i] > s.initialOffset}
<1>1. further \subseteq 1 .. 5
  BY DEF Aggressive!Crossed, Aggressive!Thresholds
<1>2. CASE further = {}
  BY <1>2 DEF Aggressive!SteppedOffset, Aggressive!NeutralityOffsets, Larger
<1>3. CASE further # {}
  <2>1. Aggressive!Max(further) \in 1 .. 5
    BY <1>1, <1>3, LastMatch
  <2>2. /\ Aggressive!NeutralityOffsets[Aggressive!Max(further)] \in Nat
        /\ Aggressive!NeutralityOffsets[Aggressive!Max(further)] <= 150
        /\ Aggressive!NeutralityOffsets[5] = 150
    BY <2>1 DEF Aggressive!NeutralityOffsets
  <2> QED
    BY <1>3, <2>2 DEF Aggressive!SteppedOffset, Aggressive!LastOf, Larger
<1> QED
  BY <1>2, <1>3

LEMMA PointsFurthest ==
    ASSUME NEW s, s.initialOffset \in Nat, NEW exposure
    PROVE  Points!SteppedOffset(s, exposure) <= s.initialOffset + Points!NeutralityOffsets[4]
<1> DEFINE matches == {i \in Points!Crossed(exposure, s.target * Scale, Points!Thresholds, 10) :
                          Points!NeutralityOffsets[i] > s.initialOffset}
<1>1. matches \subseteq 1 .. 5
  BY DEF Points!Crossed, Points!Thresholds
<1>2. /\ Points!LastOf(Points!NeutralityOffsets, matches) \in Nat
      /\ Points!LastOf(Points!NeutralityOffsets, matches) <= 17000
  <2>1. CASE matches = {}
    BY <2>1 DEF Points!LastOf
  <2>2. CASE matches # {}
    <3>1. Points!Max(matches) \in 1 .. 5
      BY <1>1, <2>2, LastMatch
    <3>2. /\ Points!NeutralityOffsets[Points!Max(matches)] \in Nat
          /\ Points!NeutralityOffsets[Points!Max(matches)] <= 17000
      BY <3>1 DEF Points!NeutralityOffsets
    <3> QED
      BY <2>2, <3>2 DEF Points!LastOf
  <2> QED
    BY <2>1, <2>2
<1>3. Points!SteppedOffset(s, exposure)
         = s.initialOffset + Points!LastOf(Points!NeutralityOffsets, matches)
  BY DEF Points!SteppedOffset
<1>4. Points!NeutralityOffsets[4] = 17000
  BY DEF Points!NeutralityOffsets
<1> HIDE DEF matches
<1> QED
  BY <1>2, <1>3, <1>4

LEMMA MartingaleFurthest ==
    ASSUME NEW s, NEW exposure
    PROVE  Martingale!SteppedOffset(s, exposure) <= Martingale!NeutralityOffsets[4]
<1> DEFINE matches == Martingale!Crossed(exposure, s.balance * Scale, Martingale!Thresholds, 1000)
<1>1. matches \subseteq 1 .. 4
  BY DEF Martingale!Crossed, Martingale!Thresholds
<1>2. CASE matches = {}
  BY <1>2 DEF Martingale!SteppedOffset, Martingale!LastOf, Martingale!NeutralityOffsets
<1>3. CASE matches # {}
  <2>1. matches \in SUBSET (1 .. 5)
    BY <1>1
  <2>2. Martingale!Max(matches) \in 1 .. 4
    BY <1>1, <1>3, <2>1, LastMatch
  <2>3. Martingale!NeutralityOffsets[Martingale!Max(matches)] <= Martingale!NeutralityOffsets[4]
    BY <2>2 DEF Martingale!NeutralityOffsets
  <2> QED
    BY <1>3, <2>3 DEF Martingale!SteppedOffset, Martingale!LastOf
<1> QED
  BY <1>2, <1>3

\* How far a Binance price moves a martingale's bids.
LEMMA MartingaleBidOffset ==
    ASSUME ReadInv, NEW stale
    PROVE  /\ BinanceBelow(r) \in Nat
           /\ Martingale!BidOffset(r, stale) \in Nat
           /\ Martingale!BidOffset(r, stale)
                 <= Martingale!NeutralityOffsets[4] + BinanceBelow(r)
<1> DEFINE bid == r.book.bid
           far == r.binanceBid
           stepped == Martingale!SteppedOffset(r, Martingale!Exposure(r))
<1>1. bid \in Nat /\ far \in Nat
  BY DEF ReadInv
<1>2. stepped \in Nat /\ stepped <= Martingale!NeutralityOffsets[4]
  BY MartingaleOffset, MartingaleFurthest
<1>3. /\ BinanceBelow(r) = IF far < bid THEN Unit - (far * Unit) \div bid ELSE 0
      /\ Martingale!BidOffset(r, stale)
            = stepped + (IF far * Unit < bid * (Unit - 10) /\ ~stale
                         THEN Unit - (far * Unit) \div bid ELSE 0)
  BY SameMoves DEF BinanceBelow, Martingale!BidOffset
<1>4. Martingale!NeutralityOffsets[4] \in Nat
  BY DEF Martingale!NeutralityOffsets
<1> HIDE DEF bid, far, stepped
<1> DEFINE q == (far * Unit) \div bid
<1>5. ASSUME far < bid PROVE Unit - q \in Nat
  <2>1. q \in Nat
    BY <1>1, <1>5 DEF Unit
  <2>2. bid * q <= far * Unit
    BY <1>1, <1>5 DEF Unit
  <2> HIDE DEF q
  <2>3. q <= Unit
    <3> SUFFICES ASSUME q > Unit PROVE FALSE
      BY <2>1 DEF Unit
    <3>1. q - Unit \in Nat
      BY <2>1 DEF Unit
    <3>2. bid * (q - Unit) \in Nat /\ bid * (q - Unit) = bid * q - bid * Unit
      BY <1>1, <2>1, <3>1, Product DEF Unit
    <3> DEFINE z == bid * q
    <3>3. z \in Int /\ z <= far * Unit /\ z - bid * Unit >= 0
      BY <1>1, <2>1, <2>2, <3>2
    <3> HIDE DEF z
    <3> QED
      BY <1>1, <1>5, <3>3 DEF Unit
  <2> QED
    BY <2>1, <2>3 DEF Unit
<1>6. far * Unit < bid * (Unit - 10) => far < bid
  BY <1>1 DEF Unit
<1>7. BinanceBelow(r) \in Nat
  BY <1>3, <1>5
<1>8. CASE far * Unit < bid * (Unit - 10) /\ ~stale
  <2>1. /\ BinanceBelow(r) = Unit - q
        /\ Martingale!BidOffset(r, stale) = stepped + (Unit - q)
    BY <1>3, <1>6, <1>8
  <2> HIDE DEF q
  <2> QED
    BY <1>2, <1>4, <1>7, <2>1
<1>9. CASE ~(far * Unit < bid * (Unit - 10) /\ ~stale)
  <2>1. Martingale!BidOffset(r, stale) = stepped + 0
    BY <1>3, <1>9
  <2> QED
    BY <1>2, <1>4, <1>7, <2>1
<1> QED
  BY <1>7, <1>8, <1>9

\* A martingale's ladder does not start lower than 31 basis points below the
\* middle.
LEMMA LowestFirstBid ==
    ASSUME ReadInv, NEW steps \in Nat
    PROVE  /\ Below(r.book.mid, 62) \in Nat
           /\ Martingale!FirstBid(r, steps) \in Nat
           /\ Below(r.book.mid, 62) <= Martingale!FirstBid(r, steps)
<1> DEFINE bid == r.book.bid
           mid == r.book.mid
           down == bid * (Unit - 4 * steps)
<1>1. bid \in Nat /\ mid \in Nat
  BY DEF ReadInv
<1>2. Martingale!FirstBid(r, steps) = IF down < mid * (Unit - 62) THEN Below(mid, 60)
                                      ELSE Truncated(down, Unit)
  BY SameMoves DEF Martingale!FirstBid, Martingale!SearchedBid
<1> HIDE DEF bid, mid
<1>3. down \in Int
  BY <1>1 DEF Unit
<1> HIDE DEF down
<1>4. Below(mid, 62) \in Nat /\ Below(mid, 60) \in Nat /\ Below(mid, 62) <= Below(mid, 60)
  BY <1>1 DEF Below, Truncated, Unit
<1>5. ASSUME ~(down < mid * (Unit - 62))
      PROVE  Truncated(down, Unit) \in Nat /\ Below(mid, 62) <= Truncated(down, Unit)
  BY <1>1, <1>3, <1>5 DEF Below, Truncated, Unit
<1> QED
  BY <1>2, <1>4, <1>5 DEF mid

\* The orders of a ladder are at most Furthest out.
LEMMA WithinLadder ==
    ASSUME NEW n \in Nat \ {0}, NEW spacing \in Nat, NEW k \in 1 .. n
    PROVE  /\ (k - 1) * spacing \in Nat /\ (n - 1) * spacing \in Nat
           /\ (k - 1) * spacing <= (n - 1) * spacing
<1>1. k - 1 \in Nat /\ n - 1 \in Nat /\ n - k \in Nat
  OBVIOUS
<1>2. /\ (k - 1) * spacing \in Nat /\ (n - 1) * spacing \in Nat /\ (n - k) * spacing \in Nat
      /\ (n - k) * spacing = (n - 1) * spacing - (k - 1) * spacing
  BY <1>1, Product
<1> DEFINE a == (k - 1) * spacing
           b == (n - 1) * spacing
           c == (n - k) * spacing
<1>3. a \in Nat /\ b \in Nat /\ c \in Nat /\ c = b - a
  BY <1>2
<1> HIDE DEF a, b, c
<1>4. a <= b
  BY <1>3
<1> QED
  BY <1>3, <1>4 DEF a, b

\* No bid is zero or negative, for any options that leave room for their
\* furthest order, whatever the book, the position and Binance's price.
THEOREM BidsStayPositive == Spec => []BidsPositive
<1>1. ASSUME ReadInv, Priced("aggressive"),
             \A price \in {r.book.bid, r.book.ask, r.binanceBid} :
                 Leaves(price, Furthest(strategy))
      PROVE  \A bid \in PricesOf(OurBids) : bid > 0
  <2> DEFINE ref == Aggressive!BidReference(r, reducing)
             off == Aggressive!BidOffset(strategy, r, reducing)
             most == Furthest(strategy)
  <2>1. /\ strategy.kind = "aggressive" /\ strategy.initialOffset \in Nat
        /\ most = Larger(strategy.initialOffset, Aggressive!NeutralityOffsets[5])
                  + Aggressive!TakerOffset
    BY <1>1, RoundAssumption DEF ReadInv, Priced, Furthest
  <2>2. PricesOf(OurBids) = {Below(ref, off)} /\ ref \in Nat /\ off \in Nat
    BY <1>1, <2>1, AggressivePrices
  <2>3. ref \in {r.book.bid, r.book.ask, r.binanceBid}
    BY DEF Aggressive!BidReference, Aggressive!Smaller
  <2>4. Leaves(ref, most)
    BY <1>1, <2>3
  <2>5. most \in Nat /\ off <= most
    <3>1. /\ Aggressive!SteppedOffset(strategy, Aggressive!Exposure(r)) \in Nat
          /\ Aggressive!SteppedOffset(strategy, Aggressive!Exposure(r))
                <= Larger(strategy.initialOffset, Aggressive!NeutralityOffsets[5])
      BY <2>1, AggressiveOffset, AggressiveFurthest
    <3>2. Larger(strategy.initialOffset, Aggressive!NeutralityOffsets[5]) \in Nat
      BY <2>1 DEF Larger, Aggressive!NeutralityOffsets
    <3> DEFINE stepped == Aggressive!SteppedOffset(strategy, Aggressive!Exposure(r))
               largest == Larger(strategy.initialOffset, Aggressive!NeutralityOffsets[5])
    <3>3. /\ off = (IF Aggressive!EagerBid(strategy, r) THEN 0 ELSE stepped)
                   + (IF reducing /\ Aggressive!Long(r) THEN 25 ELSE 0)
          /\ most = largest + 25 /\ stepped \in Nat /\ largest \in Nat /\ stepped <= largest
      BY <2>1, <3>1, <3>2 DEF Aggressive!BidOffset, Aggressive!TakerOffset
    <3> HIDE DEF stepped, largest, off, most
    <3> QED
      BY <3>3
  <2> HIDE DEF ref, off, most
  <2>6. ref <= ref
    BY <2>2
  <2>7. Below(ref, off) > 0
    BY <2>2, <2>4, <2>5, <2>6, StaysAboveZero
  <2> QED
    BY <2>2, <2>7
<1>2. ASSUME ReadInv, Priced("points"),
             \A price \in {Points!BestBid(r.external), Points!BestAsk(r.external)} :
                 Leaves(price, Furthest(strategy))
      PROVE  \A bid \in PricesOf(OurBids) : bid > 0
  <2> SUFFICES ASSUME NEW bid \in PricesOf(OurBids) PROVE bid > 0
    OBVIOUS
  <2> DEFINE bestBid == Points!BestBid(r.external)
             bestAsk == Points!BestAsk(r.external)
             off == Points!BidOffset(strategy, r, reducing)
             most == Furthest(strategy)
  <2>1. bestBid \in Nat /\ bestAsk \in Nat /\ Points!TwiceMid(r) = bestBid + bestAsk
    BY <1>2, BestPrices DEF ReadInv, Points!TwiceMid
  <2>2. /\ strategy \in Strategies /\ strategy.kind = "points"
        /\ strategy.initialOffset \in Nat /\ strategy.spacing \in Nat
        /\ strategy.orders \in Nat \ {0}
        /\ most = strategy.initialOffset + Points!NeutralityOffsets[4] + Points!TakerOffset
                  + (strategy.orders - 1) * strategy.spacing
    BY <1>2, RoundAssumption DEF ReadInv, Priced, Furthest
  <2>3. PICK k \in 1 .. strategy.orders :
           bid = Points!BidPrice(strategy, r, off, k - 1)
    BY <1>2, <2>2 DEF PricesOf, OurBids, Points!Bids, Points!Order
  <2>4. /\ (k - 1) * strategy.spacing \in Nat /\ (strategy.orders - 1) * strategy.spacing \in Nat
        /\ (k - 1) * strategy.spacing <= (strategy.orders - 1) * strategy.spacing
    BY <2>2, WithinLadder
  <2> DEFINE ladder == (k - 1) * strategy.spacing
             x == ladder + off
  <2>5. /\ most \in Nat /\ off \in Nat /\ x \in Nat /\ x <= most
    <3>1. /\ Points!SteppedOffset(strategy, Points!Exposure(r)) \in Nat
          /\ Points!SteppedOffset(strategy, Points!Exposure(r)) <= strategy.initialOffset + 17000
      BY <2>2, PointsOffset, PointsFurthest DEF Points!NeutralityOffsets
    <3> DEFINE stepped == Points!SteppedOffset(strategy, Points!Exposure(r))
               last == (strategy.orders - 1) * strategy.spacing
    <3>2. /\ off = stepped + (IF reducing /\ Points!Long(r) THEN 40 ELSE 0)
          /\ most = strategy.initialOffset + 17000 + 40 + last
          /\ stepped \in Nat /\ stepped <= strategy.initialOffset + 17000
          /\ ladder \in Nat /\ last \in Nat /\ ladder <= last
      BY <2>2, <2>4, <3>1 DEF Points!BidOffset, Points!TakerOffset, Points!NeutralityOffsets
    <3> HIDE DEF stepped, last, off, most, ladder
    <3> QED
      BY <2>2, <3>2
  <2>6. bid = Truncated((bestBid + bestAsk) * (Unit - x), 2 * Unit)
    <3>1. bid = Truncated(Points!TwiceMid(r) * (Unit - ladder - off), 2 * Unit)
      BY <2>3, SameMoves DEF Points!BidPrice
    <3>2. Unit - ladder - off = Unit - x
      <4>1. ladder \in Nat
        BY <2>4
      <4> HIDE DEF ladder, off
      <4> QED
        BY <2>5, <4>1 DEF Unit
    <3> QED
      BY <2>1, <3>1, <3>2
  <2>7. Leaves(bestBid, most) /\ Leaves(bestAsk, most)
    BY <1>2
  <2> HIDE DEF bestBid, bestAsk, off, most, ladder, x
  <2>8. bestBid <= bestBid /\ bestAsk <= bestAsk
    BY <2>1
  <2>9. /\ bestBid * (Unit - x) \in Int /\ bestBid * (Unit - x) >= Unit
        /\ bestAsk * (Unit - x) \in Int /\ bestAsk * (Unit - x) >= Unit
    BY <2>1, <2>5, <2>7, <2>8, LeavesMore
  <2> DEFINE low == bestBid * (Unit - x)
             high == bestAsk * (Unit - x)
  <2>10. (bestBid + bestAsk) * (Unit - x) = low + high
    BY <2>1, <2>5 DEF Unit
  <2>11. low \in Int /\ high \in Int /\ low >= Unit /\ high >= Unit
    BY <2>9
  <2> HIDE DEF low, high
  <2>12. Truncated(low + high, 2 * Unit) > 0
    BY <2>11 DEF Truncated, Unit
  <2> QED
    BY <2>6, <2>10, <2>12
<1>3. ASSUME ReadInv, strategy.kind = "martingale",
             Leaves(Below(r.book.mid, 62), Furthest(strategy) + BinanceBelow(r)),
             NEW steps \in 1 .. MaxSteps, NEW stale \in BOOLEAN
      PROVE  \A bid \in PricesOf(Martingale!Bids(strategy, r, steps, stale)) : bid > 0
  <2> SUFFICES ASSUME NEW bid \in PricesOf(Martingale!Bids(strategy, r, steps, stale))
               PROVE  bid > 0
    OBVIOUS
  <2> DEFINE first == Martingale!FirstBid(r, steps)
             least == Below(r.book.mid, 62)
             off == Martingale!BidOffset(r, stale)
             most == Furthest(strategy) + BinanceBelow(r)
  <2>1. /\ strategy.spacing \in Nat /\ strategy.orders \in Nat \ {0}
        /\ Furthest(strategy) = Martingale!NeutralityOffsets[4]
                                + (strategy.orders - 1) * strategy.spacing
    BY <1>3, RoundAssumption DEF ReadInv, Furthest
  <2>2. steps \in Nat
    OBVIOUS
  <2>3. first \in Nat /\ least \in Nat /\ least <= first
    BY <1>3, <2>2, LowestFirstBid
  <2>4. PICK k \in 1 .. strategy.orders :
           bid = Below(first, (k - 1) * strategy.spacing + off)
    BY <2>1, SameMoves DEF PricesOf, Martingale!Bids, Martingale!Order
  <2>5. /\ (k - 1) * strategy.spacing \in Nat /\ (strategy.orders - 1) * strategy.spacing \in Nat
        /\ (k - 1) * strategy.spacing <= (strategy.orders - 1) * strategy.spacing
    BY <2>1, WithinLadder
  <2> DEFINE ladder == (k - 1) * strategy.spacing
             x == ladder + off
  <2>6. x \in Nat /\ most \in Nat /\ x <= most
    <3> DEFINE last == (strategy.orders - 1) * strategy.spacing
               below == BinanceBelow(r)
    <3>1. /\ off \in Nat /\ below \in Nat /\ off <= 40 + below
      BY <1>3, MartingaleBidOffset DEF Martingale!NeutralityOffsets
    <3>2. /\ most = 40 + last + below
          /\ ladder \in Nat /\ last \in Nat /\ ladder <= last
      BY <2>1, <2>5 DEF Martingale!NeutralityOffsets
    <3> HIDE DEF last, below, off, most, ladder
    <3> QED
      BY <3>1, <3>2
  <2>7. Leaves(least, most)
    BY <1>3
  <2>8. bid = Below(first, x)
    BY <2>4
  <2> HIDE DEF first, least, off, most, ladder, x
  <2> QED
    BY <2>3, <2>6, <2>7, <2>8, StaysAboveZero
<1>4. ReadInv => BidsPositive
  <2> SUFFICES ASSUME ReadInv PROVE BidsPositive
    OBVIOUS
  <2> QED
    BY <1>1, <1>2, <1>3, Zenon DEF BidsPositive
<1> QED
  BY <1>4, ReadsKept, PTL
-----------------------------------------------------------------------------
(* The volume of a points ladder.                                          *)

\* A size is the part of T that its share is worth, in units of D.
SizeOf(T, D, x) == Larger(1, (T * x) \div D)

LEMMA OneMoreSize ==
    ASSUME NEW T \in Nat, NEW D \in Nat \ {0}, NEW x \in Nat,
           NEW H \in Nat, NEW Q \in Nat, NEW C \in Nat, NEW m \in Nat,
           D * Q <= T * H + C * D, T * H <= D * Q + m * D
    PROVE  LET size == SizeOf(T, D, x)
               count == IF T * x < D THEN C + 1 ELSE C
           IN  /\ size \in Nat
               /\ D * (size + Q) <= T * (x + H) + count * D
               /\ T * (x + H) <= D * (size + Q) + (m + 1) * D
<1> DEFINE a == T * x
           size == SizeOf(T, D, x)
           count == IF a < D THEN C + 1 ELSE C
           whole == D * size
<1>1. a \in Nat
  BY Product
<1>2. size \in Nat \ {0}
  BY <1>1 DEF SizeOf, Larger
<1>3. /\ whole \in Nat
      /\ whole <= a + (IF a < D THEN D ELSE 0)
      /\ a <= whole + D
  <2>1. CASE a < D
    <3>1. a \div D = 0
      BY <1>1, <2>1
    <3>2. size = 1
      BY <3>1 DEF SizeOf, Larger
    <3> HIDE DEF a, size
    <3>3. whole = D
      BY <3>2
    <3> QED
      BY <1>1, <2>1, <3>3
  <2>2. CASE ~(a < D)
    <3> DEFINE q == a \div D
    <3>1. q \in Nat /\ D * q <= a /\ a < D * (q + 1) /\ D * (q + 1) = D * q + D /\ q # 0
      <4> HIDE DEF a
      <4> QED
        BY <1>1, <2>2
    <3>2. size = q
      <4>1. size = Larger(1, q)
        BY DEF SizeOf
      <4> HIDE DEF q, size
      <4> QED
        BY <3>1, <4>1 DEF Larger
    <3> DEFINE y == D * q
    <3>3. whole = y /\ y \in Nat /\ y <= a /\ a < y + D
      <4>1. D * q \in Nat
        BY <3>1, Product
      <4> HIDE DEF a, q, size
      <4> QED
        BY <3>1, <3>2, <4>1
    <3> HIDE DEF a, y, whole
    <3> QED
      BY <1>1, <2>2, <3>3
  <2> QED
    BY <2>1, <2>2
<1>4. D * (size + Q) = whole + D * Q
  <2> HIDE DEF size
  <2> QED
    BY <1>2
<1>5. T * (x + H) = a + T * H
  OBVIOUS
<1>6. (C + 1) * D = C * D + D /\ (m + 1) * D = m * D + D
  OBVIOUS
<1>7. D * Q \in Nat /\ T * H \in Nat /\ C * D \in Nat /\ m * D \in Nat
  BY Product
<1>8. count * D = C * D + (IF a < D THEN D ELSE 0)
  BY <1>6, <1>7
<1> DEFINE dq == D * Q
           th == T * H
           cd == C * D
           md == m * D
           left == D * (size + Q)
           right == T * (x + H)
           more == count * D
           most == (m + 1) * D
<1>9. /\ dq \in Nat /\ th \in Nat /\ cd \in Nat /\ md \in Nat
      /\ dq <= th + cd /\ th <= dq + md
      /\ left = whole + dq /\ right = a + th
      /\ more = cd + (IF a < D THEN D ELSE 0) /\ most = md + D
  BY <1>4, <1>5, <1>6, <1>7, <1>8
<1> HIDE DEF a, whole, dq, th, cd, md, left, right, more, most
<1>10. left <= right + more /\ right <= left + most
  BY <1>1, <1>3, <1>9
<1> QED
  BY <1>2, <1>10 DEF left, right, more, most, a

\* The shares of n orders and their sizes, with their sums.
Sized(n, T, D, share, size, shares, sizes) ==
    /\ n \in Nat /\ T \in Nat /\ D \in Nat \ {0}
    /\ \A i \in 0 .. n - 1 : share[i] \in Nat /\ size[i + 1] = SizeOf(T, D, share[i])
    /\ Adds(share, 0 .. n - 1, shares)
    /\ Adds(size, 1 .. n, sizes)

LEMMA SizesFill ==
    ASSUME NEW n, NEW T, NEW D, NEW share, NEW size, NEW shares, NEW sizes,
           Sized(n, T, D, share, size, shares, sizes)
    PROVE  LET H == shares[0 .. n - 1]
               Q == sizes[1 .. n]
               C == Cardinality({i \in 0 .. n - 1 : T * share[i] < D})
           IN  /\ H \in Nat /\ Q \in Nat /\ C \in Nat
               /\ D * Q <= T * H + C * D
               /\ T * H <= D * Q + n * D
<1> DEFINE H(m) == shares[0 .. m - 1]
           Q(m) == sizes[1 .. m]
           Few(m) == {i \in 0 .. m - 1 : T * share[i] < D}
           C(m) == Cardinality(Few(m))
           Holds(m) == /\ H(m) \in Nat /\ Q(m) \in Nat /\ C(m) \in Nat
                       /\ D * Q(m) <= T * H(m) + C(m) * D
                       /\ T * H(m) <= D * Q(m) + m * D
           Good == {m \in 0 .. n : Holds(m)}
<1>0. /\ n \in Nat /\ T \in Nat /\ D \in Nat \ {0}
      /\ \A i \in 0 .. n - 1 : share[i] \in Nat /\ size[i + 1] = SizeOf(T, D, share[i])
      /\ Adds(share, 0 .. n - 1, shares) /\ Adds(size, 1 .. n, sizes)
  BY Zenon DEF Sized
<1>1. ASSUME NEW i \in 0 .. n - 1 PROVE size[i + 1] \in Nat
  <2>1. T * share[i] \in Nat
    BY <1>0, Product
  <2> DEFINE a == T * share[i]
  <2>2. a \in Nat /\ size[i + 1] = Larger(1, a \div D)
    BY <1>0, <2>1 DEF SizeOf
  <2> HIDE DEF a
  <2> QED
    BY <1>0, <2>2 DEF Larger
<1>2. \A k \in 1 .. n : size[k] \in Nat
  <2> SUFFICES ASSUME NEW k \in 1 .. n PROVE size[k] \in Nat
    OBVIOUS
  <2>1. k - 1 \in 0 .. n - 1 /\ (k - 1) + 1 = k
    BY <1>0
  <2>2. size[(k - 1) + 1] \in Nat
    BY <1>1, <2>1
  <2> QED
    BY <2>1, <2>2
<1>3. /\ shares[0 .. 0 - 1] = 0
      /\ \A m \in 0 .. n - 1 : shares[0 .. m] = share[m] + shares[0 .. m - 1]
  <2>1. SumsUp(share, 0, n - 1, shares)
    BY <1>0 DEF SumsUp
  <2> QED
    BY <2>1, PrefixSums
<1>4. /\ sizes[1 .. 1 - 1] = 0
      /\ \A m \in 1 .. n : sizes[1 .. m] = size[m] + sizes[1 .. m - 1]
  <2>1. SumsUp(size, 1, n, sizes)
    BY <1>0, <1>2 DEF SumsUp
  <2> QED
    BY <2>1, PrefixSums
<1>5. \A m \in 0 .. n - 1 : (m + 1) - 1 = m /\ m + 1 \in 1 .. n
  BY <1>0
<1>6. ASSUME NEW m \in 0 .. n - 1
      PROVE  H(m + 1) = share[m] + H(m) /\ Q(m + 1) = size[m + 1] + Q(m)
  BY <1>3, <1>4, <1>5
<1>7. 0 \in Good
  <2>1. H(0) = 0
    BY <1>3
  <2>2. Q(0) = 0
    BY <1>4
  <2>3. C(0) = 0
    <3>1. Few(0) = {}
      OBVIOUS
    <3> QED
      BY <3>1, FS_EmptySet
  <2> HIDE DEF H, Q, C
  <2> QED
    BY <1>0, <2>1, <2>2, <2>3
<1>8. ASSUME NEW m \in 0 .. n - 1, m \in Good PROVE m + 1 \in Good
  <2>1. m \in Nat /\ m + 1 \in 0 .. n /\ Holds(m)
    BY <1>0, <1>8
  <2>2. C(m + 1) = IF T * share[m] < D THEN C(m) + 1 ELSE C(m)
    <3>1. IsFiniteSet(Few(m)) /\ m \notin Few(m)
      <4>1. IsFiniteSet(0 .. m - 1)
        BY <2>1, FS_Interval
      <4> QED
        BY <4>1, <2>1, FS_Subset
    <3>2. Few(m + 1) = IF T * share[m] < D THEN Few(m) \cup {m} ELSE Few(m)
      <4>1. 0 .. (m + 1) - 1 = (0 .. m - 1) \cup {m}
        BY <2>1
      <4> QED
        BY <4>1
    <3> HIDE DEF Few
    <3> QED
      BY <3>1, <3>2, FS_AddElement
  <2> DEFINE x == share[m]
             y == SizeOf(T, D, share[m])
             h == H(m)
             q == Q(m)
             c == C(m)
             h1 == H(m + 1)
             q1 == Q(m + 1)
             c1 == C(m + 1)
  <2>3. /\ x \in Nat /\ h1 = x + h /\ q1 = y + q
        /\ c1 = IF T * x < D THEN c + 1 ELSE c
    BY <1>0, <1>6, <2>2
  <2>4. /\ h \in Nat /\ q \in Nat /\ c \in Nat
        /\ D * q <= T * h + c * D /\ T * h <= D * q + m * D
    BY <2>1
  <2>5. y = SizeOf(T, D, x)
    OBVIOUS
  <2> HIDE DEF x, y, h, q, c, h1, q1, c1, Good
  <2>6. /\ y \in Nat
        /\ D * (y + q) <= T * (x + h) + (IF T * x < D THEN c + 1 ELSE c) * D
        /\ T * (x + h) <= D * (y + q) + (m + 1) * D
    BY <1>0, <2>1, <2>3, <2>4, <2>5, OneMoreSize
  <2>7. /\ h1 \in Nat /\ q1 \in Nat /\ c1 \in Nat
    BY <2>3, <2>4, <2>6
  <2>8. /\ D * q1 <= T * h1 + c1 * D
        /\ T * h1 <= D * q1 + (m + 1) * D
    BY <2>3, <2>6, Zenon
  <2>9. Holds(m + 1)
    BY <2>7, <2>8, Zenon DEF h1, q1, c1
  <2> QED
    BY <2>1, <2>9 DEF Good
<1>9. n \in Good
  <2>1. \A m \in 0 .. n : m \in Good
    <3> HIDE DEF Good
    <3> QED
      BY <1>0, <1>7, <1>8, UpTo
  <2> QED
    BY <1>0, <2>1
<1> QED
  BY <1>9

\* A sum of numbers of which the first is not zero.
LEMMA SumPositive ==
    ASSUME NEW n \in Nat \ {0}, NEW f, \A i \in 0 .. n - 1 : f[i] \in Nat, f[0] > 0
    PROVE  SumOf(f, 0 .. n - 1) \in Nat \ {0}
<1> DEFINE sum == CHOOSE g : Adds(f, 0 .. n - 1, g)
<1>1. Adds(f, 0 .. n - 1, sum)
  <2>1. IsFiniteSet(0 .. n - 1)
    BY FS_Interval
  <2>2. \E g : Adds(f, 0 .. n - 1, g)
    BY <2>1, AddsExists
  <2> QED
    BY <2>2
<1>2. SumOf(f, 0 .. n - 1) = sum[0 .. n - 1]
  BY DEF SumOf
<1> HIDE DEF sum
<1>3. /\ sum[0 .. 0 - 1] = 0
      /\ \A m \in 0 .. n - 1 : sum[0 .. m] = f[m] + sum[0 .. m - 1]
  <2>1. SumsUp(f, 0, n - 1, sum)
    BY <1>1 DEF SumsUp
  <2> QED
    BY <2>1, PrefixSums
<1> DEFINE T == {m \in 0 .. n - 1 : sum[0 .. m] \in Nat \ {0}}
<1>4. 0 \in T
  <2>0. 0 \in 0 .. n - 1
    OBVIOUS
  <2>1. sum[0 .. 0] = f[0] + sum[0 .. 0 - 1] /\ f[0] \in Nat
    BY <1>3, <2>0
  <2>2. sum[0 .. 0] \in Nat \ {0}
    BY <1>3, <2>1
  <2> QED
    BY <2>2
<1>5. ASSUME NEW m \in 0 .. (n - 1) - 1, m \in T PROVE m + 1 \in T
  <2>1. m + 1 \in 0 .. n - 1 /\ (m + 1) - 1 = m
    OBVIOUS
  <2>2. f[m + 1] \in Nat /\ sum[0 .. m] \in Nat \ {0}
    BY <1>5, <2>1
  <2>3. sum[0 .. m + 1] = f[m + 1] + sum[0 .. (m + 1) - 1]
    BY <1>3, <2>1
  <2>4. sum[0 .. m + 1] \in Nat \ {0}
    BY <2>1, <2>2, <2>3
  <2> QED
    BY <2>1, <2>4
<1>6. n - 1 \in T
  <2>1. n - 1 \in Nat
    OBVIOUS
  <2>2. \A m \in 0 .. n - 1 : m \in T
    <3> HIDE DEF T
    <3> QED
      BY <1>4, <1>5, <2>1, UpTo
  <2> QED
    BY <2>1, <2>2
<1> QED
  BY <1>2, <1>6

LEMMA PointsShares ==
    ASSUME NEW b, b.num \in Nat, b.den \in Nat \ {0}, NEW n \in Nat \ {0}
    PROVE  LET share == [i \in 0 .. n - 1 |-> Points!Share(b, n, i)]
           IN  /\ \A i \in 0 .. n - 1 : share[i] \in Nat
               /\ Points!Shares(b, n) = SumOf(share, 0 .. n - 1)
               /\ Points!Shares(b, n) \in Nat \ {0}
<1> DEFINE S == 0 .. n - 1
           share == [i \in S |-> Points!Share(b, n, i)]
           Is(iter) ==
             iter = [s \in SUBSET S |->
                       IF s = {} THEN 0
                       ELSE Points!Share(b, n, CHOOSE x \in s : TRUE)
                            + iter[s \ {CHOOSE x \in s : TRUE}]]
<1>1. \A k, m : Points!Power(k, m) = Martingale!Power(k, m)
  BY Zenon DEF Points!Power, Martingale!Power
<1>2. \A i \in S : share[i] \in Nat
  <2> SUFFICES ASSUME NEW i \in S PROVE Points!Share(b, n, i) \in Nat
    OBVIOUS
  <2>1. i \in Nat /\ n - 1 - i \in Nat
    OBVIOUS
  <2>2. Points!Power(b.num, i) \in Nat /\ Points!Power(b.den, n - 1 - i) \in Nat
    BY <1>1, <2>1, PowerIsNat
  <2> QED
    BY <2>2, Product DEF Points!Share
<1>3. 0 \in S /\ share[0] > 0
  <2>1. 0 \in S /\ n - 1 \in Nat /\ n - 1 - 0 = n - 1
    OBVIOUS
  <2>2. Points!Power(b.num, 0) = 1
    <3>1. \A m \in Nat : m = 0 => Martingale!Power(b.num, m) = 1
      BY PowerIsNat
    <3>2. Martingale!Power(b.num, 0) = 1
      BY <3>1
    <3> QED
      BY <1>1, <3>2
  <2>3. Points!Power(b.den, n - 1) \in Nat /\ Points!Power(b.den, n - 1) > 0
    <3> DEFINE d == b.den
    <3>1. d \in Nat /\ d > 0
      OBVIOUS
    <3> HIDE DEF d
    <3>2. Martingale!Power(d, n - 1) \in Nat /\ Martingale!Power(d, n - 1) > 0
      BY <2>1, <3>1, PowerIsNat
    <3> QED
      BY <1>1, <3>2 DEF d
  <2>4. Points!Share(b, n, 0) = Points!Power(b.num, 0) * Points!Power(b.den, n - 1 - 0)
    BY DEF Points!Share
  <2>5. Points!Share(b, n, 0) > 0
    BY <2>1, <2>2, <2>3, <2>4
  <2> QED
    BY <2>1, <2>5
<1>4. Points!Shares(b, n) = (CHOOSE iter : Is(iter))[S]
  BY Zenon DEF Points!Shares, Points!MapThenSumSet, Points!MapThenFoldSet
<1>5. ASSUME NEW iter PROVE Is(iter) <=> Adds(share, S, iter)
  <2>1. \A i \in S : share[i] = Points!Share(b, n, i)
    OBVIOUS
  <2>2. \A s \in SUBSET S : s # {} => (CHOOSE x \in s : TRUE) \in S
    <3> SUFFICES ASSUME NEW s \in SUBSET S, s # {} PROVE (CHOOSE x \in s : TRUE) \in S
      OBVIOUS
    <3>1. (CHOOSE x \in s : TRUE) \in s
      OBVIOUS
    <3> QED
      BY <3>1
  <2> HIDE DEF share, S
  <2> QED
    BY <2>1, <2>2 DEF Adds
<1>6. Points!Shares(b, n) = SumOf(share, S)
  <2> HIDE DEF Is, share, S
  <2> QED
    BY <1>4, <1>5, Zenon DEF SumOf
<1>7. SumOf(share, S) \in Nat \ {0}
  <2> HIDE DEF share
  <2> QED
    BY <1>2, <1>3, SumPositive
<1> QED
  BY <1>2, <1>6, <1>7

LEMMA TotalIsSum ==
    ASSUME NEW orders
    PROVE  TotalSize(orders)
              = SumOf([k \in DOMAIN orders |-> orders[k].size], DOMAIN orders)
<1> DEFINE S == DOMAIN orders
           size == [k \in S |-> orders[k].size]
           Is(iter) ==
             iter = [s \in SUBSET S |->
                       IF s = {} THEN 0
                       ELSE orders[CHOOSE x \in s : TRUE].size
                            + iter[s \ {CHOOSE x \in s : TRUE}]]
<1>1. TotalSize(orders) = (CHOOSE iter : Is(iter))[S]
  BY Zenon DEF TotalSize, MapThenSumSet, MapThenFoldSet
<1>2. ASSUME NEW iter PROVE Is(iter) <=> Adds(size, S, iter)
  <2>1. \A k \in S : size[k] = orders[k].size
    OBVIOUS
  <2>2. \A s \in SUBSET S : s # {} => (CHOOSE x \in s : TRUE) \in S
    <3> SUFFICES ASSUME NEW s \in SUBSET S, s # {} PROVE (CHOOSE x \in s : TRUE) \in S
      OBVIOUS
    <3>1. (CHOOSE x \in s : TRUE) \in s
      OBVIOUS
    <3> QED
      BY <3>1
  <2> HIDE DEF size, S
  <2> QED
    BY <2>1, <2>2 DEF Adds
<1> HIDE DEF Is, size, S
<1>3. TotalSize(orders) = SumOf(size, S)
  BY <1>1, <1>2, Zenon DEF SumOf
<1> QED
  BY <1>3 DEF size, S

LEMMA Cancelled ==
    ASSUME NEW k \in Nat \ {0}, NEW a \in Int, NEW b \in Int, k * a <= k * b
    PROVE  a <= b
<1> SUFFICES ASSUME a > b PROVE FALSE
  OBVIOUS
<1>1. a - b - 1 \in Nat /\ k * (a - b - 1) \in Nat
  BY Product
<1>2. k * (a - b - 1) = k * a - k * b - k
  OBVIOUS
<1> DEFINE x == k * a
           y == k * b
           z == k * (a - b - 1)
<1>3. x \in Int /\ y \in Int /\ z \in Nat /\ x <= y /\ z = x - y - k
  BY <1>1, <1>2
<1> HIDE DEF x, y, z
<1> QED
  BY <1>3

LEMMA Regrouped ==
    ASSUME NEW s \in Nat, NEW m \in Nat, NEW q \in Nat, NEW t \in Nat, NEW c \in Nat
    PROVE  /\ s * (q * m) = (s * m) * q
           /\ s * (t + c * m) = t * s + c * (s * m)
           /\ s * t = t * s
OBVIOUS

LEMMA RegroupedSum ==
    ASSUME NEW s \in Nat, NEW m \in Nat, NEW q \in Nat, NEW c \in Nat
    PROVE  s * (q * m + c * m) = (s * m) * q + c * (s * m)
OBVIOUS

\* The sizes of a points batch: both sides have the same.
LEMMA PointsVolume ==
    ASSUME ReadInv, strategy.kind = "points",
           NEW orders, DOMAIN orders = 1 .. strategy.orders,
           \A k \in 1 .. strategy.orders :
              orders[k].size = Points!LadderSize(strategy, r, k - 1)
    PROVE  LET quoted == TotalSize(orders) * Points!TwiceMid(r)
               target == 2 * TargetVolume(strategy) * Scale
               raised == Cardinality(Points!Raised(strategy, r))
           IN  /\ quoted <= target + raised * Points!TwiceMid(r)
               /\ target <= quoted + strategy.orders * Points!TwiceMid(r)
<1> DEFINE n == strategy.orders
           b == strategy.sizeBase
           M == Points!TwiceMid(r)
           Sh == Points!Shares(b, n)
           T == 2 * TargetVolume(strategy) * Scale
           D == Sh * M
           share == [i \in 0 .. n - 1 |-> Points!Share(b, n, i)]
           size == [k \in 1 .. n |-> orders[k].size]
           shares == CHOOSE sum : Adds(share, 0 .. n - 1, sum)
           sizes == CHOOSE sum : Adds(size, 1 .. n, sum)
<1>1. /\ n \in Nat \ {0} /\ b.num \in Nat /\ b.den \in Nat \ {0}
      /\ strategy.target \in Nat /\ strategy.coefficient \in Nat
  BY RoundAssumption DEF ReadInv
<1>2. M \in Nat \ {0}
  BY BestPrices DEF ReadInv, Points!TwiceMid
<1>3. /\ \A i \in 0 .. n - 1 : share[i] \in Nat
      /\ Sh = SumOf(share, 0 .. n - 1)
      /\ Sh \in Nat \ {0}
  <2> HIDE DEF n, b
  <2> QED
    BY <1>1, PointsShares
<1>4. T \in Nat
  <2>1. strategy.target * strategy.coefficient \in Nat
    BY <1>1, Product
  <2> DEFINE z == strategy.target * strategy.coefficient
  <2>2. TargetVolume(strategy) = z \div 100 /\ z \in Nat
    BY <2>1 DEF TargetVolume
  <2> HIDE DEF z
  <2>3. 2 * TargetVolume(strategy) \in Nat /\ Scale \in Nat
    BY <2>2, ScaleAssumption
  <2> QED
    BY <2>3, Product, Zenon
<1>5. D \in Nat \ {0}
  <2> HIDE DEF Sh, M
  <2> QED
    BY <1>2, <1>3, Product
<1>6. /\ \A i \in 0 .. n - 1 : share[i] = Points!Share(b, n, i)
      /\ \A k \in 1 .. n : size[k] = orders[k].size
  OBVIOUS
<1>7. Points!TargetVolume(strategy) = TargetVolume(strategy)
  BY DEF Points!TargetVolume, TargetVolume
<1>8. ASSUME NEW i \in 0 .. n - 1 PROVE size[i + 1] = SizeOf(T, D, share[i])
  <2>1. i + 1 \in 1 .. n /\ (i + 1) - 1 = i
    BY <1>1
  <2>2. size[i + 1] = Points!LadderSize(strategy, r, i)
    BY <2>1
  <2>3. Points!LadderSize(strategy, r, i)
           = Points!Larger(1, (2 * Points!TargetVolume(strategy) * Scale * Points!Share(b, n, i))
                                 \div (Points!Shares(b, n) * Points!TwiceMid(r)))
    BY DEF Points!LadderSize
  <2>4. \A x, y : Points!Larger(x, y) = Larger(x, y)
    BY DEF Points!Larger, Larger
  <2>5. share[i] = Points!Share(b, n, i)
    BY <1>6
  <2> HIDE DEF size, share, n, b
  <2> QED
    BY <1>7, <2>2, <2>3, <2>4, <2>5, Zenon DEF SizeOf
<1>9. Adds(share, 0 .. n - 1, shares)
  <2> HIDE DEF share, n
  <2>1. IsFiniteSet(0 .. n - 1)
    BY <1>1, FS_Interval
  <2>2. \E sum : Adds(share, 0 .. n - 1, sum)
    BY <2>1, AddsExists
  <2> QED
    BY <2>2
<1>10. Adds(size, 1 .. n, sizes)
  <2> HIDE DEF size, n
  <2>1. IsFiniteSet(1 .. n)
    BY <1>1, FS_Interval
  <2>2. \E sum : Adds(size, 1 .. n, sum)
    BY <2>1, AddsExists
  <2> QED
    BY <2>2
<1>11. Sh = shares[0 .. n - 1]
  BY <1>3 DEF SumOf
<1>12. TotalSize(orders) = sizes[1 .. n]
  <2>1. TotalSize(orders) = SumOf(size, 1 .. n)
    BY TotalIsSum
  <2> HIDE DEF size, n
  <2> QED
    BY <2>1 DEF SumOf
<1>13. Sized(n, T, D, share, size, shares, sizes)
  <2> HIDE DEF n, T, D, share, size, shares, sizes
  <2> QED
    BY <1>1, <1>3, <1>4, <1>5, <1>8, <1>9, <1>10 DEF Sized
<1> DEFINE Q == TotalSize(orders)
           C == Cardinality({i \in 0 .. n - 1 : T * share[i] < D})
<1>14. /\ Q \in Nat /\ C \in Nat
       /\ D * Q <= T * Sh + C * D
       /\ T * Sh <= D * Q + n * D
  <2> HIDE DEF n, T, D, share, size, shares, sizes, Sh
  <2> QED
    BY <1>11, <1>12, <1>13, SizesFill
<1>15. C = Cardinality(Points!Raised(strategy, r))
  <2>1. Points!Raised(strategy, r)
           = {i \in 0 .. n - 1 : 2 * Points!TargetVolume(strategy) * Scale * Points!Share(b, n, i)
                                    < Points!Shares(b, n) * Points!TwiceMid(r)}
    BY Zenon DEF Points!Raised
  <2>2. Points!Raised(strategy, r) = {i \in 0 .. n - 1 : T * Points!Share(b, n, i) < D}
    BY <1>7, <2>1, Zenon
  <2>3. {i \in 0 .. n - 1 : T * share[i] < D} = {i \in 0 .. n - 1 : T * Points!Share(b, n, i) < D}
    <3> HIDE DEF share, n, T, D, b
    <3> QED
      BY <1>6
  <2> QED
    BY <2>2, <2>3, Zenon
<1> HIDE DEF n, b, M, Sh, T, share, size, shares, sizes, Q, C
<1>16. Q * M <= T + C * M
  <2>1. /\ Sh * (Q * M) = D * Q
        /\ Sh * (T + C * M) = T * Sh + C * D
    BY <1>2, <1>3, <1>4, <1>14, Regrouped
  <2>2. Q * M \in Int /\ T + C * M \in Int
    BY <1>2, <1>4, <1>14
  <2>3. Sh * (Q * M) <= Sh * (T + C * M)
    BY <1>14, <2>1, Zenon
  <2> DEFINE u == Q * M
             v == T + C * M
  <2>4. u \in Int /\ v \in Int /\ Sh * u <= Sh * v
    BY <2>2, <2>3
  <2> HIDE DEF u, v
  <2>5. u <= v
    BY <1>3, <2>4, Cancelled
  <2> QED
    BY <2>5 DEF u, v
<1>17. T <= Q * M + n * M
  <2>1. /\ Sh * (Q * M + n * M) = D * Q + n * D
        /\ Sh * T = T * Sh
    <3>1. Sh * (Q * M + n * M) = D * Q + n * D
      BY <1>1, <1>2, <1>3, <1>14, RegroupedSum
    <3>2. Sh * T = T * Sh
      BY <1>3, <1>4
    <3> QED
      BY <3>1, <3>2
  <2>2. Q * M + n * M \in Int /\ T \in Int
    BY <1>1, <1>2, <1>4, <1>14
  <2>3. Sh * T <= Sh * (Q * M + n * M)
    BY <1>14, <2>1, Zenon
  <2> DEFINE u == Q * M + n * M
  <2>4. u \in Int /\ Sh * T <= Sh * u
    BY <2>2, <2>3
  <2> HIDE DEF u
  <2>5. T <= u
    BY <1>3, <1>4, <2>4, Cancelled
  <2> QED
    BY <2>5 DEF u
<1> QED
  BY <1>15, <1>16, <1>17, Zenon DEF Q, M, T, n

\* The sizes of a points ladder add up to the target volume at the middle
\* price (and not at the lowest, as the code's comment means), for any number
\* of orders, size base, target and external prices: at most one unit
\* less for each order, and more only by the orders raised to one unit.
THEOREM LadderQuotesVolume == Spec => []LadderVolume
<1>1. ReadInv => LadderVolume
  <2> SUFFICES ASSUME ReadInv, Priced("points"), NEW orders \in {OurBids, OurAsks}
               PROVE  LET quoted == TotalSize(orders) * Points!TwiceMid(r)
                          target == 2 * TargetVolume(strategy) * Scale
                          raised == Cardinality(Points!Raised(strategy, r))
                      IN  /\ quoted <= target + raised * Points!TwiceMid(r)
                          /\ target <= quoted + strategy.orders * Points!TwiceMid(r)
    BY Zenon DEF LadderVolume
  <2>1. strategy.kind = "points"
    BY DEF Priced
  <2>2. /\ DOMAIN orders = 1 .. strategy.orders
        /\ \A k \in 1 .. strategy.orders :
              orders[k].size = Points!LadderSize(strategy, r, k - 1)
    <3>1. \A side, price, size : Points!Order(side, price, size).size = size
      BY DEF Points!Order
    <3>2. strategy.orders \in Nat
      BY <2>1, RoundAssumption DEF ReadInv
    <3>3. CASE orders = OurBids
      <4>1. orders = Points!Bids(strategy, r, reducing)
        BY <2>1, <3>3 DEF OurBids
      <4> QED
        BY <3>1, <3>2, <4>1 DEF Points!Bids
    <3>4. CASE orders = OurAsks
      <4>1. orders = Points!Asks(strategy, r, reducing)
        BY <2>1, <3>4 DEF OurAsks
      <4> QED
        BY <3>1, <3>2, <4>1 DEF Points!Asks
    <3> QED
      BY <3>3, <3>4
  <2> QED
    BY <2>1, <2>2, PointsVolume
<1> QED
  BY <1>1, ReadsKept, PTL
-----------------------------------------------------------------------------
(* What a points ladder is worth at its own prices.                        *)

LEMMA WorthIsSum ==
    ASSUME NEW orders
    PROVE  Worth(orders)
              = SumOf([k \in DOMAIN orders |-> (orders[k].price + 1) * (orders[k].size + 1)],
                      DOMAIN orders)
<1> DEFINE S == DOMAIN orders
           worth == [k \in S |-> (orders[k].price + 1) * (orders[k].size + 1)]
           Is(iter) ==
             iter = [s \in SUBSET S |->
                       IF s = {} THEN 0
                       ELSE (orders[CHOOSE x \in s : TRUE].price + 1)
                                * (orders[CHOOSE x \in s : TRUE].size + 1)
                            + iter[s \ {CHOOSE x \in s : TRUE}]]
<1>1. Worth(orders) = (CHOOSE iter : Is(iter))[S]
  BY Zenon DEF Worth, MapThenSumSet, MapThenFoldSet
<1>2. ASSUME NEW iter PROVE Is(iter) <=> Adds(worth, S, iter)
  <2>1. \A k \in S : worth[k] = (orders[k].price + 1) * (orders[k].size + 1)
    OBVIOUS
  <2>2. \A s \in SUBSET S : s # {} => (CHOOSE x \in s : TRUE) \in S
    <3> SUFFICES ASSUME NEW s \in SUBSET S, s # {} PROVE (CHOOSE x \in s : TRUE) \in S
      OBVIOUS
    <3>1. (CHOOSE x \in s : TRUE) \in s
      OBVIOUS
    <3> QED
      BY <3>1
  <2> HIDE DEF worth, S
  <2> QED
    BY <2>1, <2>2 DEF Adds
<1> HIDE DEF Is, worth, S
<1>3. Worth(orders) = SumOf(worth, S)
  BY <1>1, <1>2, Zenon DEF SumOf
<1> QED
  BY <1>3 DEF worth, S

LEMMA Scaled ==
    ASSUME NEW a \in Nat, NEW b \in Nat, NEW c \in Nat, a <= b
    PROVE  a * c <= b * c /\ c * a <= c * b
<1>1. b - a \in Nat /\ (b - a) * c \in Nat
  BY Product
<1>2. (b - a) * c = b * c - a * c /\ c * a = a * c /\ c * b = b * c
  OBVIOUS
<1> DEFINE x == a * c
           y == b * c
           z == (b - a) * c
<1>3. x \in Int /\ y \in Int /\ z \in Nat /\ z = y - x
  BY <1>1, <1>2
<1> HIDE DEF x, y, z
<1>4. x <= y
  BY <1>3
<1> QED
  BY <1>2, <1>4 DEF x, y

\* One more order, of price p and size s, each a unit up; every price is worth
\* e or more.
LEMMA OneMoreWorth ==
    ASSUME NEW e \in Nat, NEW u \in Nat, NEW p \in Nat, NEW s \in Nat,
           NEW w \in Nat, NEW q \in Nat, NEW m \in Nat,
           e <= (p + 1) * u, e * (q + m) <= w * u
    PROVE  /\ (p + 1) * (s + 1) + w \in Nat
           /\ e * ((s + q) + (m + 1)) <= ((p + 1) * (s + 1) + w) * u
<1> DEFINE pu == (p + 1) * u
           es == e * (s + 1)
           ps == pu * (s + 1)
           eq == e * (q + m)
           wu == w * u
           worth == (p + 1) * (s + 1)
<1>1. pu \in Nat /\ worth \in Nat /\ wu \in Nat /\ eq \in Nat /\ es \in Nat
  BY Product
<1>2. es <= ps /\ ps \in Nat
  <2> HIDE DEF pu
  <2> QED
    BY <1>1, Scaled, Product DEF pu
<1>3. e * ((s + q) + (m + 1)) = es + eq
  OBVIOUS
<1>4. (worth + w) * u = worth * u + wu
  <2> HIDE DEF worth
  <2> QED
    BY <1>1
<1>5. worth * u = ps
  OBVIOUS
<1>6. eq <= wu
  OBVIOUS
<1>7. worth + w \in Nat
  <2> HIDE DEF worth
  <2> QED
    BY <1>1
<1>8. es + eq <= ps + wu
  <2> HIDE DEF es, ps, eq, wu
  <2> QED
    BY <1>1, <1>2, <1>6
<1>9. e * ((s + q) + (m + 1)) <= (worth + w) * u
  <2> HIDE DEF es, ps, eq, wu, worth
  <2> QED
    BY <1>3, <1>4, <1>5, <1>8, Zenon
<1> QED
  BY <1>7, <1>9 DEF worth

\* n orders of sizes and prices that are numbers, every price worth e / u or
\* more but for a tick.
Ranged(n, e, u, orders) ==
    /\ n \in Nat /\ e \in Nat /\ u \in Nat
    /\ DOMAIN orders = 1 .. n
    /\ \A k \in 1 .. n : /\ orders[k].size \in Nat /\ orders[k].price \in Nat
                         /\ e <= (orders[k].price + 1) * u

LEMMA WorthAdds ==
    ASSUME NEW n, NEW e, NEW u, NEW orders, Ranged(n, e, u, orders)
    PROVE  /\ Worth(orders) \in Nat /\ TotalSize(orders) \in Nat
           /\ e * (TotalSize(orders) + n) <= Worth(orders) * u
<1> DEFINE size == [k \in 1 .. n |-> orders[k].size]
           worth == [k \in 1 .. n |-> (orders[k].price + 1) * (orders[k].size + 1)]
           sizes == CHOOSE sum : Adds(size, 1 .. n, sum)
           worths == CHOOSE sum : Adds(worth, 1 .. n, sum)
<1>0. /\ n \in Nat /\ e \in Nat /\ u \in Nat
      /\ DOMAIN orders = 1 .. n
      /\ \A k \in 1 .. n : /\ orders[k].size \in Nat /\ orders[k].price \in Nat
                           /\ e <= (orders[k].price + 1) * u
  BY Zenon DEF Ranged
<1>1. \A k \in 1 .. n : /\ size[k] = orders[k].size /\ size[k] \in Int
                        /\ worth[k] = (orders[k].price + 1) * (orders[k].size + 1)
                        /\ worth[k] \in Int
  <2> SUFFICES ASSUME NEW k \in 1 .. n
               PROVE  /\ orders[k].size \in Int
                      /\ (orders[k].price + 1) * (orders[k].size + 1) \in Int
    OBVIOUS
  <2>1. orders[k].price + 1 \in Nat /\ orders[k].size + 1 \in Nat /\ orders[k].size \in Int
    BY <1>0
  <2> DEFINE x == orders[k].price + 1
             y == orders[k].size + 1
  <2>2. x \in Nat /\ y \in Nat
    BY <2>1
  <2> HIDE DEF x, y
  <2>3. x * y \in Int
    BY <2>2
  <2> QED
    BY <2>1, <2>3 DEF x, y
<1>2. /\ TotalSize(orders) = SumOf(size, 1 .. n)
      /\ Worth(orders) = SumOf(worth, 1 .. n)
  BY <1>0, TotalIsSum, WorthIsSum
<1> HIDE DEF size, worth
<1>3. Adds(size, 1 .. n, sizes) /\ Adds(worth, 1 .. n, worths)
  <2>1. IsFiniteSet(1 .. n)
    BY <1>0, FS_Interval
  <2>2. (\E sum : Adds(size, 1 .. n, sum)) /\ (\E sum : Adds(worth, 1 .. n, sum))
    BY <2>1, AddsExists
  <2> QED
    BY <2>2
<1>4. TotalSize(orders) = sizes[1 .. n] /\ Worth(orders) = worths[1 .. n]
  BY <1>2 DEF SumOf
<1> HIDE DEF sizes, worths
<1>5. /\ sizes[1 .. 1 - 1] = 0
      /\ \A m \in 1 .. n : sizes[1 .. m] = size[m] + sizes[1 .. m - 1]
  <2>1. SumsUp(size, 1, n, sizes)
    BY <1>0, <1>1, <1>3 DEF SumsUp
  <2> QED
    BY <2>1, PrefixSums
<1>6. /\ worths[1 .. 1 - 1] = 0
      /\ \A m \in 1 .. n : worths[1 .. m] = worth[m] + worths[1 .. m - 1]
  <2>1. SumsUp(worth, 1, n, worths)
    BY <1>0, <1>1, <1>3 DEF SumsUp
  <2> QED
    BY <2>1, PrefixSums
<1> DEFINE Q(m) == sizes[1 .. m]
           W(m) == worths[1 .. m]
           Holds(m) == Q(m) \in Nat /\ W(m) \in Nat /\ e * (Q(m) + m) <= W(m) * u
           Good == {m \in 0 .. n : Holds(m)}
<1>7. 0 \in Good
  <2>1. Q(0) = 0 /\ W(0) = 0
    BY <1>5, <1>6
  <2> HIDE DEF Q, W
  <2> QED
    BY <1>0, <2>1
<1>8. ASSUME NEW m \in 0 .. n - 1, m \in Good PROVE m + 1 \in Good
  <2>0. Holds(m)
    <3> HIDE DEF Holds
    <3> QED
      BY <1>8
  <2>1. m \in Nat /\ m + 1 \in 1 .. n /\ (m + 1) - 1 = m /\ m + 1 \in 0 .. n
    BY <1>0
  <2> DEFINE p == orders[m + 1].price
             s == orders[m + 1].size
             q == Q(m)
             w == W(m)
             q1 == Q(m + 1)
             w1 == W(m + 1)
  <2>2. p \in Nat /\ s \in Nat /\ e <= (p + 1) * u
    BY <1>0, <2>1
  <2>3. q1 = s + q /\ w1 = (p + 1) * (s + 1) + w
    BY <1>1, <1>5, <1>6, <2>1
  <2>4. q \in Nat /\ w \in Nat /\ e * (q + m) <= w * u
    BY <2>0
  <2> HIDE DEF p, s, q, w, q1, w1
  <2>5. /\ (p + 1) * (s + 1) + w \in Nat
        /\ e * ((s + q) + (m + 1)) <= ((p + 1) * (s + 1) + w) * u
    BY <1>0, <2>1, <2>2, <2>4, OneMoreWorth
  <2>6. q1 \in Nat
    BY <2>2, <2>3, <2>4
  <2>7. w1 \in Nat /\ e * (q1 + (m + 1)) <= w1 * u
    BY <2>3, <2>5, Zenon
  <2>8. Holds(m + 1)
    BY <2>6, <2>7, Zenon DEF q1, w1
  <2> QED
    BY <2>1, <2>8
<1>9. n \in Good
  <2>1. \A m \in 0 .. n : m \in Good
    <3> HIDE DEF Good
    <3> QED
      BY <1>0, <1>7, <1>8, UpTo
  <2> QED
    BY <1>0, <2>1
<1> QED
  BY <1>4, <1>9

\* Sizes that make up a target at the middle price m, of prices not below l
\* parts of u of it, are worth t where the target makes up for those parts.
LEMMA MakesUp ==
    ASSUME NEW m \in Nat, NEW l \in Nat, NEW u \in Nat \ {0}, NEW q \in Nat, NEW n \in Nat,
           NEW w \in Nat, NEW t \in Nat, NEW v \in Nat, NEW c \in Nat,
           2 * v * c <= q * m + n * m,
           (m * l) * (q + n) <= w * (2 * u),
           t * u <= v * l
    PROVE  t * c <= w
<1> DEFINE tu == t * u
           vl == v * l
           tc == t * c
           vc == v * c
           mq == q * m + n * m
<1>1. tu \in Nat /\ vl \in Nat /\ tc \in Nat /\ vc \in Nat /\ mq \in Nat
  BY Product
<1>2. tu * c <= vl * c
  <2> HIDE DEF tu, vl
  <2> QED
    BY <1>1, Scaled DEF tu, vl
<1>3. (2 * vc) * l <= mq * l
  <2>1. 2 * vc <= mq /\ 2 * vc \in Nat
    <3>1. 2 * vc = 2 * v * c
      OBVIOUS
    <3> HIDE DEF mq, vc
    <3> QED
      BY <1>1, <3>1 DEF mq
  <2> HIDE DEF vc, mq
  <2> QED
    BY <1>1, <2>1, Scaled
<1>4. /\ tu * c = u * tc
      /\ (2 * vc) * l = 2 * (vl * c)
      /\ mq * l = (m * l) * (q + n)
      /\ w * (2 * u) = 2 * (u * w)
  OBVIOUS
<1> DEFINE a == u * tc
           b == vl * c
           d == mq * l
           f == u * w
<1>5. a \in Int /\ b \in Int /\ d \in Int /\ f \in Int
  BY <1>1, Product
<1>6. a <= b
  <2> HIDE DEF tu, tc, vl
  <2> QED
    BY <1>2, <1>4
<1>7. 2 * b <= d /\ d <= 2 * f
  <2> HIDE DEF mq, vc, vl
  <2> QED
    BY <1>3, <1>4
<1>8. a <= f
  <2> HIDE DEF a, b, d, f
  <2> QED
    BY <1>5, <1>6, <1>7
<1>9. u * tc <= u * w /\ tc \in Int /\ w \in Int
  <2> HIDE DEF tc
  <2> QED
    BY <1>1, <1>8
<1>10. tc <= w
  <2> HIDE DEF tc
  <2> QED
    BY <1>9, Cancelled
<1> QED
  BY <1>10

\* A price that was truncated to ticks, from what is not below e.
LEMMA TickBelow ==
    ASSUME NEW z \in Int, NEW e \in Nat, e <= z
    PROVE  /\ Truncated(z, 2 * Unit) \in Nat
           /\ e <= (Truncated(z, 2 * Unit) + 1) * (2 * Unit)
BY DEF Truncated, Unit

LEMMA LadderSizeIsNat ==
    ASSUME ReadInv, strategy.kind = "points", NEW k \in 1 .. strategy.orders
    PROVE  Points!LadderSize(strategy, r, k - 1) \in Nat
<1> DEFINE n == strategy.orders
           b == strategy.sizeBase
           share == [j \in 0 .. n - 1 |-> Points!Share(b, n, j)]
           x == 2 * Points!TargetVolume(strategy) * Scale * Points!Share(b, n, k - 1)
           d == Points!Shares(b, n) * Points!TwiceMid(r)
<1>1. /\ n \in Nat \ {0} /\ b.num \in Nat /\ b.den \in Nat \ {0}
      /\ strategy.target \in Nat /\ strategy.coefficient \in Nat
  BY RoundAssumption DEF ReadInv
<1>2. Points!TwiceMid(r) \in Nat \ {0}
  BY BestPrices DEF ReadInv, Points!TwiceMid
<1>3. (\A j \in 0 .. n - 1 : share[j] \in Nat) /\ Points!Shares(b, n) \in Nat \ {0}
  <2> HIDE DEF n, b
  <2> QED
    BY <1>1, PointsShares
<1>4. Points!Share(b, n, k - 1) \in Nat
  <2>1. k - 1 \in 0 .. n - 1
    BY <1>1
  <2>2. share[k - 1] = Points!Share(b, n, k - 1)
    BY <2>1
  <2> HIDE DEF share
  <2> QED
    BY <1>3, <2>1, <2>2
<1>5. Points!TargetVolume(strategy) \in Nat
  <2> DEFINE z == strategy.target * strategy.coefficient
  <2>1. z \in Nat /\ Points!TargetVolume(strategy) = z \div 100
    BY <1>1, Product DEF Points!TargetVolume
  <2> HIDE DEF z
  <2> QED
    BY <2>1
<1>6. x \in Nat
  <2> DEFINE v == Points!TargetVolume(strategy)
             s == Points!Share(b, n, k - 1)
  <2>1. v \in Nat /\ s \in Nat /\ Scale \in Nat
    BY <1>4, <1>5, ScaleAssumption
  <2> HIDE DEF v, s
  <2>2. (2 * v * Scale) \in Nat
    BY <2>1, Product
  <2>3. 2 * v * Scale * s \in Nat
    BY <2>1, <2>2, Product
  <2> QED
    BY <2>3 DEF v, s
<1>7. d \in Nat \ {0}
  <2> DEFINE h == Points!Shares(b, n)
             m == Points!TwiceMid(r)
  <2>1. h \in Nat \ {0} /\ m \in Nat \ {0}
    BY <1>2, <1>3
  <2> HIDE DEF h, m
  <2>2. h * m \in Nat \ {0}
    BY <2>1, Product
  <2> QED
    BY <2>2 DEF h, m
<1>8. Points!LadderSize(strategy, r, k - 1) = Points!Larger(1, x \div d)
  BY DEF Points!LadderSize
<1> HIDE DEF x, d
<1>9. x \div d \in Nat
  BY <1>6, <1>7
<1> QED
  BY <1>8, <1>9 DEF Points!Larger

\* A side of the ladder: orders of the sizes of LadderSize, at prices that are
\* l parts of the middle or more, make up for the other parts.
LEMMA SideCovered ==
    ASSUME ReadInv, strategy.kind = "points",
           NEW orders, DOMAIN orders = 1 .. strategy.orders,
           NEW l \in Nat,
           \A k \in 1 .. strategy.orders :
              /\ orders[k].size = Points!LadderSize(strategy, r, k - 1)
              /\ \E z \in Int : /\ Points!TwiceMid(r) * l <= z
                                /\ orders[k].price = Truncated(z, 2 * Unit),
           strategy.target * Unit <= TargetVolume(strategy) * l
    PROVE  Worth(orders) >= strategy.target * Scale
<1> DEFINE M == Points!TwiceMid(r)
           V == TargetVolume(strategy)
           n == strategy.orders
           t == strategy.target
           e == M * l
<1>1. /\ n \in Nat /\ t \in Nat /\ V \in Nat /\ M \in Nat /\ Unit \in Nat \ {0}
      /\ Scale \in Nat
  <2>1. n \in Nat /\ t \in Nat /\ strategy.coefficient \in Nat /\ Scale \in Nat
    BY RoundAssumption, ScaleAssumption DEF ReadInv
  <2>2. M \in Nat
    BY BestPrices DEF ReadInv, Points!TwiceMid
  <2>3. t * strategy.coefficient \in Nat
    BY <2>1, Product
  <2> DEFINE z == t * strategy.coefficient
  <2>4. z \in Nat /\ V = z \div 100
    BY <2>3 DEF TargetVolume
  <2> HIDE DEF z, V, M
  <2>5. V \in Nat
    BY <2>4
  <2> QED
    BY <2>1, <2>2, <2>5 DEF Unit
<1>2. e \in Nat /\ 2 * Unit \in Nat
  <2> HIDE DEF M
  <2> QED
    BY <1>1, Product DEF Unit
<1>3. ASSUME NEW k \in 1 .. n
      PROVE  /\ orders[k].size \in Nat /\ orders[k].price \in Nat
             /\ e <= (orders[k].price + 1) * (2 * Unit)
  <2>1. PICK z \in Int : e <= z /\ orders[k].price = Truncated(z, 2 * Unit)
    OBVIOUS
  <2>2. orders[k].price \in Nat /\ e <= (orders[k].price + 1) * (2 * Unit)
    <3> HIDE DEF e
    <3> QED
      BY <1>2, <2>1, TickBelow
  <2>3. orders[k].size \in Nat
    BY LadderSizeIsNat
  <2> QED
    BY <2>2, <2>3
<1>4. Ranged(n, e, 2 * Unit, orders)
  <2> HIDE DEF e
  <2> QED
    BY <1>1, <1>2, <1>3 DEF Ranged
<1> DEFINE Q == TotalSize(orders)
           W == Worth(orders)
<1>5. W \in Nat /\ Q \in Nat /\ e * (Q + n) <= W * (2 * Unit)
  <2> HIDE DEF e, n
  <2> QED
    BY <1>4, WorthAdds
<1>6. 2 * V * Scale <= Q * M + n * M
  BY PointsVolume
<1>7. t * Unit <= V * l
  OBVIOUS
<1> HIDE DEF M, V, n, t, Q, W
<1>8. t * Scale <= W
  BY <1>1, <1>5, <1>6, <1>7, MakesUp
<1>9. W \in Int /\ t * Scale \in Int
  BY <1>1, <1>5
<1> QED
  BY <1>8, <1>9 DEF t, W

\* A side of a points ladder is worth the commitment at its own prices, for any
\* options, exposure, reduction and external prices, where the target volume
\* makes up for the furthest bid's offset.
THEOREM CommitmentIsCovered == Spec => []CommitmentCovered
<1>1. ASSUME ReadInv, Priced("points")
      PROVE  LET far == Points!BidOffset(strategy, r, reducing)
                        + (strategy.orders - 1) * strategy.spacing
             IN  /\ far < Unit
                    /\ TargetVolume(strategy) * (Unit - far) >= strategy.target * Unit
                       => Worth(OurBids) >= strategy.target * Scale
                 /\ TargetVolume(strategy) >= strategy.target
                       => Worth(OurAsks) >= strategy.target * Scale
  <2> DEFINE M == Points!TwiceMid(r)
             n == strategy.orders
             spacing == strategy.spacing
             down == Points!BidOffset(strategy, r, reducing)
             up == Points!AskOffset(strategy, r, reducing)
             far == down + (n - 1) * spacing
             V == TargetVolume(strategy)
             t == strategy.target
  <2>1. /\ strategy.kind = "points" /\ strategy.initialOffset \in Nat
        /\ n \in Nat \ {0} /\ spacing \in Nat /\ t \in Nat
    BY <1>1, RoundAssumption DEF ReadInv, Priced
  <2>2. M \in Nat
    BY <1>1, BestPrices DEF ReadInv, Points!TwiceMid
  <2>3. down \in Nat /\ up \in Nat
    BY <2>1, PointsOffset DEF Points!BidOffset, Points!AskOffset, Points!TakerOffset
  <2>4. \A k \in 1 .. n : /\ (k - 1) * spacing \in Nat /\ (n - 1) * spacing \in Nat
                          /\ (k - 1) * spacing <= (n - 1) * spacing
    BY <2>1, WithinLadder
  <2>5. V \in Int
    BY <1>1, RoundAssumption DEF ReadInv, TargetVolume
  <2>6. \A side, price, size : /\ Points!Order(side, price, size).size = size
                               /\ Points!Order(side, price, size).price = price
    BY DEF Points!Order
  <2>7. ASSUME far < Unit, V * (Unit - far) >= t * Unit
        PROVE  Worth(OurBids) >= t * Scale
    <3> DEFINE l == Unit - far
               last == (n - 1) * spacing
    <3>1. l \in Nat /\ far \in Nat /\ last \in Nat
      <4>1. last \in Nat
        BY <2>1, Product
      <4>2. far = down + last /\ far < Unit
        BY <2>7
      <4> HIDE DEF last, down, far
      <4> QED
        BY <2>3, <4>1, <4>2 DEF Unit
    <3>2. DOMAIN OurBids = 1 .. n
      BY <2>1 DEF OurBids, Points!Bids
    <3>3. ASSUME NEW k \in 1 .. n
          PROVE  /\ OurBids[k].size = Points!LadderSize(strategy, r, k - 1)
                 /\ \E z \in Int : /\ M * l <= z
                                   /\ OurBids[k].price = Truncated(z, 2 * Unit)
      <4> DEFINE ladder == (k - 1) * spacing
                 x == Unit - ladder - down
                 z == M * x
      <4>1. OurBids[k] = Points!Order("buy", Points!BidPrice(strategy, r, down, k - 1),
                                      Points!LadderSize(strategy, r, k - 1))
        BY <2>1 DEF OurBids, Points!Bids
      <4>2. OurBids[k].price = Truncated(z, 2 * Unit)
        BY <2>6, <4>1, SameMoves DEF Points!BidPrice
      <4>3. ladder \in Nat /\ ladder <= last
        BY <2>4
      <4>4. x \in Nat /\ l <= x
        <5>1. far = down + last
          OBVIOUS
        <5> HIDE DEF ladder, last, down, far
        <5> QED
          BY <2>3, <3>1, <4>3, <5>1 DEF Unit
      <4>5. z \in Int /\ M * l <= z
        <5> HIDE DEF x, l, M
        <5> QED
          BY <2>2, <3>1, <4>4, Scaled
      <4>6. OurBids[k].size = Points!LadderSize(strategy, r, k - 1)
        BY <2>6, <4>1
      <4> HIDE DEF z, l, M
      <4> QED
        BY <4>2, <4>5, <4>6
    <3>4. t * Unit <= V * l
      <4> HIDE DEF V, far, t
      <4> QED
        BY <2>1, <2>5, <2>7, <3>1 DEF Unit
    <3> HIDE DEF l
    <3> QED
      BY <1>1, <2>1, <3>1, <3>2, <3>3, <3>4, SideCovered
  <2>8. ASSUME V >= t PROVE Worth(OurAsks) >= t * Scale
    <3>1. DOMAIN OurAsks = 1 .. n
      BY <2>1 DEF OurAsks, Points!Asks
    <3>2. ASSUME NEW k \in 1 .. n
          PROVE  /\ OurAsks[k].size = Points!LadderSize(strategy, r, k - 1)
                 /\ \E z \in Int : /\ M * Unit <= z
                                   /\ OurAsks[k].price = Truncated(z, 2 * Unit)
      <4> DEFINE ladder == (k - 1) * spacing
                 x == Unit + ladder + up
                 z == M * x
      <4>1. OurAsks[k] = Points!Order("sell", Points!AskPrice(strategy, r, up, k - 1),
                                      Points!LadderSize(strategy, r, k - 1))
        BY <2>1 DEF OurAsks, Points!Asks
      <4>2. OurAsks[k].price = Truncated(z, 2 * Unit)
        BY <2>6, <4>1, SameMoves DEF Points!AskPrice
      <4>3. ladder \in Nat
        BY <2>4
      <4>4. x \in Nat /\ Unit <= x /\ Unit \in Nat
        <5> HIDE DEF ladder, up
        <5> QED
          BY <2>3, <4>3 DEF Unit
      <4>5. z \in Int /\ M * Unit <= z
        <5> HIDE DEF x, M
        <5> QED
          BY <2>2, <4>4, Scaled
      <4>6. OurAsks[k].size = Points!LadderSize(strategy, r, k - 1)
        BY <2>6, <4>1
      <4> HIDE DEF z, M
      <4> QED
        BY <4>2, <4>5, <4>6
    <3>3. t * Unit <= V * Unit
      <4> HIDE DEF V, t
      <4> QED
        BY <2>1, <2>5, <2>8 DEF Unit
    <3>4. Unit \in Nat
      BY DEF Unit
    <3> QED
      BY <1>1, <2>1, <3>1, <3>2, <3>3, <3>4, SideCovered
  <2> QED
    BY <2>7, <2>8
<1>2. ReadInv => CommitmentCovered
  BY <1>1, Zenon DEF CommitmentCovered
<1> QED
  BY <1>2, ReadsKept, PTL
=============================================================================
