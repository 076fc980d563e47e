------------------------- MODULE PaperRunnerProofs -------------------------
(***************************************************************************)
(* Proofs about PaperRunner, for any quotes, any fill and any limits: the  *)
(* round trips add up, and the kill switch bounds the loss.                *)
(***************************************************************************)
EXTENDS PaperRunner, FiniteSetTheorems, TLAPS

-----------------------------------------------------------------------------
(* The inductive invariant. *)

PaperTypes ==
  /\ metrics \in [entries : Nat, roundTrips : Nat, wins : Nat, losses : Nat, pnl : Int]
  /\ fill \in FillModels
  /\ toCheck \subseteq DOMAIN positions

\* The runner has one symbol, and enters it only when it has left it: every entry
\* but an open one has made its round trip.
OneOpen ==
  \/ DOMAIN positions = {} /\ metrics.entries = metrics.roundTrips
  \/ \E i \in Nat : DOMAIN positions = {i} /\ metrics.entries = metrics.roundTrips + 1

\* A position is no larger than the notional allows at the quote it was entered at.
PositionsSized ==
  \A i \in DOMAIN positions :
    /\ positions[i] \in [quote : Quotes, size : Nat, held : Nat]
    /\ positions[i].size \in 0 .. (Notional \div positions[i].quote.bid)

\* The kill switch was passed when the position was entered, and no exit has come
\* between.
OpenWithinLimit == DOMAIN positions # {} => metrics.pnl > -KillLimit

PaperInv ==
  /\ PaperTypes /\ OneOpen /\ PositionsSized /\ OpenWithinLimit /\ LossBounded
  /\ metrics.roundTrips = metrics.wins + metrics.losses

LEMMA Bounds ==
  /\ Notional \in Nat \ {0} /\ MaxHold \in Nat \ {0} /\ KillLimit \in Nat \ {0}
  /\ \A q \in Quotes : q.bid \in Nat \ {0} /\ q.ask \in Nat /\ q.bid <= q.ask
BY PaperAssumption DEF PaperAssumption

LEMMA FillBounds ==
  ASSUME fill \in FillModels
  PROVE  /\ fill.pct \in Nat /\ fill.pct <= 100
         /\ fill.buyBps \in Nat
         /\ fill.sellBps \in Nat /\ fill.sellBps <= 10000
BY PaperAssumption DEF PaperAssumption

\* The fill model fills no more than the order.
LEMMA FilledBounded ==
  ASSUME NEW n \in Nat, fill \in FillModels
  PROVE  Filled(n) \in 0 .. n
<1>0. fill.pct \in Nat /\ fill.pct <= 100
  BY FillBounds
<1>1. n * fill.pct \in Nat /\ n * fill.pct <= n * 100
  BY <1>0
<1>2. \A x \in Nat : x <= n * 100 => x \div 100 \in 0 .. n
  OBVIOUS
<1>. QED BY <1>1, <1>2 DEF Filled

LEMMA OrderType ==
  ASSUME NEW q \in Quotes
  PROVE  Notional \div q.bid \in Nat
<1>1. Notional \in Nat /\ q.bid \in Nat \ {0}
  BY Bounds
<1>2. \A a \in Nat, b \in Nat \ {0} : a \div b \in Nat
  OBVIOUS
<1>. QED BY <1>1, <1>2

\* What is bought at the ask and sold at the bid, both slipped, never gains.
LEMMA ExitNeverGains ==
  ASSUME NEW q \in Quotes, fill \in FillModels
  PROVE  BuyAt(q.ask) \in Int /\ SellAt(q.bid) \in Int /\ BuyAt(q.ask) - SellAt(q.bid) \in Nat
<1>1. \A a, b, c \in Nat : b <= c => a * b \in Nat /\ a * c \in Nat /\ a * b <= a * c
  OBVIOUS
<1>2. q.bid \in Nat /\ q.ask \in Nat /\ q.bid <= q.ask
  BY Bounds
<1>3. BuyAt(q.ask) \in Nat /\ q.ask * 10000 <= BuyAt(q.ask)
  <2>1. 10000 + fill.buyBps \in Nat /\ 10000 <= 10000 + fill.buyBps
    BY FillBounds
  <2>. QED BY <1>1, <1>2, <2>1 DEF BuyAt
<1>4. SellAt(q.bid) \in Nat /\ SellAt(q.bid) <= q.bid * 10000
  <2> DEFINE n == fill.sellBps
  <2>1. n \in Nat /\ n <= 10000
    BY FillBounds
  <2>2. SellAt(q.bid) = q.bid * (10000 - n)
    BY DEF SellAt
  <2>. HIDE DEF n
  <2>3. 10000 - n \in Nat /\ 10000 - n <= 10000
    BY <2>1
  <2>. QED BY <1>1, <1>2, <2>2, <2>3
<1>. QED BY <1>2, <1>3, <1>4

\* The fill model stays what it was configured to, and with it what an exit can lose.
LEMMA ExitLossKept ==
  ASSUME NEW p, NEW q, fill' = fill
  PROVE  ExitLoss(p, q)' = ExitLoss(p, q)
BY DEF ExitLoss, BuyAt, SellAt

-----------------------------------------------------------------------------
(* Each step. *)

\* The entry is registered with what was filled.
LEMMA EnterKeeps ==
  ASSUME PaperInv, NEW q \in Quotes, Enter(q)
  PROVE  PaperInv'
<1> DEFINE n == Notional \div q.bid
           f == Filled(n)
<1>1. n \in Nat /\ f \in 0 .. n /\ fill' = fill /\ metrics.pnl > -KillLimit /\ DOMAIN positions = {}
  BY OrderType, FilledBounded DEF Enter, MayEnter, PaperInv, PaperTypes
<1>2. CASE metrics' = metrics /\ positions' = positions /\ toCheck' = DOMAIN positions'
  BY <1>1, <1>2, ExitLossKept DEF PaperInv, PaperTypes, OneOpen, PositionsSized, OpenWithinLimit, LossBounded
<1>3. CASE /\ metrics' = [metrics EXCEPT !.entries = @ + 1] /\ toCheck' = DOMAIN positions'
           /\ positions' = With(metrics.entries, Position(q, f))
  <2>1. /\ DOMAIN positions' = {metrics.entries}
        /\ positions'[metrics.entries] = [quote |-> q, size |-> f, held |-> 0]
    BY <1>1, <1>3 DEF With, Position
  <2>2. metrics.entries \in Nat /\ metrics.entries = metrics.roundTrips
    BY <1>1 DEF PaperInv, PaperTypes, OneOpen
  <2>3. PaperTypes'
    BY <1>1, <1>3, <2>1, <2>2 DEF PaperInv, PaperTypes
  <2>4. /\ metrics'.entries = metrics.entries + 1 /\ metrics'.roundTrips = metrics.roundTrips
        /\ metrics'.pnl = metrics.pnl
    BY <1>3 DEF PaperInv, PaperTypes
  <2>5. OneOpen'
    BY <2>1, <2>2, <2>4 DEF OneOpen
  <2>6. PositionsSized'
    BY <1>1, <2>1 DEF PositionsSized
  <2>7. OpenWithinLimit' /\ LossBounded'
    BY <1>1, <2>4 DEF OpenWithinLimit, LossBounded
  <2>8. metrics'.roundTrips = metrics'.wins + metrics'.losses
    BY <1>3 DEF PaperInv, PaperTypes
  <2>. QED BY <2>3, <2>5, <2>6, <2>7, <2>8 DEF PaperInv
<1>. QED BY <1>2, <1>3 DEF Enter, Register, Result

\* The exit leaves the position, and loses no more than a whole order can.
LEMMA ExitKeepsBooks ==
  ASSUME PaperInv, NEW i \in toCheck, NEW q \in Quotes, Exit(i, q)
  PROVE  PaperInv'
<1> DEFINE p == positions[i].quote
           n == Notional \div p.bid
           f == Filled(positions[i].size)
           pnl == (SellAt(q.bid) - BuyAt(q.ask)) * f
<1>1. i \in DOMAIN positions /\ p \in Quotes /\ positions[i].size \in 0 .. n /\ n \in Nat
  BY OrderType DEF PaperInv, PaperTypes, PositionsSized
<1>2. f \in Nat /\ f <= n
  <2>1. positions[i].size \in Nat /\ positions[i].size <= n
    BY <1>1
  <2>2. f \in 0 .. positions[i].size
    BY <2>1, FilledBounded DEF PaperInv, PaperTypes
  <2>. QED BY <1>1, <2>1, <2>2
<1>3. DOMAIN positions = {i} /\ metrics.entries = metrics.roundTrips + 1 /\ metrics.pnl > -KillLimit
  BY <1>1 DEF PaperInv, OneOpen, OpenWithinLimit
<1>4. DOMAIN positions' = {} /\ toCheck' = {} /\ fill' = fill
  BY <1>1, <1>3 DEF Exit, PaperInv, PaperTypes
<1>5. pnl \in Int /\ pnl >= -ExitLoss(p, q) /\ ExitLoss(p, q) \in Int
  <2> DEFINE spread == BuyAt(q.ask) - SellAt(q.bid)
  <2>1. BuyAt(q.ask) \in Int /\ SellAt(q.bid) \in Int /\ spread \in Nat
    BY ExitNeverGains DEF PaperInv, PaperTypes
  <2>2. pnl = -(spread * f)
    BY <1>2, <2>1
  <2>3. spread * f <= spread * n /\ spread * f \in Nat /\ spread * n \in Nat
    <3>1. \A a, b, c \in Nat : b <= c => a * b <= a * c /\ a * b \in Nat /\ a * c \in Nat
      OBVIOUS
    <3>. QED BY <1>1, <1>2, <2>1, <3>1
  <2>. QED BY <2>2, <2>3 DEF ExitLoss
<1>6. metrics' = [metrics EXCEPT !.roundTrips = @ + 1, !.pnl = @ + pnl,
                                 !.wins = @ + (IF pnl > 0 THEN 1 ELSE 0),
                                 !.losses = @ + (IF pnl > 0 THEN 0 ELSE 1)]
  BY DEF Exit, Result
<1>. HIDE DEF p, n, f, pnl
<1>7. PaperTypes' /\ OneOpen' /\ metrics'.roundTrips = metrics'.wins + metrics'.losses
  <2>1. metrics'.entries = metrics.entries /\ metrics'.roundTrips = metrics.roundTrips + 1
    BY <1>6 DEF PaperInv, PaperTypes
  <2>2. metrics' \in [entries : Nat, roundTrips : Nat, wins : Nat, losses : Nat, pnl : Int]
    <3>1. metrics.pnl + pnl \in Int /\ metrics.roundTrips + 1 \in Nat
      BY <1>5 DEF PaperInv, PaperTypes
    <3>2. /\ metrics.wins + (IF pnl > 0 THEN 1 ELSE 0) \in Nat
          /\ metrics.losses + (IF pnl > 0 THEN 0 ELSE 1) \in Nat
      BY <1>5 DEF PaperInv, PaperTypes
    <3>. QED BY <1>6, <3>1, <3>2 DEF PaperInv, PaperTypes
  <2>3. metrics'.roundTrips = metrics'.wins + metrics'.losses
    BY <1>5, <1>6 DEF PaperInv, PaperTypes
  <2>4. OneOpen'
    BY <1>3, <1>4, <2>1 DEF OneOpen
  <2>. QED BY <1>4, <2>2, <2>3, <2>4 DEF PaperInv, PaperTypes
<1>8. PositionsSized' /\ OpenWithinLimit'
  BY <1>4 DEF PositionsSized, OpenWithinLimit
<1>9. LossBounded'
  <2>1. metrics'.pnl = metrics.pnl + pnl /\ metrics.pnl \in Int /\ KillLimit \in Int
    BY <1>6, Bounds DEF PaperInv, PaperTypes
  <2>2. metrics'.pnl > -(KillLimit + ExitLoss(p, q))
    BY <1>3, <1>5, <2>1
  <2>. QED BY <1>1, <1>4, <2>2, ExitLossKept DEF LossBounded
<1>. QED BY <1>7, <1>8, <1>9 DEF PaperInv

\* Nothing is entered or left.
LEMMA OthersKeepBooks ==
  ASSUME PaperInv,
         \/ KillSwitch \/ TimeIsUp \/ NoEntry \/ Sleep
         \/ \E i \in toCheck : NoExitCheck(i) \/ \E q \in Quotes : Hold(i, q)
  PROVE  PaperInv'
<1>1. /\ metrics' = metrics /\ fill' = fill /\ toCheck' \subseteq DOMAIN positions
      /\ DOMAIN positions' = DOMAIN positions
      /\ \A i \in DOMAIN positions :
           /\ positions'[i] \in [quote : Quotes, size : Nat, held : Nat]
           /\ positions'[i].quote = positions[i].quote /\ positions'[i].size = positions[i].size
  <2>1. CASE Sleep
    <3>1. PICK time \in 1 .. MaxHold : positions' = [i \in DOMAIN positions |-> Older(positions[i], time)]
      BY <2>1 DEF Sleep
    <3>2. ASSUME NEW i \in DOMAIN positions
          PROVE  /\ Older(positions[i], time) \in [quote : Quotes, size : Nat, held : Nat]
                 /\ Older(positions[i], time).quote = positions[i].quote
                 /\ Older(positions[i], time).size = positions[i].size
      <4>1. positions[i] \in [quote : Quotes, size : Nat, held : Nat]
        BY DEF PaperInv, PositionsSized
      <4>2. positions[i].held + time \in Nat /\ MaxHold \in Nat
        BY <4>1, Bounds
      <4>3. Min({positions[i].held + time, MaxHold}) \in Nat
        BY <4>2 DEF Min
      <4>. QED BY <4>1, <4>3 DEF Older
    <3>. QED BY <2>1, <3>1, <3>2 DEF Sleep, PaperInv, PaperTypes
  <2>2. CASE ~Sleep
    BY <2>2 DEF KillSwitch, TimeIsUp, NoEntry, NoExitCheck, Hold, PaperInv, PaperTypes, PositionsSized
  <2>. QED BY <2>1, <2>2
<1>2. PaperTypes' /\ OneOpen' /\ OpenWithinLimit' /\ LossBounded'
  BY <1>1, ExitLossKept DEF PaperInv, PaperTypes, OneOpen, OpenWithinLimit, LossBounded
<1>3. PositionsSized'
  BY <1>1 DEF PaperInv, PositionsSized
<1>. QED BY <1>1, <1>2, <1>3 DEF PaperInv

-----------------------------------------------------------------------------
THEOREM PaperInvariant == PaperSpec => []PaperInv
<1>1. PaperInit => PaperInv
  BY Bounds DEF PaperInit, PaperInv, PaperTypes, OneOpen, PositionsSized, OpenWithinLimit, LossBounded
<1>2. PaperInv /\ [PaperNext]_paperVars => PaperInv'
  <2>. SUFFICES ASSUME PaperInv, [PaperNext]_paperVars PROVE PaperInv'
    OBVIOUS
  <2>1. CASE PaperNext
    BY <2>1, EnterKeeps, ExitKeepsBooks, OthersKeepBooks DEF PaperNext, Round, CheckExit
  <2>2. CASE UNCHANGED paperVars
    BY <2>2, ExitLossKept DEF paperVars, PaperInv, PaperTypes, OneOpen, PositionsSized, OpenWithinLimit,
       LossBounded
  <2>. QED BY <2>1, <2>2
<1>. QED BY <1>1, <1>2, PTL DEF PaperSpec

\* Every entry is open or made one round trip, and every round trip won or lost:
\* failed orders and partial fills leave no entry that no exit counts.
THEOREM RoundTripsAddUp == PaperSpec => []RoundTripsAgree
<1>1. PaperInv => RoundTripsAgree
  <2>. SUFFICES ASSUME PaperInv PROVE RoundTripsAgree
    OBVIOUS
  <2>1. Cardinality({}) = 0 /\ \A i : Cardinality({i}) = 1
    BY FS_EmptySet, FS_Singleton
  <2>2. /\ metrics.roundTrips \in Nat /\ metrics.entries \in Nat
        /\ metrics.roundTrips = metrics.wins + metrics.losses
    BY DEF PaperInv, PaperTypes
  <2>3. metrics.entries = metrics.roundTrips + Cardinality(DOMAIN positions)
    <3>1. CASE DOMAIN positions = {} /\ metrics.entries = metrics.roundTrips
      BY <2>1, <2>2, <3>1
    <3>2. ASSUME NEW i \in Nat, DOMAIN positions = {i} /\ metrics.entries = metrics.roundTrips + 1
          PROVE  metrics.entries = metrics.roundTrips + Cardinality(DOMAIN positions)
      BY <2>1, <3>2
    <3>. QED BY <3>1, <3>2 DEF PaperInv, OneOpen
  <2>. QED BY <2>2, <2>3 DEF RoundTripsAgree
<1>. QED BY <1>1, PaperInvariant, PTL

\* run: the kill switch is looked at before an entry only, and the loss still goes
\* past its limit by less than one exit can lose, slippage included.
THEOREM LossIsBounded == PaperSpec => []LossBounded
<1>1. PaperInv => LossBounded
  BY DEF PaperInv
<1>. QED BY <1>1, PaperInvariant, PTL
=============================================================================
