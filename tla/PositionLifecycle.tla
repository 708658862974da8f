--------------------------- MODULE PositionLifecycle ---------------------------
(* What a position of a paper book lives through: bought by an integration    *)
(* cycle, given ATR levels by it, and looked after by daily lifecycle runs,    *)
(* which fill or expire resting orders, move the stop, decide on an exit and   *)
(* leave a SELL order that a later run may fill.  One book and one symbol; the *)
(* commits of a run are steps, so that two runs may overlap and either may die *)
(* between any two.  Prices are whole numbers: at a reference price p the      *)
(* simulator buys below p's limit and sells above it, never at it, since its   *)
(* half spread and its slippage are taken off first.                           *)
EXTENDS Integers, Sequences, SequencesExt, FiniteSets

CONSTANTS
  Daily,           \* processes that run run_paper_book_lifecycle
  Entry,           \* recommendations that an integration cycle may buy
  LastDay,         \* bound: the market days
  Price,           \* prices a day may have, none of them stale; 0: none, or none
                   \* that is safe
  Atr,             \* average true ranges a day may have; 0: unavailable
  Size,            \* shares of an entry
  ClosePercent,    \* close_fraction of the first partial-profit stage
  KeepShares,      \* partial_profit.minimum_remaining_quantity
  StageAt,         \* trigger_r_multiple of that stage
  BreakevenAt, TrailAt,                        \* activation_r_multiple
  StopMultiple, TargetMultiple, TrailMultiple, \* of the ATR
  FixedStop, FixedTarget,  \* distances that the fixed percentages stand for
  MaxHold,         \* exits.maximum_holding_market_days
  ExpireAfter,     \* pending_orders.expire_after_market_days
  MaxKills         \* bound: processes that die

ASSUME LifecycleAssumption ==
  /\ LastDay \in Nat \ {0} /\ Price \subseteq Nat /\ Atr \subseteq Nat
  /\ Size \in Nat \ {0} /\ ClosePercent \in 1..100 /\ KeepShares \in Nat
  /\ {StageAt, BreakevenAt, TrailAt, StopMultiple, TargetMultiple, TrailMultiple} \subseteq Nat \ {0}
  /\ {FixedStop, FixedTarget, MaxHold, ExpireAfter} \subseteq Nat \ {0} /\ MaxKills \in Nat

VARIABLES
  today,           \* the as_of of the runs that begin now
  market,          \* each day's price and ATR, as the price provider has them
  bought, sold,    \* paper_book_orders: the BUY of an entry, the exit of a day
  position, lots,  \* the symbol's aggregate row and its lots, oldest first
  rows,            \* paper_book_position_lifecycle_states, as inserted
  decided,         \* paper_book_exit_decisions, by day
  asked,           \* a manual exit request was saved
  buyer,           \* the integration cycle, between its fill and its levels
  sweep,           \* the lifecycle runs
  kills            \* the processes that died so far, for MaxKills

bookVars == <<bought, sold, position, lots>>
exitVars == <<today, market, bought, sold, position, lots, rows, decided, asked, buyer, sweep, kills>>

Days == 1..LastDay
NoBuyer == "nobody"
NoOrder == [status |-> "NONE", filled |-> FALSE, shares |-> 0, limit |-> 0, day |-> 0,
            why |-> "NONE", of |-> NoBuyer]
NoRow == [entry |-> NoBuyer, original |-> 0, remaining |-> 0, average |-> 0, first |-> 0,
          stop |-> 0, target |-> 0, high |-> 0, at |-> 0]
Resting == [pc |-> "idle", day |-> 0, todo |-> {}, held |-> 0, paid |-> 0, over |-> 1,
            opened |-> 0, row |-> NoRow, wish |-> FALSE, what |-> "HOLD", shares |-> 0]

ExitInit ==
  /\ today = 1 /\ \E p \in Price, a \in Atr : market = [d \in Days |-> [price |-> p, atr |-> a]]
  /\ bought = [e \in Entry |-> NoOrder] /\ sold = [d \in Days |-> NoOrder]
  /\ position = [held |-> 0, paid |-> 0, over |-> 1] /\ lots = <<>>
  /\ rows = <<>> /\ decided = [d \in Days |-> "NONE"] /\ asked = FALSE
  /\ buyer = NoBuyer /\ sweep = [c \in Daily |-> Resting] /\ kills = 0

DayEnds ==
  /\ today < LastDay /\ today' = today + 1
  /\ \E p \in Price, a \in Atr :
       market' = [d \in Days |-> IF d > today THEN [price |-> p, atr |-> a] ELSE market[d]]
  /\ UNCHANGED <<bookVars, rows, decided, asked, buyer, sweep, kills>>

-----------------------------------------------------------------------------
(* apply_buy_fill and apply_sell_fill: the aggregate row, whose average cost  *)
(* is the fraction paid / over, and the lots, the oldest consumed first.      *)
Shares(l) == [i \in DOMAIN l |-> l[i].shares]
SharesIn(l) == SumFunction(Shares(l))

(* list_open_lots.                                                            *)
OpenLots == {i \in DOMAIN lots : lots[i].shares > 0}

BuyFill(n, p, d) ==
  /\ lots' = Append(lots, [shares |-> n, day |-> d])
  /\ position' = [held |-> position.held + n,
                  paid |-> position.held * position.paid + n * p * position.over,
                  over |-> position.over * (position.held + n)]

Consumed(l, n) ==
  LET before(i) == SumFunctionOnSet(Shares(l), 1..(i - 1))
      taken(i) == Min({l[i].shares, Max({0, n - before(i)})})
  IN [i \in DOMAIN l |-> [l[i] EXCEPT !.shares = @ - taken(i)]]

SellFill(n) ==
  /\ lots' = Consumed(lots, n)
  /\ position' = IF position.held = n THEN [held |-> 0, paid |-> 0, over |-> 1]
                 ELSE [position EXCEPT !.held = @ - n]

-----------------------------------------------------------------------------
(* The rows of the ATR levels are append-only, and inserting an id that is    *)
(* there is ignored: an id is made of the day, the stop and the shares.        *)
Saved(row) ==
  IF \E i \in DOMAIN rows : /\ rows[i].at = row.at /\ rows[i].stop = row.stop
                            /\ rows[i].remaining = row.remaining
  THEN rows ELSE Append(rows, row)

(* latest_position_lifecycle_state: the latest day's, and of those the one    *)
(* inserted last.  It is the symbol's, whichever position it was made for.     *)
Latest(r) ==
  r[CHOOSE i \in DOMAIN r :
      \A j \in DOMAIN r : r[j].at < r[i].at \/ (r[j].at = r[i].at /\ j <= i)]

MutAdvanced(row, shares, d) ==
  LET p == market[d].price
      rise == p - row.average
      risk == row.average - row.first
      trail == IF rise >= TrailAt * risk /\ market[d].atr > 0 THEN p - market[d].atr * TrailMultiple
               ELSE row.stop
  IN [row EXCEPT !.remaining = shares, !.stop = trail, !.high = Max({@, p}), !.at = d]

(* advance_lifecycle_state, for a day that has a price.                       *)
Advanced(row, shares, d) ==
  LET p == market[d].price
      up == p - row.average
      risk == row.average - row.first
      high == Max({row.high, p})
      even == IF up >= BreakevenAt * risk THEN {row.average} ELSE {}
      trail == IF up >= TrailAt * risk /\ market[d].atr > 0
               THEN {high - market[d].atr * TrailMultiple} ELSE {}
  IN [row EXCEPT !.remaining = shares, !.stop = Max({@} \cup even \cup trail),
                 !.high = high, !.at = d]

-----------------------------------------------------------------------------
(* An approved BUY, which needs the ATR.  It is filled at once only if the    *)
(* cycle's evidence has a quote below its limit; else it rests.                *)
Buy(e) ==
  LET p == market[today].price
      a == market[today].atr
  IN /\ buyer = NoBuyer /\ bought[e].status = "NONE"
     /\ p > 0 /\ a > 0 /\ p > StopMultiple * a
     /\ \E quoted \in BOOLEAN :
          /\ bought' = [bought EXCEPT ![e] =
               [status |-> IF quoted THEN "FILLED" ELSE "PENDING_SUBMISSION", filled |-> quoted,
                shares |-> Size, limit |-> p, day |-> today, why |-> "ENTRY", of |-> e]]
          /\ IF quoted THEN BuyFill(Size, p, today) /\ buyer' = e
                       ELSE UNCHANGED <<position, lots, buyer>>
  /\ UNCHANGED <<today, market, sold, rows, decided, asked, sweep, kills>>

(* create_entry_lifecycle_state, saved in a commit of its own.                *)
Protect ==
  /\ buyer # NoBuyer
  /\ LET o == bought[buyer]
         stop == o.limit - StopMultiple * market[o.day].atr
     IN rows' = Saved([entry |-> buyer, original |-> o.shares, remaining |-> o.shares,
                       average |-> o.limit, first |-> stop, stop |-> stop,
                       target |-> o.limit + TargetMultiple * market[o.day].atr,
                       high |-> o.limit, at |-> o.day])
  /\ buyer' = NoBuyer
  /\ UNCHANGED <<today, market, bookVars, decided, asked, sweep, kills>>

(* paper-book-exit-request.                                                   *)
RequestExit ==
  /\ ~asked /\ asked' = TRUE
  /\ UNCHANGED <<today, market, bookVars, rows, decided, buyer, sweep, kills>>

Die ==
  /\ kills < MaxKills /\ kills' = kills + 1
  /\ \/ buyer # NoBuyer /\ buyer' = NoBuyer /\ UNCHANGED sweep
     \/ /\ \E c \in Daily : /\ sweep[c].pc \notin {"idle", "done", "failed"}
                             /\ sweep' = [sweep EXCEPT ![c] = Resting]
        /\ UNCHANGED buyer
  /\ UNCHANGED <<today, market, bookVars, rows, decided, asked>>

-----------------------------------------------------------------------------
Become(c, new) == sweep' = [sweep EXCEPT ![c] = new]
Proceed(c, pc) == Become(c, [sweep[c] EXCEPT !.pc = pc])

Unfilled(orders) == {o \in DOMAIN orders : orders[o].status = "PENDING_SUBMISSION"}

(* A run of the day lists the pending orders once.                            *)
Begin(c) ==
  /\ sweep[c].pc \in {"idle", "done", "failed"}
  /\ Become(c, [Resting EXCEPT !.pc = "orders", !.day = today,
                               !.todo = {<<"BUY", e>> : e \in Unfilled(bought)}
                                        \cup {<<"SELL", d>> : d \in Unfilled(sold)}])
  /\ UNCHANGED <<today, market, bookVars, rows, decided, asked, buyer, kills>>

(* A listed order: it has expired, or the simulator is asked for a fill, which *)
(* looks only at whether there is one.                                         *)
ExpireListed(c, o) ==
  LET d == sweep[c].day IN
  /\ o \in sweep[c].todo
  /\ \/ o[1] = "BUY" /\ d - bought[o[2]].day >= ExpireAfter /\ UNCHANGED sold
        /\ bought' = [bought EXCEPT ![o[2]].status = IF @ = "PENDING_SUBMISSION" THEN "EXPIRED" ELSE @]
     \/ o[1] = "SELL" /\ d - sold[o[2]].day >= ExpireAfter /\ UNCHANGED bought
        /\ sold' = [sold EXCEPT ![o[2]].status = IF @ = "PENDING_SUBMISSION" THEN "EXPIRED" ELSE @]
  /\ Become(c, [sweep[c] EXCEPT !.todo = @ \ {o}])
  /\ UNCHANGED <<today, market, position, lots, rows, decided, asked, buyer, kills>>

BuyListed(c, e) ==
  LET p == market[sweep[c].day].price
      o == bought[e]
  IN /\ <<"BUY", e>> \in sweep[c].todo /\ sweep[c].day - o.day < ExpireAfter
     /\ IF p > 0 /\ p < o.limit /\ ~o.filled
        THEN /\ BuyFill(o.shares, p, sweep[c].day)
             /\ bought' = [bought EXCEPT ![e].status = "FILLED", ![e].filled = TRUE]
        ELSE UNCHANGED <<position, lots, bought>>
     /\ Become(c, [sweep[c] EXCEPT !.todo = @ \ {<<"BUY", e>>}])
     /\ UNCHANGED <<today, market, sold, rows, decided, asked, buyer, kills>>

SellListed(c, s) ==
  LET p == market[sweep[c].day].price
      o == sold[s]
  IN /\ <<"SELL", s>> \in sweep[c].todo /\ sweep[c].day - o.day < ExpireAfter
     /\ \/ /\ p > 0 /\ o.shares > position.held
           /\ sold' = [sold EXCEPT ![s].status = "REJECTED"] /\ UNCHANGED <<position, lots>>
        \/ /\ p > o.limit /\ o.shares <= position.held /\ ~o.filled
           /\ SellFill(o.shares) /\ sold' = [sold EXCEPT ![s].status = "FILLED", ![s].filled = TRUE]
        \/ /\ p = 0 \/ (o.shares <= position.held /\ (p <= o.limit \/ o.filled))
           /\ UNCHANGED <<sold, position, lots>>
     /\ Become(c, [sweep[c] EXCEPT !.todo = @ \ {<<"SELL", s>>}])
     /\ UNCHANGED <<today, market, bought, rows, decided, asked, buyer, kills>>

MutUnresolved == sold[today].status = "PENDING_SUBMISSION"

(* _has_unresolved_pending_sell, for orders that stay with the simulator.     *)
Unresolved == Unfilled(sold) # {}

(* What the evaluation of the open position starts from, read before its own  *)
(* first commit.  Levels for fewer shares than are held are refused by their  *)
(* constructor, and the exception ends the book's run.                        *)
Look(c) ==
  LET row == IF rows = <<>> THEN NoRow ELSE Latest(rows)
      k == sweep[c]
  IN /\ k.pc = "orders" /\ k.todo = {}
     /\ \/ (position.held = 0 \/ Unresolved) /\ Proceed(c, "done")
        \/ /\ position.held > 0 /\ ~Unresolved /\ rows # <<>> /\ position.held > row.original
           /\ Proceed(c, "failed")
        \/ /\ position.held > 0 /\ ~Unresolved /\ (rows # <<>> => position.held <= row.original)
           /\ Become(c, [k EXCEPT !.pc = IF rows # <<>> /\ market[k.day].price > 0 THEN "advance" ELSE "decide",
                                  !.held = position.held, !.paid = position.paid, !.over = position.over,
                                  !.opened = lots[Min(OpenLots)].day, !.row = row,
                                  !.wish = asked /\ \A d \in Days : decided[d] # "MANUAL"])
     /\ UNCHANGED <<today, market, bookVars, rows, decided, asked, buyer, kills>>

Advance(c) ==
  LET k == sweep[c]
      row == Advanced(k.row, k.held, k.day)
  IN /\ k.pc = "advance"
     /\ rows' = Saved(row)
     /\ Become(c, [k EXCEPT !.pc = "decide", !.row = row])
     /\ UNCHANGED <<today, market, bookVars, decided, asked, buyer, kills>>

(* calculate_partial_close_quantity, in whole shares of the original ones.    *)
Part(k) == Max({0, Min({(k.row.original * ClosePercent) \div 100, k.held, k.held - KeepShares})})

(* evaluate_exit_decision: the first reason in this order that applies.  A    *)
(* reversed recommendation is one more reason for a full exit, as AGED is.    *)
Priority == <<"MANUAL", "STOP", "AGED", "PARTIAL", "TARGET">>

Decision(k) ==
  LET p == market[k.day].price
      applies == [MANUAL  |-> k.wish,
                  STOP    |-> p * k.over <= k.paid - FixedStop * k.over \/ (k.row # NoRow /\ p <= k.row.stop),
                  AGED    |-> k.day - k.opened >= MaxHold,
                  PARTIAL |-> /\ k.row # NoRow /\ Part(k) > 0
                              /\ p - k.row.average >= StageAt * (k.row.average - k.row.first),
                  TARGET  |-> IF k.row # NoRow THEN p >= k.row.target
                              ELSE p * k.over >= k.paid + FixedTarget * k.over]
      reasons == {i \in DOMAIN Priority : applies[Priority[i]]}
  IN IF p = 0 \/ reasons = {} THEN "HOLD" ELSE Priority[Min(reasons)]

(* The decision of a book, symbol and day is recorded once; what a later run  *)
(* of the day decides is acted upon all the same.                             *)
Decide(c) ==
  LET k == sweep[c]
      what == Decision(k)
  IN /\ k.pc = "decide"
     /\ decided' = [decided EXCEPT ![k.day] = IF @ = "NONE" THEN what ELSE @]
     /\ Become(c, IF what = "HOLD" THEN [k EXCEPT !.pc = "done"]
                  ELSE [k EXCEPT !.pc = "order", !.what = what,
                                 !.shares = IF what = "PARTIAL" THEN Part(k) ELSE k.held])
     /\ UNCHANGED <<today, market, bookVars, rows, asked, buyer, kills>>

(* submit_and_simulate of the day's SELL, at the price of the day: it rests.  *)
Order(c) ==
  LET k == sweep[c]
      old == sold[k.day]
      new == [status |-> "PENDING_SUBMISSION", filled |-> FALSE, shares |-> k.shares,
              limit |-> market[k.day].price, day |-> k.day, why |-> k.what, of |-> k.row.entry]
      own == IF old.status = "NONE" THEN new ELSE old
  IN /\ k.pc = "order"
     /\ sold' = [sold EXCEPT ![k.day] =
                   [own EXCEPT !.status = IF k.shares > position.held THEN "REJECTED" ELSE @]]
     /\ Proceed(c, "done")
     /\ UNCHANGED <<today, market, bought, position, lots, rows, decided, asked, buyer, kills>>

RunStep(c) ==
  \/ Begin(c)
  \/ \E e \in Entry : BuyListed(c, e)
  \/ \E s \in Days : SellListed(c, s)
  \/ \E o \in sweep[c].todo : ExpireListed(c, o)
  \/ Look(c) \/ Advance(c) \/ Decide(c) \/ Order(c)

ExitNext ==
  \/ DayEnds \/ Protect \/ RequestExit \/ Die
  \/ \E e \in Entry : Buy(e)
  \/ \E c \in Daily : RunStep(c)

ExitSpec == ExitInit /\ [][ExitNext]_exitVars

-----------------------------------------------------------------------------
(* While runs do not overlap and the levels are those of one entry, the stop   *)
(* in force never goes down, whatever price and ATR do.  (Two runs of          *)
(* different days that overlap break it: both start from the same row.)        *)
StopNeverLoosens ==
  [][rows # <<>> /\ Latest(rows').entry = Latest(rows).entry
       => Latest(rows').stop >= Latest(rows).stop]_exitVars

(* The day's run is over, and the price is at or below the fixed stop.        *)
Breached(c) ==
  /\ sweep[c].pc = "done" /\ sweep[c].day = today
  /\ position.held > 0 /\ market[today].price > 0
  /\ market[today].price * position.over <= position.paid - FixedStop * position.over

(* When runs do not overlap: the aggregate row and the lots agree; at most    *)
(* one exit rests at a time and it never asks for more shares than are held;  *)
(* and after a day's run that did not fail, a position at or below its fixed  *)
(* stop has an exit resting.                                                  *)
ExitsAreSound ==
  /\ position.held = SharesIn(lots)
  /\ Cardinality(Unfilled(sold)) <= 1
  /\ \A d \in Unfilled(sold) : sold[d].shares <= position.held
  /\ (\E c \in Daily : Breached(c)) => Unresolved

-----------------------------------------------------------------------------
(* Statements of the documents that the code does not keep; no run lists them. *)

(* docs/milestones/milestone-13.md:509 "no stage can execute twice".          *)
StageOnce ==
  \A e \in Entry : Cardinality({d \in Days : sold[d].why = "PARTIAL" /\ sold[d].of = e /\ sold[d].filled}) <= 1

(* An open position is evaluated by every run: levels do not trap it.         *)
NeverTrapped == \A c \in Daily : sweep[c].pc # "failed"

(* The levels in force are those of the position that is open.                *)
LevelsAreThePositions ==
  rows # <<>> /\ OpenLots # {} /\ buyer = NoBuyer =>
    bought[Latest(rows).entry].day >= lots[Min(OpenLots)].day

(* storage/paper_books_repositories.py:808 "a lifecycle rerun never            *)
(* re-triggers an already-acted-on manual exit".                              *)
ManualOnce == Cardinality({d \in Days : sold[d].why = "MANUAL"}) <= 1

(* A manual request that counts as consumed has led to an order.              *)
ManualIsActedOn ==
  \A d \in Days : decided[d] = "MANUAL" =>
    \/ sold[d].status # "NONE"
    \/ \E c \in Daily : sweep[c].pc = "order" /\ sweep[c].day = d

(* docs/milestones/milestone-13.md:551 "A stop breach should normally close    *)
(* the full remaining quantity."                                               *)
BreachClosesAll ==
  (\E c \in Daily : Breached(c)) => \E d \in Unfilled(sold) : sold[d].shares = position.held
=============================================================================
