--------------------------- MODULE ConvergePlants ---------------------------
(***************************************************************************)
(* What the CONVERGE engines do with a finalized round of scalars.  The    *)
(* preference engine only keeps them.  The cascade engine places them as   *)
(* orders of a supply chain: the demand on a stage is the order of the     *)
(* next one, and the customer's on the last one.  The resource engine      *)
(* takes them as extractions from a renewable stock.                       *)
(*                                                                         *)
(* The code computes with floats; here all quantities are integers.  The   *)
(* cost is counted in halves (smooth = 1/2), the price in eightieths       *)
(* (alpha = 7/20, quota fraction 1/4), and regrowth is rounded down.       *)
(***************************************************************************)
EXTENDS ScalarEngine, Sequences, FiniteSetsExt

CONSTANTS
  Lead,      \* config.lead
  PaperDemand, \* PAPER_DEMAND, the customer's demand per period
  I0,        \* initial inventory; the initial orders are Start
  Optimum,   \* z_star of the preference instance, index by index
  R0, Capacity, R_MIN

ASSUME PlantAssumption ==
  /\ Lead \in Nat \ {0} /\ PaperDemand \in Seq(Int) /\ Len(PaperDemand) > 0 /\ I0 \in Int
  /\ R0 \in Nat /\ Capacity \in Nat \ {0} /\ R_MIN \in Nat
  /\ FiniteScalars \subseteq Int

VARIABLES
  inventory, pipeline, last_demand, cost, t,  \* cascade; last_q is current
  r, lam, breaches                            \* resource; e is current

cascadeVars == <<inventory, pipeline, last_demand, cost, t>>
resourceVars == <<r, lam, breaches>>
plantVars == <<cascadeVars, resourceVars>>

-----------------------------------------------------------------------------
(* CascadeEngineConfig *)

\* The first period, counted from 0, whose demand is above the baseline.
shock_index(d) ==
  LET above == {k \in DOMAIN d : d[k] > d[1]} IN
  IF above = {} THEN 0 ELSE Min(above) - 1

\* The paper's series, padded with its last entry so that the shock can reach
\* stage 0 of a chain that long.
demand_for(stages) ==
  [k \in 1..Max({Len(PaperDemand), shock_index(PaperDemand) + stages}) |->
     PaperDemand[Min({k, Len(PaperDemand)})]]

Demand == demand_for(RosterSize)

-----------------------------------------------------------------------------
PlantInit ==
  /\ inventory = [i \in Indices |-> I0]
  /\ pipeline = [i \in Indices |-> [k \in 1..Lead |-> Start[i]]]
  /\ last_demand = Start
  /\ cost = 0 /\ t = 0
  /\ r = R0 /\ lam = 0 /\ breaches = 0

\* The customer's demand of period k; the series is held at its last entry.
CustomerAt(k) == Demand[Min({k + 1, Len(Demand)})]

NonNegative(x) == IF x > 0 THEN x ELSE 0

\* Mutant: a stage is demanded from by itself.
DemandOnSelf(orders, i) == IF i = RosterSize THEN CustomerAt(t) ELSE orders[i]

DemandOn(orders, i) == IF i = RosterSize THEN CustomerAt(t) ELSE orders[i + 1]

\* twice (hold + backlog + smooth) of one stage
StageCost(stock, order, last) ==
  2 * NonNegative(stock) + 4 * NonNegative(-stock) + (order - last) * (order - last)

\* pop_front, then push_back.
Ship(pipe, order) == Append(Tail(pipe), order)

RoundCost(stock, orders) ==
  MapThenSumSet(LAMBDA i : StageCost(stock[i], orders[i], current[i]), Indices)

CostAfter(stock, orders) == cost + RoundCost(stock, orders)

ApplyOrders(orders) ==
  /\ inventory' = [i \in Indices |->
                     inventory[i] + Head(pipeline[i]) - DemandOn(orders, i)]
  /\ cost' = CostAfter(inventory', orders)
  /\ last_demand' = [i \in Indices |-> DemandOn(orders, i)]
  /\ pipeline' = [i \in Indices |-> Ship(pipeline[i], orders[i])]
  /\ t' = t + 1

Grown(x) == x + (x * (Capacity - x)) \div (5 * Capacity)

Total(extracted) == MapThenSumSet(LAMBDA i : extracted[i], Indices)

StockLeft(total) == NonNegative(Grown(r) - total)

IsBreach(stock) == stock < R_MIN

\* The price moves by the quota of the stock before this round's extraction.
ApplyExtractions(extracted) ==
  /\ lam' = NonNegative(lam + 28 * Total(extracted) - 7 * r)
  /\ r' = StockLeft(Total(extracted))
  /\ breaches' = breaches + (IF IsBreach(r') THEN 1 ELSE 0)

\* try_finalize hands the round to the plant; nothing else moves it.
PlantStep ==
  \/ /\ active_epoch' = active_epoch
     /\ UNCHANGED plantVars
  \/ /\ active_epoch' # active_epoch
     /\ \/ Class = "Preference" /\ UNCHANGED plantVars
        \/ Class = "Cascade" /\ ApplyOrders(current') /\ UNCHANGED resourceVars
        \/ Class = "Resource" /\ ApplyExtractions(current') /\ UNCHANGED cascadeVars

ApplyWithPlant(e) == Apply(e) /\ PlantStep

PlantNext == \E e \in Events : ApplyWithPlant(e)

PlantSpec == Init /\ PlantInit /\ [][PlantNext]_<<vars, plantVars>>

-----------------------------------------------------------------------------
(* The ConvergeSurface of the three engines *)

\* The square of l2_to(z, z_star): it orders the states as the distance does.
DistanceToOptimum ==
  MapThenSumSet(LAMBDA i : (current[i] - Optimum[i]) * (current[i] - Optimum[i]),
                Indices)

metric ==
  CASE Class = "Preference" -> DistanceToOptimum
    [] Class = "Cascade"    -> cost
    [] Class = "Resource"   -> r

lower_is_better == Class # "Resource"

\* f[1] + ... + f[n]
SumTo(f, n) ==
  LET sum[k \in 0..n] == IF k = 0 THEN 0 ELSE sum[k - 1] + f[k]
  IN sum[n]

pipeline_sum(i) == SumTo(pipeline[i], Lead)

-----------------------------------------------------------------------------
(* Properties *)

\* The finalized rounds.
Closed == active_epoch - InitialEpoch

\* What stage i was asked for in a past epoch.
DemandIn(n, i) ==
  IF i = RosterSize THEN CustomerAt(n - InitialEpoch) ELSE rounds[n][i + 1]

\* What stage i ordered in each round, less what it was asked for.
Traded(i) ==
  [k \in 1..Closed |->
     LET n == InitialEpoch + k - 1 IN rounds[n][i] - DemandIn(n, i)]

\* apply_orders neither creates nor loses goods: the inventory position of a
\* stage is what it started with, plus all it ordered, minus all it was asked
\* for, over every finalized round.
GoodsAreConserved ==
  Class = "Cascade" =>
    \A i \in Indices :
      inventory[i] + pipeline_sum(i) = I0 + Lead * Start[i] + SumTo(Traded(i), Closed)

\* An order arrives exactly lead rounds after it was placed: a pipeline holds
\* the last lead orders of its stage, the oldest first.
PipelineHoldsTheLastOrders ==
  Class = "Cascade" =>
    /\ t = active_epoch - InitialEpoch
    /\ \A i \in Indices : \A k \in 1..Lead :
         LET n == active_epoch - Lead + k - 1 IN
         pipeline[i][k] = IF n >= InitialEpoch THEN rounds[n][i] ELSE Start[i]

\* What the extractions of the k-th finalized round leave of a stock.
LeftIn(stock, k) ==
  NonNegative(Grown(stock) - Total(rounds[InitialEpoch + k - 1]))

\* The stock after each finalized round, worked out again from the extractions
\* in the history; the 0-th entry is the stock the engine started with.
StockHistory ==
  LET stock[k \in 0..Closed] == IF k = 0 THEN R0 ELSE LeftIn(stock[k - 1], k)
  IN stock

\* The stock is what the extractions of all finalized rounds leave of R0, and
\* breaches is the number of rounds after which it was below R_MIN: each such
\* round is counted, once, and no other round is.
BreachesAreCounted ==
  Class = "Resource" =>
    /\ r = StockHistory[Closed]
    /\ breaches = Cardinality({k \in 1..Closed : IsBreach(StockHistory[k])})

\* The plants keep their books: no goods are created or lost, an order arrives
\* when it is due, and the count of breaches is that of the rounds that left
\* the stock below R_MIN.
PlantsKeepTheirBooks ==
  GoodsAreConserved /\ PipelineHoldsTheLastOrders /\ BreachesAreCounted

=============================================================================
