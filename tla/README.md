# A TLA+ model of Blending

Blending runs the Online Boutique shop partly on containers ("IaaS") and partly
on functions ("FaaS"), and moves single services between the two while the shop
is in use.  This directory holds TLA+ modules of the parts of it that decide
something: which backend a service runs on, what a checkout charges and ships,
what a cart contains, how amounts are converted and added up, which product a page
or an order is about.  TLC checks them on small
instances; TLAPS proves the most important results for every instance.

Paths are relative to `src/`, the root of the repository.  `PROJECT.json` lists the
components, the runs, the mutants that show that each property can fail, the lines
of code behind each definition, the hazards and the theorems.

## 1. The system's parts

| part | state | operations | interacts with | hard about it | what makes it correct |
|---|---|---|---|---|---|
| placement controller (`self-hosted/hybrid/automation/controller.py`) | belief, window counters and last switch of each service, all in memory; selectors and replica counts in the cluster | startup reconcile, one round per 30 s, moves of five or six `kubectl` commands | Kubernetes API through `kubectl`, Prometheus | a command that fails, times out or loses its answer in the middle of a move; a kill at any point; one clock reading per round | a service always has a ready backend; moves follow the load; the cooldown is kept |
| test suites (`self-hosted/testing/run_*.sh`) | phase, exit status | pause and resume the controller, force a placement, run a scenario | the same cluster objects as the controller | the controller is still at work while it terminates, also next to its successor; commands that fail are followed by the next one | the forced placement holds during the scenario; every scenario is reported |
| gRPC bridges (`self-hosted/hybrid/grpc-bridge`) | none | one HTTP call to a function for each gRPC call | checkout and frontend as callers, OpenFaaS as callee | an answer after the timeout | a failed function is never an answer |
| functions (`self-hosted/hybrid/functions`, `cloud-functions`) | none | convert, quote, ship, ads, e-mail | bridges, managed services | floating point | the same amounts as the container version |
| checkout (`src/checkoutservice/main.go`) | none of its own | `PlaceOrder` | cart, catalog, currency, shipping, payment, e-mail | no transaction around five services; cancelled contexts; overlapping orders | nothing shipped uncharged, nothing lost, nothing sold twice |
| cart (`src/cartservice`) | Redis, Spanner or AlloyDB | `AddItem`, `GetCart`, `EmptyCart` | frontend, checkout | get and set without a lock; transactions that are run again; a row that is inserted where one is | the three stores are the same cart |
| money (`checkoutservice/money`, `frontend/money`) | none | `Sum`, `MultiplySlow`, `Must` | checkout, frontend | carries, signs, overflow | an exact and valid sum |
| currency (`src/currencyservice/server.js`, `cloud-functions/gcf-currency-service`) | rates; how far its script got | `convert` with `_carry`, `getSupportedCurrencies`, the health check; `convertCurrency` of the function | checkout, frontend, kubelet | rounding and carries; codes without a rate, which make NaN; a script whose order decides what is instrumented; a process that dies | a valid amount close to the exact one, from either backend; traces propagate; every call ends |
| product catalog (`src/productcatalogservice`) | the parsed catalog, the reload flag, the mutex | `ListProducts`, `GetProduct`, `SearchProducts`, `parseCatalog`, signals | frontend, checkout, recommendation | the list is reloaded, from a file that may have changed, under its readers, who ask for it up to three times per product; loads that fail, break off or hang under the mutex; panics | the product that was asked for, or an error |
| frontend (`src/frontend`) | cookies | page handlers, validation, redirects | everything | the same total computed a second time; what a handler has done when a call fails | a cart holds what was asked for, a page shows what the order costs |
| shipping (`shippingservice`, `cloud-functions/shipping-gcf`) | a seed flag | quote, tracking id | checkout | unsynchronised seeding | an id for every shipment |
| payment (`src/paymentservice`) | how far its script got | `charge`, the health check | checkout, kubelet | month and year of the clock are read one after the other; a port that is taken | a card is judged by the date; every call ends |
| ads (`src/adservice`, `cloud-functions/gcf-adservice`) | none | `getAds` | frontend | an empty list makes the frontend panic; the two backends differ in a cap | a fitting ad if there is one, and never no list at all |
| e-mail, recommendation, assistant | none | stateless answers | frontend, checkout | - | any answer will do |
| load generators (`testing-app/k6-scripts`, `src/loadgenerator`, `self-hosted/testing/locustfile_*.py`) | cookies, the task at hand; shape of the load | weighted tasks of requests | frontend | tasks go on after a request that failed | the requests do what the tasks are named after |
| manifests, provisioning (`self-hosted/hybrid/k8s`, `scripts`, `terraform`) | manifests | `kubectl apply` | controller, suites | older forms of the manifests | the controller can route what was applied |
| analysis (`self-hosted/analysis`) | files | reports | - | - | - |

They interact in four ways.  The shop's services call each other: frontend all of
them, checkout six.  In `src/src` of this repository frontend and checkout call the
functions of currency, shipping, ads and e-mail by HTTP; the manifests of
`self-hosted/hybrid` deploy upstream images instead, and there a call to one of these
*managed* services goes through a Kubernetes Service object whose selector decides
whether a container or a bridge to a function answers.  The controller and the suites
share these objects without a lock.  The suites own the controller's Deployment.  The load the shop
gets is what Prometheus reports to the controller.

## 2. The modules

    Cluster --- Placement --- PlacementSuite        Routing   (abstract)
                    |               |
              PlacementProofs --- PlacementSuiteProofs

    Checkout --- CheckoutProofs

    CartService --- Carts (abstract)
              \---- RedisCart --- RedisCartProofs
              \---- SpannerCart --- SpannerCartProofs
              \---- AlloyCart

    Money --- OrderTotal --- OrderTotalProofs
     |
     Conversion --- NodeService --- NodeServiceProofs

    Catalog --- Storefront --- StorefrontProofs
    Ads     ---/

`MC*.tla` give the constants of these modules values for TLC.  Operators whose
name is commented "Mutant of" are plausible mistakes, used by the mutants of
`PROJECT.json` only.

### Cluster, Placement, Routing

`Cluster` is the slice of Kubernetes that placement acts on: the selector of each
Service object, the deployments with `spec.replicas: 1` (`scaled`), and those with
an available pod (`ready`).  The `kubectl` commands of the code are records (`Up`,
`Down`, `Wait` for `rollout status`, `Patch`); `Plan(b)` is the command list that
`move_to_faas`, `move_to_iaas` and `reconcile_backend` run to reach backend `b`.
`Apply` is a command that returns 0, `TimesOut` a rollout that takes longer than its
`--timeout`, `Errs` a command that is refused or whose answer is lost after it was
carried out.  Two behaviours of Kubernetes matter and are easily missed: a merge
patch keeps the selector's other keys, and `rollout status` succeeds at once on a
deployment that is at zero replicas.

`Placement` is `main()` of `controller.py`.  `pc` says where it is: `boot` (the loop
that reads the selectors), `reconcile`, `round` (reading `now`), `loop` (the visit
of a service: read its selector, adopt it), `sample` (the load, the counters and the
decision), `move`.  Every `kubectl` call is a step of its own.  The order in which
a loop visits the services is left open, and so is the load: a sample is low, high
or missing and may change at any time.  `low` and `high` stop at their thresholds,
because the code only compares them with `>=`.  `cooling` counts down what the code
computes as `now - last_switch`, and `frozen` holds the services that were cooling
when the round read its one `now`.  Two ghosts outlive the process: `resting` counts the
cooldown of a service's last completed move down also after a stop, which makes the code
forget `last_switch`, and `forgotten` holds the services to which that happened.  While `calm` is
false, commands may fail, pods
may fail (if `PodsMayFail`), and the controller may be killed at any point, with all
it has in memory; `Restart` starts it again as its Deployment does.

`Routing` is what the callers of a service are promised: traffic goes only to a
backend that is scaled up, which is never scaled down as long as it is the route.

### PlacementSuite

The part of `run_comprehensive_suite.sh` that touches the placement, next to the
controller: `Pause`, `ForceNext` / `ForceCommand` / `ForceDone` for
`force_all_iaas` and `force_all_faas`, `Resume`, `ScenarioEnds`.  The commands are
those of `Plan`, but the script does not stop at an error: only the wait behind an
`&&` is skipped.  The controller's pod is *asked* to terminate and goes on working
until `Kill`, at the end of its grace period.  If the Deployment is scaled up again before
that, it starts a new pod at once (`Overtake`) next to the old one, which `lingers`.  What
a pod that lingers believes and is about to do is not followed: `Linger` is any command of
any move or reconcile at any time, which is more than it can send, until `LingerEnds`.
Such an overlap is always a mishap (`OverlapIsMishap`): a pod that is overtaken was alive
when the first service was forced.  Two ghost variables are for the
properties: `mishap` (a service was forced while a controller was still alive, or a
command that forces it failed) and `gaveUp` (a startup reconcile failed).

### Checkout

`PlaceOrder` as the sequence of its calls: `cart`, `prepare` (products, prices,
quote and total: nothing is changed by them), `charge`, `ship`, `empty` / `emptying`,
`mail`, and the four ways to end.  A cart is a set of units that are each put into
it once, so that one can tell a unit that was lost or sold twice.  The cart is kept as in
the default store: `AddItemGets` takes a copy of it (`held`), `AddItemSets` writes the copy
back with one more unit, whatever the cart is by then.  Several orders of
a user, the user's own changes of the cart, a cancelled context and a crash
interleave with these calls.  A call may fail without an effect, or have its effect
and lose its answer; a request to empty the cart may be served after `PlaceOrder`
went on, since its error is dropped.  The ghost `late` has the units that were added while an
order was open, `raced` those added next to another AddItem, and `exposed` the orders whose
emptying met an AddItem that still held some of their units.

### CartService, Carts, RedisCart, SpannerCart, AlloyCart

`CartService` is what the stores have in common: calls that are invoked, return or
fail.  A quantity is kept as *how often each AddItem call counts in it*, which
separates a lost call from one counted twice and makes the requested quantity
irrelevant.  `Carts` is the abstract cart: each call acts at one moment between its
begin and its end.  `RedisCart` gets a cart, changes its copy and sets it, with
nothing in between to keep others out.  `SpannerCart` reads and writes a row in a
transaction that is aborted when somebody else wrote the row, or for no reason, and
then runs again.  `AlloyCart` inserts a row with the sum of the rows of the product and
the new quantity.  The table has the key (userId, productId), which the repository creates
it with, and refuses the row where there is one (`AddItemRefused`).

`Overlapping` is the set of users whose calls may overlap.  Of the others a handler
has ended before the next call of the same user begins, and it is to them that the
cache store has to be a proper cart.

### Money, OrderTotal

`Money` is `money.go`, with the widths of its two integers and the number of nanos
in a unit as constants, and with wrap-around.  `OrderTotal` adds up an order on the
three places that do so: `PlaceOrder`, the cart page and the order page.  They differ
in where the shipping comes in.  `MultiplySlow` gives one for a quantity of zero, and
`Times` says so.  The ghost `exact` is the sum in unbounded integers, `overflown`
says whether some sum did not fit.

### Conversion, NodeService

`Conversion` is the arithmetic of the currency service and of the function that takes
over from it: `convert` with its two `_carry`s, the rounding of the nanos of the euros
and the floors of the answer, over rationals with the denominators `RateScale` and the
rate (doubles are not modelled).  A code without a rate makes NaN, which
protobufjs sends as zero; `convertCurrency` of the function looks the codes up first and
answers 400.

`NodeService` is a process of one thread that runs either server: the steps of its
script (`Script`: profiler, instrumentation, exporter, the `require` of the gRPC library,
the protocol, services, `bind`; `Left` are the lines to come, and `Load` runs the first of
them that applies), the callback of `bindAsync` (`Bound`), the handlers, the
readiness probe, and `Die` at any step, after which it starts again.  `hooked` says whether
the gRPC library was required after it was instrumented.  A charge reads the month and the
year of the clock in two steps, between which the clock may go on (`Tick`; a month counts
as `12 * y + m`); the ghost `dates` remembers both readings.  Calls get lost until `calm`.

### Catalog, Ads, Storefront

`Catalog` follows `parseCatalog` and the handlers statement by statement where they read
the shared list: `array` and `length` are the slice, `mutex` is `catalogMutex`, which only
loaders take, and a call keeps the slice it got and reads the elements later.  `LoadFile`
replaces the list by *any* of `Files`, the lists that `products.json` may hold: a reload is
there to pick up a changed file (`src/productcatalogservice/README.md:9-12`).  The old list
stays with those who have it.  `Truncate`, `Scan` and `ScanEnds` fill the list in place from
AlloyDB, in the array that earlier readers go through; `LoadFails` is any error on the way, and
`Panics` an index out of range, which takes the
process with it.  `Signal` is SIGUSR1 or SIGUSR2.  The ghost `disturbed` holds the calls
that began with a list in pieces, next to which the list was cut or replaced, or whose load
failed; `mixed` those that had begun to search when the list was cut or replaced.  A load
of the same file again disturbs nobody.

`Ads` gives the set of answers of the two ad services and of `chooseAd`.

`Storefront` is a user of the k6 script or of Locust's in front of the frontend's handlers:
`Iterate` picks a task by its weight, `todo` is what is left of its requests, `page` the work
of the handler on the first of them, `Fetch` its calls to the catalog.  The other services
may fail before a request had an effect (`BackendFails`), or have it and lose the answer
(`InsertCart`, `PlaceOrder`).  An EmptyCart whose error `PlaceOrder` dropped may be served
later (`emptying`, `ServeEmpty`).  The ghost `put` has what the task put into the cart to order
it and no late EmptyCart took.  Others load and read the catalog at the same time
(`Recommend`).

## 3. What is checked

| run | instance | question |
|---|---|---|
| `PlacementOne` | 1 service, windows 3 and 2 as deployed, cooldown 2 ticks, pods may fail | Do belief, counters, selector and deployments stay consistent under every fault; does the controller implement `Routing`; is the cooldown of a completed move kept; does every command list end; does placement follow the load once faults are over? |
| `PlacementTwo` | 2 services, windows 1 and 1, no cooldown, pods do not fail | Is no service ever without ready pods; does one service never keep the other from being sampled? |
| `PlacementLegacy` | 1 service, selector by `app` | violated, see section 6 |
| `SuitePhase3` | the first three scenarios of `run_phase3`, one of each mode, 1 service | Does forcing a placement interrupt a service, does the placement hold during the scenario, does the resumed controller leave it alone, and does a controller that starts after any mess, when those before it are gone, serve every service again? |
| `CheckoutTwo` | 1 user, 2 units, 2 orders | What is lost, shipped uncharged or sold twice when two orders and the user's changes of the cart overlap, AddItem being a get and a set, and what may the caller conclude from the status? |
| `RedisCarts` | 2 users, of whom one has overlapping calls, 2 products, 4 calls | Does the cache store count an item twice, which calls does it lose, and is it a proper cart to the user whose calls do not overlap? |
| `SpannerOverlap` | 1 user, 2 products, 4 overlapping calls | Is the Spanner store a proper cart whatever overlaps and aborts? |
| `AlloySerial` | 1 user, 2 products, 4 calls one after the other | violated, see section 6 |
| `TotalThree` | 2 items, quantities 0, 1 and 3, eight amounts, three nanos to a unit, units below 16 | Is a total exact on all three places, and when does adding it up panic? |
| `TotalValid` | the same | violated, see section 6 |
| `NodeServices` | either server, 2 calls, 6 conversions among 4 codes, 6 cards around the turn of a year | Are converted amounts valid, close to the exact ones and in their order, from either backend; are cards judged by the date; do traces propagate; do calls end, and does a server that died serve again? |
| `Storefront` | a user and another caller, 2 products, a file that has both or only one of them at each load, 3 ads for one of two categories, both sources of the catalog, both tools | What may a GetProduct, a cart and an order hold while the catalog is loaded, changes and fails, and while an emptying is on its way; when does it panic; has a page always a fitting ad; do tasks end unless a load hangs? |

Type correctness of `Placement` and `Checkout` and the inductive invariants are proved and
not checked again by these runs.  Each of the invariants holds on its run's instance (for
`IInv` of `NodeServiceProofs`, TLC needs a bound in the place of the `Nat` of its dates).

### Bounds

* **Placement.**  The controller handles one service at a time and its steps for
  one service read nothing of another, so that one service with the real thresholds
  shows the counting, and two services show the loop and the effect
  of a slow move on the other.  A cooldown of two ticks is enough to have it
  end before, during and after a round, and to have the controller killed in the middle of
  it.  With two services there is no cooldown, the windows are
  reduced to 1, and the samples to low and high, to keep the states below 250 000; that the
  one `now` of a round does not harm the services visited late is proved (`CooldownHolds`).
* **Suite.**  Windows of 1 and no cooldown let the controller move a service as
  eagerly as it can while the suite forces it; a resumption while the old pod is terminating is
  among the cases (`Overtake`); the later scenarios of phase 3 repeat the
  three modes, each of which begins after a pause and a resumption.
* **Checkout.**  Losing a unit takes one order and one late unit, selling one twice
  takes two orders; two units tell the late unit from the one that was read, and are enough for
  two AddItem
  calls that hold copies of the same cart, or for one that puts a sold unit back.  Two
  users only share the services, not their carts; the proofs cover any number.
* **Carts.**  A lost update takes two AddItem calls, a revived cart an AddItem and an
  EmptyCart, and an observer makes a fourth call.  Users, products and calls are
  symmetric in `Spec`, which has no fairness, and in the properties.
* **Totals.**  The amounts have one representative of each case of `Sum`: ordinary,
  near the overflow, zero, below a unit, negative, invalid, foreign.  Three nanos to a
  unit already make every carry happen.
* **NodeServices.**  A unit of twenty nanos and rates in hundredths let the euros be
  rounded down, up, and up to a whole unit, and the answer carry; there are a weaker and a
  stronger currency than the one asked for, nothing, and codes without a rate.  The clock
  goes from a December to a January; the cards end before, at and after that.  Two calls
  are enough to compare two conversions and to hold up one by the other.  How often the
  process dies is not bounded.
* **Storefront.**  The test asks for the last product of two, so that a GetProduct goes
  through the whole list; the other file lacks the first of them, which makes an index that was
  in range name another product, or none.  Three ads are one more than the cap.  One caller who
  lists the
  products, signals and failures without a bound load the catalog at every moment of the
  user's calls.  `LateWith` restricts late emptyings to the runs of the catalog on the file,
  only to keep the states below 1.4 million: neither touches the other, and the theorems hold for
  both sources.

`CHECK_DEADLOCK FALSE` stands where a behavior ends by itself: all orders ended, all
calls returned, the total is added up.  The controller and the suite next to it
never stop, and their runs check for deadlock.

### Fairness

* `Placement!Fairness`: the running controller goes on (a `kubectl` call returns, a wait
  at the latest when its `--timeout` is over; a fault is never *required*), its
  Deployment restarts it, and time passes.
* `ClusterFairness`: a pod that is to run gets ready and one that is not goes away, if
  that stays so.  Nothing makes a pod ready *in time*: `rollout status` may time out
  again and again unless the pods come up.
* `FollowsLoad` and `EveryServiceSampled` are about the time after the faults (`calm`);
  `FollowsLoad` also asks for a load that stays where it is.
* `PlacementSuite!SuiteFairness` is that of the controller and the pods only: some pod that is on
  its
  way up or down gets there (`PodsGetOn`).  The suite itself owes nothing.
* `Checkout!FairSpec` has one assumption: gRPC ends the calls of a cancelled context
  (`Abort`).  Peers need not answer.  `sendOrderConfirmation` uses neither the context
  nor a timeout, which is why `CancelledEnds` makes an exception of it.
* `NodeService!Fairness`: the process is started and gets on with its script, the kubelet
  probes it, and the event loop takes some call that waits.  Nothing is owed to a single
  call, and none is needed: calls are finite.
* `Storefront!Fairness`: each handler goes on where it waits for nobody (`Runs`).  AlloyDB and
  the Secret Manager owe nothing: they are asked with `context.Background()` and without a
  deadline, under the mutex, so that one load that hangs holds up every caller.  `TasksEnd` has
  that as its one exception.  The other services of the shop answer the frontend or fail
  (`WF_vars(Handle)`); the mutex is strongly fair to the user, since `sync.Mutex` hands itself over
  to whoever waited for more than a millisecond.  Nobody has to signal, load, or begin a task.
* The carts and totals have no liveness properties.

## 4. What is proved

| module | theorem | for every |
|---|---|---|
| `PlacementProofs` | `TypeCorrect` | service set, thresholds, cooldown, manifests |
| | `CountsOneBackend`, `CooldownHolds` | the same |
| | `Inductive`, `RoutedStaysScaled`, `PlacementNeverInterrupts`, `Refinement`, `SamplesAreOfRoutedBackend`, `MovesAreExact` | the same, for manifests of the current form |
| `PlacementSuiteProofs` | `SuiteTypeCorrect`, `ForcedPlacementStands` | the same as `TypeCorrect`, and sequence of scenarios |
| | `SuiteInductive`, `SuiteNeverInterrupts`, `ResumedControllerKeepsRoutes` | the same, for manifests of the current form |
| `CheckoutProofs` | `Invariance`, `TypeCorrect`, `NoFreeShipments`, `RepliesAreTrue`, `NothingElseGetsLost`, `DoubleChargesOverlap` | set of users, units and orders |
| `RedisCartProofs` | `Invariance`, `NothingTwice`, `LossesAreRaces`, `Refinement` | set of users, products and calls, and of users whose calls overlap |
| `SpannerCartProofs` | `Invariance`, `Refinement` | set of users, products and calls |
| `OrderTotalProofs` | `SumExact` | width of the integers, number of nanos |
| | `Invariance`, `Exactness`, `OrdinaryOrdersAddUp` | the same, and amounts, quantities, length of orders |
| `NodeServiceProofs` | `ConvertedValid`, `ConvertedClose`, `ConvertedMonotone` | rates, prices, number of nanos |
| | `NodeTypeCorrect`, `NodeInvariant`, `ConvertedAmountsAreValid`, `ConvertedAmountsAreClose`, `ConversionsKeepOrder`, `CardsAreJudgedByDate`, `TracesArePropagated` | the same, and set of calls, cards, clock, settings |
| `StorefrontProofs` | `StorefrontInductive`, `StorefrontTypeCorrect`, `UndisturbedCallsAreRight`, `OrdersHoldTheirs`, `CartsAreAsAsked`, `AdsFitTheirPages`, `PanicsAreOfTheDisturbed` | list of products, contents of the file at each load, set of callers, categories, ads, products of the test |

The assumptions are those of the modules' `ASSUME`s, and all of them are evaluated by a run:
windows are positive, the nanos of two amounts fit their integer, a product is listed
once, every category that has an entry in `adsMap` has an ad there, the clock has a month,
and so on.  `CurrentForm` is a hypothesis of nine theorems about placement: the manifests
select by `mtp.backend` and name the container, as those in `k8s/gob` do.  Without it a
move may leave a service without a pod, as `PlacementLegacy` shows.  That pods do not fail by
themselves is a hypothesis of the two theorems that say so.

**Placement.**  That a routed backend is scaled is not inductive: a `Down` in the
middle of a move could take away the routed one.  `PlanStands` adds that what the
commands before `step` achieved still stands, so that a `Down` is only reached with the
selector already on the other side.  `RouteStands` carries readiness along: a patch
comes after a wait that saw a deployment scaled *and* ready.  A timeout or a fault drops
the plan and with it `PlanStands`; `RouteStands` alone is enough to start again.
`Refinement` maps `Up` to `ScaleUp`, `Patch` to `SwitchTo`, `Down` to `ScaleDown`, or to a
stutter when a backend of two deployments is not complete.  `MovesAreExact`
is `PlanStands` at the end of the list.  Three more invariants have what `IInv` lacks.
`CountInv`, for any manifests: nothing has been counted until the loop begins, and who
counts or adopts resets what belongs to the other backend.  `BeliefInv`: the belief that a
visit read from the selector stands until the first command of a move, because nothing
else changes a selector in between.  `CoolInv`: a service that the round has yet to visit,
and that was not cooling when `now` was read, is not cooling, because only its own visit
starts a cooldown.  `RestInv` ties that to the ghosts: a service that is resting and not
forgotten is cooling for as long.

**Suite.**  `ForcedInv` holds as long as there was no `mishap`, and for any manifests: while a
placement is forced there is no controller and no replica of it asked for (`ForcedAlone`),
and the commands that the suite has run still stand (`ForcedStands`), which at the end of a
list is all that `ForcedPlacementHolds` asks for.  The controller's own invariant `IInv`
survives the suite: the steps of the one are steps of the other's environment, and a move of
the dying controller that meets a forcing is a mishap.  `ReconcilesRoute` says that a
controller which starts aims at the backend that the selector names, and with `CurrentForm`
a patch to that backend changes no route.  `ServedUnlessMishap` adds the readiness part of
`IInv`, after a wait of the suite as after one of the controller.

**Checkout.**  `Books` ties the stage of an order to the entries of payment and
shipping, also after a crash; `OneCart` says that a unit is in the cart of one user
only, and in copies of it; `Windows` says that an open order, and every copy that an AddItem
still holds, has everything that is not accounted for; `Emptied` that what a served emptying
has read is neither in the cart nor in a copy, unless the order was exposed.  The last makes
`ChargedTwiceOnlyUnemptied` a consequence.

**Carts.**  What holds of the cart in the store must hold of every *copy* that an
AddItem may still write (`CartsOf`): that gives `Counts`, `Survives` and `StaysEmpty`.
`Exclusive` is the fact about serial calls that the refinement needs.  For Spanner it is
that a transaction which is not stale holds the current row.

**Totals.**  `SumExact` distinguishes the three branches of `Sum`; the only nonlinear facts it
needs are lemmas about products with `NanosMod`.  The invariant of `OrderTotal` says that
both the total and the multiple in the making are exact until something overflows.
`OrdinaryInv` adds that sums of ordinary amounts (a unit or more, or nothing) are ordinary,
which keeps them out of the branch that goes wrong.

**Conversions.**  `CarryExact`: a carry moves whole units and loses nothing, and leaves less
nanos than a unit has, if the units are not negative.  The rounding is within half of a
nano, the floors within one; the rest is the monotony of products, which the prover needs
as named lemmas, with the products themselves as opaque terms.

**Node services.**  `NodeInvariant` says that every answer is the one that its request and its
two dates call for.  It needs `OneDates`, that only one charge at a time is between its
readings of the clock, because `currentMonth` is one variable of the thread's; and
`TwoReadings`, that the month of one date and the year of a later one are never before the
first of them.  `ScriptInv` relates what the process has loaded and hooked to the lines of its
script that are left, for either order of the two scripts.

**Catalog.**  A call that was not disturbed is in one of three states.  It began with the empty
list and has not loaded it yet, and nobody is scanning rows (`Emptied`); or it is the one that
scans them (`Loading`); or the list is whole, and no product before its index is the one it
looks for (`Searching`).  `Loads` says that the list from a file is one that the file held, and
what makes the list from AlloyDB whole again: the rows to scan
are the products that the list lacks.  That the rows are then used up is a count, and
that a list of all products without a repetition has every product is an induction over
finite sets.  `Unmixed` is what is left for a GetProduct that was only spared a cut or another
list in the middle of its search: it may miss its product, but the place it reads is in the list,
and what it takes is what it compared.

**Storefront.**  `TodoOK` says that an order is the last request of its task, so that what a task
puts into the cart is put there to be ordered.  `PageOK` ties the page at hand to the user's
call at the catalog and to the products found so far, `CartOK` what the task put into the cart
to the cart and to what the order read in it.
`OthersList` says that the calls of others are ListProducts, which never index the list: a
panic is one of the user's, who is `Watched`.

**Induction over data.**  The induction theorems of the library take an operator, which no
backend here can instantiate.  `Induction` in `StorefrontProofs` says the same of a *set* of
numbers and needs none of them: if a number were missing from the set, taking one from each
of the missing numbers up to it would map them one-to-one into themselves without reaching
the last, which finite sets do not allow.  With it, `ElementsOfFlattened` follows from the
recursive function inside
`FlattenSeq`, and `AdsFitTheirPages` from that.

**Only model-checked:** all liveness (`MovesEnd`, `FollowsLoad`, `EveryServiceSampled`,
`RestartHeals`, `CancelledEnds`, `CallsEndAndServerReturns`, `TasksEnd`), which this prover
cannot reach.  Every other property of a passing run is stated by a theorem.  The three
properties that are violated are false for the instance, and nothing is to be proved.

## 5. What the results say

* A service is never interrupted by a move, nor by a fault, timeout or kill in the
  middle of one, if its pods do not fail.  It may be interrupted by the *suite*: when
  forcing races with the terminating controller, or when one of its commands fails.
* A move that failed may leave deployments of both backends running; the next one that
  is completed leaves exactly those of its target (`CompletedMoveIsExact`).
* The cooldown of a service is kept by the process that moved it.  A controller that is killed
  or resumed has forgotten it and may move the service again at once (`forgotten`).
* A controller that is resumed within the grace period of the paused one may run next to it;
  what the two of them do to a service is not repaired before the next start.
* An order that fails at shipping leaves the charge standing and the cart as it was; a
  retry charges it again (`ChargedTwiceOnlyUnemptied` says when that may happen).  Items
  put into the cart while an order is open, or by two AddItem calls at once, may vanish
  (`OnlyLateUnitsGetLost`); an AddItem that read the cart before it was emptied and writes
  after that brings sold items back, and the next order charges them again.
* The Redis store loses items only to overlapping calls of one user, and then may
  revive a cart that was emptied.  The Spanner store is linearizable.
* A total is always exact, even over amounts that are not valid, as long as it does not
  panic or overflow.
* A converted amount is always valid and off by the two roundings only, and the order of
  prices is kept.  The two backends differ for a code without a rate: the container
  answers with nothing, as a success, where the function refuses.
* A charge that reads its month in December and its year in January refuses a card that ends
  before the December of the *new* year.  No card is charged that had expired.
* While the list is loaded, a GetProduct may find one product and return another, so
  that a cart gets what nobody asked for and an order is charged another product's price: AlloyDB's
  rows are filled in under the reader, and a reload of a changed `products.json` moves the
  products between the comparison and the result.  That takes a cut or a replacement in the
  middle of the search (`CartIsWhatWasAsked`); a reload of the same file changes nothing.
* The process panics when the list gets shorter, or a load fails, between two of the calls of
  parseCatalog in a GetProduct, with either source (`OnlyDisturbedCrash`).  Rows that break off
  leave a shorter catalog, which stays until a signal, since `rows.Err()` is not asked.
* One load from AlloyDB that hangs keeps the mutex, and every caller that needs a load waits
  for ever (`TasksEnd` makes an exception of it).
* The k6 script posts JSON to handlers that read forms, and every one of its posts is
  refused: it never fills a cart and never orders (`Refused`; a fact about the code that
  the model takes over).  Checkout accepts an empty cart and charges the shipping; Locust gets
  there when an addToCart failed, or when an EmptyCart of the order before is served late
  (`OrdersHoldWhatWasPut`).
* An ad request is always answered with some ad, also for categories that have none, so that
  `rand.Intn` in `chooseAd` is never called with zero.

## 6. Where code and documentation disagree

* `PlacementLegacy`: the comment at `controller.py:119` promises compatibility with
  manifests that route by the `app` label.  The merge patch keeps that key, and after the
  first move the selector matches no pod.
* `AlloySerial`: `CartServiceTests.cs:99-109` expects the second AddItem of a product to update
  its item.  `AlloyDBCartStore.AddItemAsync` inserts a row with the total although there is one;
  the table's key (`kustomize/components/alloydb/README.md:90`) refuses it, the call fails and the
  quantity stays what it was.
* `TotalValid`: `money.go:107` says that nanos of mixed signs cannot go over the limit.  For
  units of zero the branch borrows where nothing is to be borrowed: 0.0 + 0.5 becomes
  1 unit and -500000000 nanos, which the next `Sum` refuses, so that `Must` panics.

## 7. Not modelled, and the plan

Left out for good: rendering, logging, what traces contain, connection setup and secrets;
the arithmetic of Prometheus queries (a sample is low, high or missing); the rounding of
doubles (conversions are over rationals); the language model of the assistant; which
products are recommended; the reports of `self-hosted/analysis`, on which nothing acts;
`SearchProducts` and the functions of `money.go`, which nothing calls outside the tests;
the injected latency of the catalog; a request for a conversion, or
a charge with a card, that lacks only its amount (a TypeError);
a price that changes in `products.json` (a list is the products it names, in their order); reads
of a
slice whose length and array are from different loads, which two words without a lock allow;
vendored code and its pages (`testing-app/apache-jmeter-5.6.3`), the k6 smoke test
`test.js` and the `client.js` demos of the two Node.js services.

External, and modelled by what the code relies on: the Kubernetes API, kubelet and
deployment controller; gRPC and its Node.js library; protobufjs, which sends NaN as zero;
`simple-card-validator` (whether a number passes is an attribute of the card; k6's number
of 13 digits would mostly fail it, had it been read); Spanner and the distributed cache.

Met on the way and not stated as properties: the comment of the k6 script says it pauses 1
to 10 seconds, the code sleeps 1 to 10 milliseconds; windows counted before a gap in the
metrics still count after it (`controller.py:280`).

What is left, in this order:

1. `SuiteRunner`: exit statuses under `set -e`, skipped scenarios (`run_scenario` turns `set -e`
   on again, so that a threshold exceeded in one scenario stops the suite,
   `run_comprehensive_suite.sh:308`) and the calibration of `run_all_microservices_suite.sh`.
2. `Bridge` with the functions behind it: the timeout of 55 s, late answers, error codes, and
   the empty body that passes for an answer (`grpc-bridge/cmd/bridge/main.go:169`); then
   `Checkout` over managed services on `Placement`.
3. `Shipping`: the seeding of tracking ids by concurrent requests (`shipping-gcf/shipping.go:32`);
   the session handling of the frontend.
4. Proofs of these modules' invariants, and of what the liveness properties rest on: that a
   round, a command list and a page only have finitely many steps left, as measures that
   no step increases.
