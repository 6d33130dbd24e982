----------------------------- MODULE Storefront -----------------------------
(***************************************************************************)
(* One simulated user of a load test in front of the shop: the tasks of    *)
(* src/testing-app/k6-scripts/boutique-app.js, or the same tasks in        *)
(* src/src/loadgenerator/locustfile.py, the frontend's handlers for the    *)
(* requests they make (src/src/frontend/handlers.go), the catalog those    *)
(* handlers ask, the ads on their pages, and the user's cart and orders.   *)
(*                                                                         *)
(* The requests of other users are other callers of the catalog.  Of the   *)
(* calls to the other services only their failures show; the order itself  *)
(* is module Checkout, the cart is CartService and the prices are          *)
(* NodeService's and OrderTotal's.                                         *)
(***************************************************************************)
EXTENDS Catalog, Ads

CONSTANTS
  Shopper,           \* the caller on whose behalf the frontend calls
  PRODUCTS,          \* the products of the test
  Categories,        \* Categories[p]: a sequence
  LateWith           \* the sources of the catalog with which an EmptyCart may be
                     \* served late; a bound for TLC, in the code it is both

ASSUME StorefrontAssumption ==
  /\ Watched = {Shopper}
  /\ PRODUCTS \subseteq Products /\ PRODUCTS # {}
  /\ DOMAIN Categories = Products
  /\ \A p \in Products : Categories[p] \in Seq(ToSet(Categories[p]))
  /\ LateWith \subseteq {"file", "alloydb"}

VARIABLES
  tool,          \* "k6" or "locust"
  todo,          \* what is left of the task, the request at work first
  page,          \* the work of the frontend on that request
  cart,          \* the products in the cart of the user's session
  emptying,      \* an EmptyCart of an earlier order may still be served
  \* ghost
  put            \* what this task put into the cart to order it, and no late
                 \* EmptyCart took

shopVars == <<tool, todo, page, cart, emptying, put>>
vars == <<catalogVars, shopVars>>

\* at: whether it is at work.  fetch: what it still asks the catalog for, and
\* found: the products it got.  items: what placeOrder read in the cart.  ad: what
\* the last page showed.  mixed, a ghost: a product to buy was found by a GetProduct
\* next to whose search the list was cut or replaced.
NoPage ==
  [at |-> "rest", fetch |-> <<>>, found |-> <<>>, items |-> {}, mixed |-> FALSE, ad |-> NoAd]

Init ==
  /\ CatalogInit
  /\ tool \in {"k6", "locust"}
  /\ todo = <<>>
  /\ page = NoPage
  /\ cart = {}
  /\ emptying = FALSE
  /\ put = {}

----------------------------------------------------------------------------
(* The tasks. *)

To(handler) == [to |-> handler, of |-> NONE]

index == <<To("home")>>
setCurrency == <<To("setCurrency")>>
browseProduct(p) == <<[to |-> "product", of |-> p]>>
addToCart(p) == <<[to |-> "product", of |-> p], [to |-> "addToCart", of |-> p]>>
viewCart == <<To("viewCart")>>

checkout(p) == addToCart(p) \o <<To("placeOrder")>>

\* The requests of a task; p is the product it picked, if it needs one.
Requests(fn, p) ==
  CASE fn = "index" -> index
    [] fn = "setCurrency" -> setCurrency
    [] fn = "browseProduct" -> browseProduct(p)
    [] fn = "addToCart" -> addToCart(p)
    [] fn = "viewCart" -> viewCart
    [] fn = "checkout" -> checkout(p)

TASKS ==
  <<[fn |-> "index", weight |-> 1], [fn |-> "setCurrency", weight |-> 2],
    [fn |-> "browseProduct", weight |-> 10], [fn |-> "addToCart", weight |-> 2],
    [fn |-> "viewCart", weight |-> 3], [fn |-> "checkout", weight |-> 1]>>

\* The weights up to that of task i.
Weight[i \in 0 .. Len(TASKS)] == IF i = 0 THEN 0 ELSE Weight[i - 1] + TASKS[i].weight

\* The task for a random number from 0 up to the total weight.
pickTask(rand) == TASKS[CHOOSE i \in DOMAIN TASKS : Weight[i - 1] <= rand /\ rand < Weight[i]].fn

Picked == {pickTask(rand) : rand \in 0 .. Weight[Len(TASKS)] - 1}

\* An iteration of the script for a task that was picked.  k6 begins each with
\* no cookies, so with another session, and Locust keeps them.
Iterate(fn) ==
  /\ todo = <<>>
  /\ \E p \in PRODUCTS : todo' = Requests(fn, p)
  /\ IF tool = "k6" THEN cart' = {} /\ emptying' = FALSE ELSE UNCHANGED <<cart, emptying>>
  /\ page' = NoPage
  /\ put' = {}
  /\ UNCHANGED <<catalogVars, tool>>

----------------------------------------------------------------------------
(* The handlers of the frontend. *)

Request == Head(todo)
Posts == {"setCurrency", "addToCart", "placeOrder"}

\* FormValue finds no field in the JSON that k6 posts, and the validator wants
\* every field.  The forms that Locust posts are valid.
Refused == Request.to \in Posts /\ tool = "k6"

\* What the handler asks the catalog for: every product, one, or each one in
\* the cart, which checkout's or the frontend's getCart read before.
Fetches ==
  CASE Request.to = "home" -> <<NONE>>
    [] Request.to \in {"product", "addToCart"} -> <<Request.of>>
    [] Request.to \in {"viewCart", "placeOrder"} -> SetToSeq(cart)
    [] Request.to = "setCurrency" -> <<>>

\* The request ends, and with it, unless it is redirected, its place in the
\* task; the tools follow redirects.
Reply(ad) ==
  /\ page' = [NoPage EXCEPT !.ad = ad]
  /\ todo' = Tail(todo)
Redirect(handler) ==
  /\ page' = NoPage
  /\ todo' = <<To(handler)>> \o Tail(todo)

Receive ==
  /\ page.at = "rest" /\ todo # <<>>
  /\ IF Refused THEN Reply(NoAd)
     ELSE /\ page' = [NoPage EXCEPT !.at = "work", !.fetch = Fetches,
                                    !.items = IF Request.to = "placeOrder" THEN cart ELSE {}]
          /\ UNCHANGED todo
  /\ UNCHANGED <<catalogVars, tool, cart, emptying, put>>

AtWork == page.at = "work"

\* getProducts, getProduct
Fetch ==
  /\ AtWork /\ page.fetch # <<>>
  /\ Ask(Shopper, Head(page.fetch))
  /\ UNCHANGED shopVars

\* The products that are found get into the cart, or are charged.
Buys == Request.to \in {"addToCart", "placeOrder"}

\* Whatever the catalog answers but ok is an internal error.
Fetched ==
  /\ AtWork /\ call[Shopper].stage \in Ended
  /\ IF call[Shopper].stage = "ok"
     THEN /\ page' = [page EXCEPT !.fetch = Tail(@),
                                  !.found = IF Head(page.fetch) = NONE THEN @ ELSE @ \o call[Shopper].list,
                                  !.mixed = @ \/ (Buys /\ Shopper \in mixed)]
          /\ UNCHANGED todo
     ELSE Reply(NoAd)
  /\ Forget(Shopper)
  /\ UNCHANGED <<tool, cart, emptying, put>>

\* Another service fails before the request had an effect.
BackendFails ==
  /\ AtWork /\ call[Shopper].stage = "idle"
  /\ Request.to # "setCurrency"
  /\ Reply(NoAd)
  /\ UNCHANGED <<catalogVars, tool, cart, emptying, put>>

\* The catalog gave the handler all it needs.
HasAll(handler) == AtWork /\ page.fetch = <<>> /\ Request.to = handler

\* A page with an ad: it is left out if the ads cannot be had, and nothing is
\* shown if the list of them is empty.
ShowPage ==
  /\ \/ HasAll("home")
     \/ HasAll("product")
  /\ LET keys == IF Request.to = "home" THEN <<>> ELSE Categories[page.found[1]]
     IN \/ \E ads \in getAds(keys) \cup getAdsUncapped(keys) :
             IF ads = <<>> THEN Reply(Aborted)
             ELSE \E ad \in chooseAd(ads) : Reply(ad)
        \/ Reply(NoAd)
  /\ UNCHANGED <<catalogVars, tool, cart, emptying, put>>

ShowCart ==
  /\ HasAll("viewCart")
  /\ Reply(NoAd)
  /\ UNCHANGED <<catalogVars, tool, cart, emptying, put>>

SetCurrency ==
  /\ HasAll("setCurrency")
  /\ Redirect("home")
  /\ UNCHANGED <<catalogVars, tool, cart, emptying, put>>

WillOrder == To("placeOrder") \in ToSet(todo)

\* Mutant of InsertCart: the error of AddItem is dropped.
InsertCartOrNot ==
  /\ HasAll("addToCart")
  /\ cart' \in {cart, cart \cup ToSet(page.found)}
  /\ put' = IF WillOrder THEN put \cup ToSet(page.found) ELSE put
  /\ Redirect("viewCart")
  /\ UNCHANGED <<catalogVars, tool, emptying>>

\* insertCart of the product that was found.  Its answer may get lost.
InsertCart ==
  /\ HasAll("addToCart")
  /\ cart' = cart \cup ToSet(page.found)
  /\ put' = IF WillOrder THEN put \cup ToSet(page.found) ELSE put
  /\ Redirect("viewCart") \/ Reply(NoAd)
  /\ UNCHANGED <<catalogVars, tool, emptying>>

\* What PlaceOrder orders, and the products for whose prices: it has read the
\* cart, which may be empty, and asked the catalog.
Order == [items |-> page.items, prices |-> ToSet(page.found)]

\* It ignores the error of EmptyCart, which may still be served.  Its answer may
\* get lost.
PlaceOrder ==
  /\ HasAll("placeOrder")
  /\ \/ cart' = {} /\ UNCHANGED emptying
     \/ UNCHANGED <<cart, emptying>>
     \/ source \in LateWith /\ UNCHANGED cart /\ emptying' = TRUE
  /\ Reply(NoAd)
  /\ UNCHANGED <<catalogVars, tool, put>>

Handle ==
  \/ Receive \/ Fetch \/ Fetched \/ BackendFails
  \/ ShowPage \/ ShowCart \/ SetCurrency \/ InsertCart \/ PlaceOrder

\* The cart service gets to an EmptyCart whose caller has gone on; there may be
\* more of them.
ServeEmpty ==
  /\ emptying
  /\ cart' = {} /\ put' = {}
  /\ emptying' \in BOOLEAN
  /\ UNCHANGED <<catalogVars, tool, todo, page>>

\* The recommendation service lists the products for the pages of other users.
Recommend(c) ==
  /\ c # Shopper
  /\ Ask(c, NONE)
  /\ UNCHANGED shopVars

Next ==
  \/ \E fn \in Picked : Iterate(fn)
  \/ Handle \/ ServeEmpty
  \/ \E c \in Callers : Recommend(c)
  \/ CatalogNext /\ UNCHANGED shopVars

Spec == Init /\ [][Next]_vars

\* The handlers run on, and a goroutine that waits for the mutex gets it in the
\* end: sync.Mutex starves nobody.  (Each of these steps changes call, or mutex,
\* which TLC is quicker to compare than vars.)  The services next to the catalog answer or
\* fail; AlloyDB and the Secret Manager need not.
Fairness ==
  /\ \A c \in Callers : WF_call(Runs(c) /\ UNCHANGED shopVars)
  /\ SF_mutex(Lock(Shopper) /\ UNCHANGED shopVars)
  /\ WF_vars(Handle)

FairSpec == Spec /\ Fairness

----------------------------------------------------------------------------
(* Properties. *)

TypeOK ==
  /\ CatalogTypeOK
  /\ tool \in {"k6", "locust"}
  /\ todo = <<>> => page.at = "rest"
  /\ Len(page.fetch) + Len(page.found) <= Size
  /\ page.at = "rest" => call[Shopper].stage = "idle"
  /\ cart \cup put \cup page.items \subseteq Products
  /\ emptying \in BOOLEAN

\* An order holds what its task put into the cart, answered or not, unless the
\* EmptyCart of an earlier order took it away late.  So a test that orders
\* nothing, for the cost of the shipping, which the checkout service does not
\* refuse, had no addToCart that the cart service accepted, or lost it so.
OrdersHoldWhatWasPut == HasAll("placeOrder") => put \subseteq Order.items

\* What the frontend puts into the cart is what the user asked for, and an order
\* is charged the prices of what is ordered: however often the list is loaded,
\* as long as it is not replaced or cut in the middle of the search for one of
\* the products.
CartIsWhatWasAsked ==
  ~ page.mixed =>
    /\ HasAll("addToCart") => page.found = <<Request.of>>
    /\ HasAll("placeOrder") => Order.prices = Order.items

\* No page breaks off for want of ads, and the ad on the page of a product is
\* of one of its categories if there is one for them, also after the cap.
FittingAds == UNION {ToSet(AdsMap[k]) : k \in DOMAIN AdsMap \cap ToSet(Categories[page.found[1]])}
PagesHaveFittingAds ==
  [][ /\ page'.ad # Aborted
      /\ todo' # todo /\ page'.ad # NoAd /\ page.found # <<>> /\ FittingAds # {}
           => page'.ad \in FittingAds ]_vars

\* AlloyDB, or the Secret Manager, is asked, with no deadline.
Waits(c) == source = "alloydb" /\ call[c].stage \in {"query", "rows"}

\* Every task ends: no call keeps the catalog's mutex, and no handler waits for
\* a call that has no answer; unless one load from AlloyDB hangs, which is enough
\* to hold up every user for ever.
TasksEnd == []<>(todo = <<>>) \/ \E c \in Callers : <>[]Waits(c)
=============================================================================
