----------------------------- MODULE TripsProofs -----------------------------
(***************************************************************************)
(* What the search page, the checkout page and the pages of a trip promise,  *)
(* for any number of tabs, phones, prices, readings and commands.           *)
(***************************************************************************)
EXTENDS MCTrips, FiniteSetTheorems, TLAPS

(* The image of a small set is no larger. *)
LEMMA ImageIsSmall ==
    ASSUME NEW S, IsFiniteSet(S), NEW f, DOMAIN f = S, f = [x \in S |-> f[x]]
    PROVE  IsFiniteSet({f[x] : x \in S}) /\ Cardinality({f[x] : x \in S}) <= Cardinality(S)
<1> DEFINE T == {f[x] : x \in S}
<1>1. f \in [S -> T]
  OBVIOUS
<1>2. f \in Surjection(S, T)
  BY <1>1 DEF Surjection
<1> QED
  BY <1>2, FS_Surjection

(* What one element more or less does to the size of a set. *)
LEMMA OneMoreOrLess ==
    ASSUME NEW S, IsFiniteSet(S), NEW x
    PROVE  /\ Cardinality(S) \in Nat
           /\ IsFiniteSet(S \ {x}) /\ Cardinality(S \ {x}) <= Cardinality(S)
           /\ x \in S => Cardinality(S \ {x}) < Cardinality(S)
           /\ IsFiniteSet(S \cup {x}) /\ Cardinality(S \cup {x}) <= Cardinality(S) + 1
           /\ Cardinality(S \ {x}) \in Nat /\ Cardinality(S \cup {x}) \in Nat
<1>1. IsFiniteSet(S \ {x}) /\ IsFiniteSet(S \cup {x})
  BY FS_AddElement, FS_RemoveElement
<1>2. Cardinality(S) \in Nat /\ Cardinality(S \ {x}) \in Nat /\ Cardinality(S \cup {x}) \in Nat
  BY <1>1, FS_CardinalityType
<1>3. Cardinality(S \ {x}) = IF x \in S THEN Cardinality(S) - 1 ELSE Cardinality(S)
  BY FS_RemoveElement
<1>4. Cardinality(S \cup {x}) = IF x \in S THEN Cardinality(S) ELSE Cardinality(S) + 1
  BY FS_AddElement
<1> QED
  BY <1>1, <1>2, <1>3, <1>4

-----------------------------------------------------------------------------
(* Search *)

(* The query that will be on screen once the page asked for has arrived. *)
Target == IF next = NoQuery THEN url ELSE next

(* What is on its way is what the user has asked for, and a field that holds  *)
(* no text of its own shows what was asked for too: the next control used   *)
(* builds its query from the one, and the fields add theirs.                *)
SearchInv ==
    /\ SearchTypeOK
    /\ ~overtaken =>
           /\ Target.category = wanted.category
           /\ Target.page = wanted.page
           /\ Target.price = wanted.price \/ repaired
           /\ Target.day = wanted.day \/ repaired \/ west
    /\ ~bar.typed => bar.day = wanted.day \/ repaired \/ west
    /\ ~box.typed => box.price = wanted.price \/ repaired
    /\ box.typed => box.focus

LEMMA QueriesAreAsked == \A q \in Query : q # NoQuery
<1> SUFFICES ASSUME NEW q \in Query, q = NoQuery PROVE FALSE
  OBVIOUS
<1>1. q.day \in 0 .. LastDay
  BY DEF Query
<1>2. q.day = -1
  BY DEF NoQuery
<1> QED
  BY <1>1, <1>2, SearchAssumption

(* The day a field is mounted with is one it can hold. *)
LEMMA DaysInBrowser == west \in BOOLEAN => \A d \in 0 .. LastDay :
    /\ InBrowser(d) \in 0 .. LastDay
    /\ InBrowser(d) = d \/ west
BY SearchAssumption DEF InBrowser

LEMMA SearchInvInit == SearchInit => SearchInv
<1> SUFFICES ASSUME SearchInit PROVE SearchInv
  OBVIOUS
<1>1. /\ url \in Query /\ wanted = url /\ next = NoQuery /\ west \in BOOLEAN
      /\ bar = [day |-> InBrowser(url.day), typed |-> FALSE]
      /\ box = [price |-> url.price, focus |-> FALSE, typed |-> FALSE]
  BY DEF SearchInit
<1>2. url.day \in 0 .. LastDay /\ url.price \in 0 .. LastPrice
  BY <1>1 DEF Query
<1>3. InBrowser(url.day) \in 0 .. LastDay /\ (InBrowser(url.day) = url.day \/ west)
  BY <1>1, <1>2, DaysInBrowser
<1>4. overtaken = FALSE /\ repaired = FALSE
  BY DEF SearchInit
<1>5. SearchTypeOK
  BY <1>1, <1>2, <1>3, <1>4 DEF SearchTypeOK
<1> QED
  BY <1>1, <1>2, <1>3, <1>4, <1>5 DEF SearchInv, Target

(* A control that pushes the query q, the user now wanting w: q is as good a  *)
(* target as the query on screen was, wherever the two do not agree.        *)
LEMMA Pushed ==
    ASSUME SearchInv, NEW q \in Query, NEW w \in Query,
           next' = q, wanted' = w, UNCHANGED <<url, west>>,
           overtaken' \in BOOLEAN, repaired' \in BOOLEAN, repaired => repaired',
           ~overtaken' => next = NoQuery /\ ~overtaken,
           ~overtaken' =>
               /\ q.category = w.category
               /\ q.page = w.page
               /\ q.price = w.price \/ (url.price # wanted.price) \/ repaired'
               /\ q.day = w.day \/ (url.day # wanted.day) \/ repaired' \/ west,
           bar' \in [day: 0 .. LastDay, typed: BOOLEAN],
           box' \in [price: 0 .. LastPrice, focus: BOOLEAN, typed: BOOLEAN],
           ~bar'.typed => bar'.day = w.day \/ repaired' \/ west,
           ~box'.typed => box'.price = w.price \/ repaired',
           box'.typed => box'.focus
    PROVE  SearchInv'
<1>1. q # NoQuery
  BY QueriesAreAsked
<1>2. SearchTypeOK'
  BY DEF SearchInv, SearchTypeOK
<1>3. Target' = q
  BY <1>1 DEF Target
<1>4. ~overtaken' =>
          /\ q.category = w.category
          /\ q.page = w.page
          /\ q.price = w.price \/ repaired'
          /\ q.day = w.day \/ repaired' \/ west
  BY DEF SearchInv, Target
<1> QED
  BY <1>2, <1>3, <1>4 DEF SearchInv

LEMMA SearchInvStep == SearchInv /\ [SearchNext]_searchVars => SearchInv'
<1> SUFFICES ASSUME SearchInv, [SearchNext]_searchVars PROVE SearchInv'
  OBVIOUS
<1> USE SearchAssumption
<1>t. /\ url \in Query /\ wanted \in Query /\ next \in Query \cup {NoQuery}
      /\ bar \in [day: 0 .. LastDay, typed: BOOLEAN]
      /\ box \in [price: 0 .. LastPrice, focus: BOOLEAN, typed: BOOLEAN]
  BY DEF SearchInv, SearchTypeOK
<1>u. west \in BOOLEAN /\ overtaken \in BOOLEAN /\ repaired \in BOOLEAN
  BY DEF SearchInv, SearchTypeOK
<1>f. /\ ~bar.typed => bar.day = wanted.day \/ repaired \/ west
      /\ ~box.typed => box.price = wanted.price \/ repaired
      /\ box.typed => box.focus
  BY DEF SearchInv
<1>p. 1 \in 1 .. LastPage
  BY <1>t DEF Query
<1>1. CASE TypeDay
  <2>1. PICK d \in 0 .. LastDay : bar' = [day |-> d, typed |-> TRUE]
    BY <1>1 DEF TypeDay
  <2>2. UNCHANGED <<url, next, box, west, wanted, overtaken, repaired>>
    BY <1>1 DEF TypeDay
  <2>3. bar' \in [day: 0 .. LastDay, typed: BOOLEAN] /\ bar'.typed
    BY <2>1
  <2> QED
    BY <2>2, <2>3 DEF SearchInv, SearchTypeOK, Target
<1>2. CASE HandleSearch
  <2> DEFINE q == Go([url EXCEPT !.day = bar.day])
             d == IF bar.typed THEN bar.day ELSE wanted.day
             w == [wanted EXCEPT !.page = 1, !.day = d]
  <2>1. /\ next' = q /\ UNCHANGED <<url, west, box, repaired>> /\ ~box.focus
        /\ overtaken' = (overtaken \/ next # NoQuery)
        /\ bar' = [bar EXCEPT !.typed = FALSE]
    BY <1>2 DEF HandleSearch, Push
  <2>2. wanted' = w
    BY <1>2 DEF HandleSearch
  <2>3. d \in 0 .. LastDay /\ bar.day \in 0 .. LastDay
    BY <1>t DEF Query
  <2>4. /\ q \in Query /\ q.page = 1 /\ q.category = url.category
        /\ q.price = url.price /\ q.day = bar.day
    BY <1>t, <1>p, <2>3 DEF Go, Query
  <2>5. /\ w \in Query /\ w.page = 1 /\ w.day = d /\ w.category = wanted.category
        /\ w.price = wanted.price
    BY <1>t, <1>p, <2>3 DEF Query
  <2>6. /\ bar' \in [day: 0 .. LastDay, typed: BOOLEAN] /\ bar'.day = bar.day
    BY <1>t, <2>1
  <2>7. ~overtaken' => next = NoQuery /\ ~overtaken /\ url.category = wanted.category
    BY <2>1 DEF SearchInv, Target
  <2>8. overtaken' \in BOOLEAN
    BY <2>1
  <2>9. bar.day = d \/ repaired \/ west
    BY <1>f
  <2> HIDE DEF q, w, d
  <2> QED
    BY <1>t, <1>u, <1>f, <2>1, <2>2, <2>4, <2>5, <2>6, <2>7, <2>8, <2>9, Pushed
<1>3. CASE FocusPrice
  <2>1. /\ box' = [box EXCEPT !.focus = TRUE]
        /\ UNCHANGED <<url, next, bar, west, wanted, overtaken, repaired>>
    BY <1>3 DEF FocusPrice
  <2>2. /\ box' \in [price: 0 .. LastPrice, focus: BOOLEAN, typed: BOOLEAN]
        /\ box'.focus /\ box'.price = box.price /\ box'.typed = box.typed
    BY <1>t, <2>1
  <2> QED
    BY <2>1, <2>2 DEF SearchInv, SearchTypeOK, Target
<1>4. CASE TypePrice
  <2>1. PICK p \in 0 .. LastPrice : box' = [box EXCEPT !.price = p, !.typed = TRUE]
    BY <1>4 DEF TypePrice
  <2>2. UNCHANGED <<url, next, bar, west, wanted, overtaken, repaired>> /\ box.focus
    BY <1>4 DEF TypePrice
  <2>3. /\ box' \in [price: 0 .. LastPrice, focus: BOOLEAN, typed: BOOLEAN]
        /\ box'.typed /\ box'.focus
    BY <1>t, <2>1, <2>2
  <2> QED
    BY <2>2, <2>3 DEF SearchInv, SearchTypeOK, Target
<1>w. /\ PriceWanted \in Query /\ PriceWanted.category = wanted.category
      /\ PriceWanted.day = wanted.day
      /\ PriceWanted.price = IF box.typed THEN box.price ELSE wanted.price
  BY <1>t, <1>p DEF PriceWanted, Query
<1>5. CASE ApplyPrice
  <2> DEFINE q == Go([url EXCEPT !.price = box.price])
             w == [PriceWanted EXCEPT !.page = 1]
  <2>1. /\ next' = q /\ UNCHANGED <<url, west, bar, repaired>>
        /\ overtaken' = (overtaken \/ next # NoQuery)
        /\ box' = [box EXCEPT !.focus = FALSE, !.typed = FALSE]
    BY <1>5 DEF ApplyPrice, Push
  <2>2. wanted' = w
    BY <1>5 DEF ApplyPrice
  <2>3. box.price \in 0 .. LastPrice
    BY <1>t
  <2>4. /\ q \in Query /\ q.page = 1 /\ q.category = url.category
        /\ q.price = box.price /\ q.day = url.day
    BY <1>t, <1>p, <2>3 DEF Go, Query
  <2>5. /\ w \in Query /\ w.page = 1 /\ w.day = wanted.day /\ w.category = wanted.category
        /\ w.price = IF box.typed THEN box.price ELSE wanted.price
    BY <1>p, <1>w DEF Query
  <2>6. /\ box' \in [price: 0 .. LastPrice, focus: BOOLEAN, typed: BOOLEAN]
        /\ box'.price = box.price /\ ~box'.typed
    BY <1>t, <2>1
  <2>7. ~overtaken' => /\ next = NoQuery /\ ~overtaken /\ url.category = wanted.category
                       /\ url.day = wanted.day \/ repaired \/ west
    BY <2>1 DEF SearchInv, Target
  <2>8. overtaken' \in BOOLEAN
    BY <2>1
  <2>9. box.price = w.price \/ repaired
    BY <1>f, <2>5
  <2> HIDE DEF q, w
  <2> QED
    BY <1>t, <1>u, <1>f, <2>1, <2>2, <2>4, <2>5, <2>6, <2>7, <2>8, <2>9, Pushed
<1>6. CASE ChooseCategory
  <2> DEFINE chosen == 1 - url.category
             q == Go([url EXCEPT !.category = chosen])
             w == [PriceWanted EXCEPT !.category = chosen, !.page = 1]
  <2>1. /\ next' = q /\ UNCHANGED <<url, west, bar, repaired>>
        /\ overtaken' = IF box.focus THEN TRUE ELSE overtaken \/ next # NoQuery
        /\ box' = [box EXCEPT !.focus = FALSE, !.typed = FALSE]
    BY <1>6 DEF ChooseCategory, Push, PushAgain
  <2>2. wanted' = w
    BY <1>6 DEF ChooseCategory
  <2>3. chosen \in 0 .. 1
    BY <1>t DEF Query
  <2>4. /\ q \in Query /\ q.page = 1 /\ q.category = chosen
        /\ q.price = url.price /\ q.day = url.day
    BY <1>t, <1>p, <2>3 DEF Go, Query
  <2>5. /\ w \in Query /\ w.page = 1 /\ w.day = wanted.day /\ w.category = chosen
        /\ w.price = IF box.typed THEN box.price ELSE wanted.price
    BY <1>p, <1>w, <2>3 DEF Query
  <2>6. /\ box' \in [price: 0 .. LastPrice, focus: BOOLEAN, typed: BOOLEAN]
        /\ box'.price = box.price /\ ~box'.typed
    BY <1>t, <2>1
  <2>7. ~overtaken' => /\ next = NoQuery /\ ~overtaken /\ ~box.focus
                       /\ url.price = wanted.price \/ repaired
                       /\ url.day = wanted.day \/ repaired \/ west
    BY <2>1 DEF SearchInv, Target
  <2>8. overtaken' \in BOOLEAN
    BY <1>u, <2>1
  <2>9. box.price = w.price \/ repaired
    BY <1>f, <2>5
  <2> HIDE DEF q, w, chosen
  <2> QED
    BY <1>t, <1>u, <1>f, <2>1, <2>2, <2>4, <2>5, <2>6, <2>7, <2>8, <2>9, Pushed
<1>7. CASE TurnPage
  <2>1. PICK p \in 1 .. LastPage :
            Push([url EXCEPT !.page = p]) /\ wanted' = [wanted EXCEPT !.page = p]
    BY <1>7 DEF TurnPage
  <2> DEFINE q == [url EXCEPT !.page = p]
             w == [wanted EXCEPT !.page = p]
  <2>2. /\ next' = q /\ wanted' = w /\ UNCHANGED <<url, west, bar, box, repaired>>
        /\ overtaken' = (overtaken \/ next # NoQuery)
    BY <1>7, <2>1 DEF TurnPage, Push
  <2>3. /\ q \in Query /\ q.page = p /\ q.category = url.category
        /\ q.price = url.price /\ q.day = url.day
    BY <1>t DEF Query
  <2>4. /\ w \in Query /\ w.page = p /\ w.category = wanted.category
        /\ w.price = wanted.price /\ w.day = wanted.day
    BY <1>t DEF Query
  <2>5. ~overtaken' => /\ next = NoQuery /\ ~overtaken /\ url.category = wanted.category
                       /\ url.price = wanted.price \/ repaired
                       /\ url.day = wanted.day \/ repaired \/ west
    BY <2>2 DEF SearchInv, Target
  <2>6. overtaken' \in BOOLEAN
    BY <2>2
  <2> HIDE DEF q, w
  <2> QED
    BY <1>t, <1>u, <1>f, <2>2, <2>3, <2>4, <2>5, <2>6, Pushed
<1>8. CASE Repair
  <2>1. PICK q, w : /\ Push(q) /\ wanted' = w /\ UNCHANGED <<bar, box>> /\ repaired' = TRUE
                    /\ \/ q = withoutFilters(url) /\ w = withoutFilters(wanted)
                       \/ q = withWiderDates(url) /\ w = withWiderDates(wanted)
    BY <1>8 DEF Repair
  <2>2. ASSUME NEW x \in Query
        PROVE  /\ withoutFilters(x) \in Query /\ withoutFilters(x).page = 1
               /\ withoutFilters(x).category = Empty
    <3>1. 0 \in 0 .. LastPrice /\ 0 \in 0 .. 1
      OBVIOUS
    <3>2. withoutFilters(x) = [x EXCEPT !.price = 0, !.category = 0, !.page = 1]
      BY DEF withoutFilters, Empty
    <3> QED
      BY <1>p, <3>1, <3>2 DEF Query, Empty
  <2>3. ASSUME NEW x \in Query
        PROVE  /\ withWiderDates(x) \in Query /\ withWiderDates(x).page = 1
               /\ withWiderDates(x).category = x.category
    <3> DEFINE d == IF x.day = 0 THEN 0 ELSE x.day - 1
    <3>1. x.day \in 0 .. LastDay
      BY DEF Query
    <3>2. d \in 0 .. LastDay
      BY <3>1
    <3>3. withWiderDates(x) = [x EXCEPT !.day = d, !.page = 1]
      BY DEF withWiderDates
    <3> HIDE DEF d
    <3> QED
      BY <1>p, <3>2, <3>3 DEF Query
  <2>4. /\ q \in Query /\ w \in Query /\ q.page = w.page
        /\ url.category = wanted.category => q.category = w.category
    BY <1>t, <2>1, <2>2, <2>3
  <2>5. /\ next' = q /\ UNCHANGED <<url, west>>
        /\ overtaken' = (overtaken \/ next # NoQuery)
    BY <2>1 DEF Push
  <2>6. ~overtaken' => next = NoQuery /\ ~overtaken /\ url.category = wanted.category
    BY <2>5 DEF SearchInv, Target
  <2>7. overtaken' \in BOOLEAN /\ repaired' \in BOOLEAN /\ repaired'
    BY <2>1, <2>5
  <2> QED
    BY <1>t, <1>f, <2>1, <2>4, <2>5, <2>6, <2>7, Pushed
<1>9. CASE PageArrives
  <2>1. /\ url' = next /\ next' = NoQuery /\ next # NoQuery
        /\ UNCHANGED <<bar, box, west, wanted, overtaken, repaired>>
    BY <1>9 DEF PageArrives
  <2>2. Target' = Target
    BY <2>1 DEF Target
  <2>3. SearchTypeOK'
    BY <2>1 DEF SearchInv, SearchTypeOK
  <2> QED
    BY <2>1, <2>2, <2>3 DEF SearchInv
<1>10. CASE ReloadPage
  <2>1. /\ url' = Target /\ wanted' = url' /\ next' = NoQuery /\ UNCHANGED west
        /\ overtaken' = FALSE /\ repaired' = FALSE
        /\ bar' = [day |-> InBrowser(url'.day), typed |-> FALSE]
        /\ box' = [price |-> url'.price, focus |-> FALSE, typed |-> FALSE]
    BY <1>10 DEF ReloadPage, Mounted, Target
  <2>2. url' \in Query
    BY <1>t, <2>1 DEF Target
  <2>3. url'.day \in 0 .. LastDay /\ url'.price \in 0 .. LastPrice
    BY <2>2 DEF Query
  <2>4. InBrowser(url'.day) \in 0 .. LastDay /\ (InBrowser(url'.day) = url'.day \/ west)
    BY <1>u, <2>3, DaysInBrowser
  <2>5. SearchTypeOK'
    BY <1>u, <2>1, <2>2, <2>3, <2>4 DEF SearchTypeOK
  <2> QED
    BY <2>1, <2>4, <2>5 DEF SearchInv, Target
<1>11. CASE UNCHANGED searchVars
  BY <1>11 DEF searchVars, SearchInv, SearchTypeOK, Target
<1> QED
  BY <1>1, <1>2, <1>3, <1>4, <1>5, <1>6, <1>7, <1>8, <1>9, <1>10, <1>11 DEF SearchNext

(* Whatever controls are used and in whatever order, the query on screen is  *)
(* the one the user put together, but for the exceptions FiltersStick names. *)
THEOREM FiltersStay == SearchSpec => []FiltersStick
<1>1. SearchInv => FiltersStick
  BY DEF SearchInv, FiltersStick, Target
<1> QED
  BY <1>1, SearchInvInit, SearchInvStep, PTL DEF SearchSpec

-----------------------------------------------------------------------------
(* Checkout *)

(* A whole number of twentieths of a cent is a number of cents, and the parts *)
(* of a price, each rounded by itself, add up to the total but for a cent.  *)
LEMMA CentsAreNat == \A x \in Nat : Cents(x) \in Nat /\ Cents(x * 20) = x
BY DEF Cents

LEMMA CentsAreShown == \A x : Cents(x) \in Shown(x)
BY DEF Shown

LEMMA LinesAddUp ==
    \A k \in Nat, d \in Nat :
        k + Cents(2 * k) + Cents(k) + d - Cents(23 * k + 20 * d) \in -1 .. 1
BY DEF Cents

(* The browser's count of days is the server's. *)
LEMMA DayCountsAgree ==
    \A span \in Nat : TotalDays(span) = daysBetween(span) /\ TotalDays(span) \in Nat
BY DEF TotalDays, daysBetween

(* A price worked out from the car that was quoted is the quote, to the cent. *)
LEMMA PriceParts ==
    ASSUME NEW c \in Car, NEW span \in Spans
    PROVE  LET m == BookingPrice(c, span) IN
           /\ m \in Money
           /\ m.subtotal + m.fee + m.tax + m.deposit - m.total \in -1 .. 1
           /\ \A line \in DOMAIN m : m[line] \in Shown(priceBreakdown(c, span)[line])
<1>1. c.price \in Nat /\ c.deposit \in Nat /\ span \in Nat
  BY CheckoutAssumption DEF Car
<1> DEFINE k == TotalDays(span) * c.price
           s == k * 20
<1>2. k \in Nat
  BY <1>1, DayCountsAgree
<1>3. BookingPrice(c, span) =
          [subtotal |-> Cents(s), fee |-> Cents(s \div 10), tax |-> Cents(s \div 20),
           deposit |-> Cents(c.deposit * 20),
           total |-> Cents(s + s \div 10 + s \div 20 + c.deposit * 20)]
  BY DEF BookingPrice
<1>4. priceBreakdown(c, span) =
          [subtotal |-> s, fee |-> s \div 10, tax |-> s \div 20,
           deposit |-> c.deposit * 20, total |-> s + s \div 10 + s \div 20 + c.deposit * 20]
  BY <1>1, DayCountsAgree DEF priceBreakdown
<1> HIDE DEF k
<1>5. s \in Nat /\ s \div 10 = 2 * k /\ s \div 20 = k
  BY <1>2
<1>6. s + s \div 10 + s \div 20 + c.deposit * 20 = 23 * k + 20 * c.deposit
  BY <1>1, <1>2, <1>5
<1>7. /\ Cents(s) = k /\ Cents(c.deposit * 20) = c.deposit
      /\ Cents(2 * k) \in Nat /\ Cents(k) \in Nat /\ Cents(23 * k + 20 * c.deposit) \in Nat
  BY <1>1, <1>2, CentsAreNat
<1>8. BookingPrice(c, span) =
          [subtotal |-> k, fee |-> Cents(2 * k), tax |-> Cents(k), deposit |-> c.deposit,
           total |-> Cents(23 * k + 20 * c.deposit)]
  BY <1>3, <1>5, <1>6, <1>7
<1>9. BookingPrice(c, span) \in Money
  BY <1>1, <1>2, <1>7, <1>8 DEF Money
<1>10. LET m == BookingPrice(c, span) IN
       m.subtotal + m.fee + m.tax + m.deposit - m.total \in -1 .. 1
  BY <1>1, <1>2, <1>8, LinesAddUp
<1>11. LET m == BookingPrice(c, span) IN
       \A line \in DOMAIN m : m[line] \in Shown(priceBreakdown(c, span)[line])
  <2> HIDE DEF s
  <2> SUFFICES ASSUME NEW line \in {"subtotal", "fee", "tax", "deposit", "total"}
               PROVE  BookingPrice(c, span)[line] \in Shown(priceBreakdown(c, span)[line])
    BY <1>3
  <2>1. BookingPrice(c, span)[line] = Cents(priceBreakdown(c, span)[line])
    BY <1>3, <1>4
  <2> QED
    BY <2>1, CentsAreShown
<1> QED
  BY <1>9, <1>10, <1>11

(* A request that is waited for keeps its page from sending another; and      *)
(* while none overlapped another, a request under way is the only one and   *)
(* was admitted with no booking standing.                                   *)
RequestsInv ==
    /\ \A r \in creating : r.heard => checkout[r.by].open /\ checkout[r.by].submitting
    /\ \A r, s \in creating : r.heard /\ s.heard /\ r.by = s.by => r = s
    /\ ~retried => /\ \A r, s \in creating : r = s
                   /\ creating # {} => Standing = {}
                   /\ \A i, j \in Standing : i = j

CheckoutInv ==
    /\ CheckoutTypeOK /\ IsFiniteSet(creating)
    /\ \A i \in 1 .. Len(booked) : QuotedPrice(booked[i])
    /\ RequestsInv

LEMMA CheckoutInvInit == CheckoutInit => CheckoutInv
<1> SUFFICES ASSUME CheckoutInit PROVE CheckoutInv
  OBVIOUS
<1>1. IsFiniteSet(creating) /\ Cardinality(creating) = 0
  BY FS_EmptySet DEF CheckoutInit
<1>2. booked \in Seq(Booked) /\ Len(booked) = 0
  BY DEF CheckoutInit
<1>3. CheckoutTypeOK
  <2>1. MaxCreating \in Nat /\ MaxBooked \in Nat
    BY CheckoutAssumption
  <2>2. retried \in BOOLEAN
    BY DEF CheckoutInit
  <2> QED
    BY <1>1, <1>2, <2>1, <2>2 DEF CheckoutInit, CheckoutTypeOK
<1>4. Standing = {}
  BY <1>2 DEF Standing
<1> QED
  BY <1>1, <1>2, <1>3, <1>4 DEF CheckoutInit, CheckoutInv, RequestsInv

LEMMA CheckoutInvStep == CheckoutInv /\ [CheckoutNext]_checkoutVars => CheckoutInv'
<1> SUFFICES ASSUME CheckoutInv, [CheckoutNext]_checkoutVars PROVE CheckoutInv'
  OBVIOUS
<1> USE CheckoutAssumption
<1>t. /\ car \in Car /\ checkout \in [CheckoutTabs -> {NoCheckout} \cup OpenPage]
      /\ creating \subseteq Creation /\ Cardinality(creating) <= MaxCreating
      /\ booked \in Seq(Booked) /\ Len(booked) <= MaxBooked /\ IsFiniteSet(creating)
      /\ MaxCreating \in Nat /\ MaxBooked \in Nat
  BY DEF CheckoutInv, CheckoutTypeOK
<1>u. retried \in BOOLEAN
  BY DEF CheckoutInv, CheckoutTypeOK
<1>q. \A i \in 1 .. Len(booked) : QuotedPrice(booked[i])
  BY DEF CheckoutInv
<1>1. ASSUME NEW t \in CheckoutTabs, OpenCheckout(t)
      PROVE  CheckoutInv'
  <2>1. PICK span \in Spans : checkout' = [checkout EXCEPT ![t] =
              [open |-> TRUE, car |-> car, span |-> span, submitting |-> FALSE]]
    BY <1>1 DEF OpenCheckout
  <2> DEFINE f == [open |-> TRUE, car |-> car, span |-> span, submitting |-> FALSE]
  <2>2. f \in OpenPage
    BY <1>t DEF OpenPage
  <2>3. UNCHANGED <<car, creating, booked, retried>> /\ checkout[t] = NoCheckout
    BY <1>1 DEF OpenCheckout
  <2>4. CheckoutTypeOK'
    BY <2>1, <2>2, <2>3 DEF CheckoutInv, CheckoutTypeOK
  <2>5. \A r \in creating : r.heard => r.by \in CheckoutTabs /\ r.by # t
    BY <1>t, <2>3 DEF Creation, NoCheckout, CheckoutInv, RequestsInv
  <2> HIDE DEF f
  <2>6. RequestsInv'
    BY <1>t, <2>1, <2>3, <2>5 DEF CheckoutInv, RequestsInv, Standing
  <2> QED
    BY <1>t, <1>q, <2>3, <2>4, <2>6 DEF CheckoutInv
<1>2. ASSUME NEW t \in CheckoutTabs, LeaveCheckout(t)
      PROVE  CheckoutInv'
  <2> DEFINE g == [r \in creating |-> IF r.by = t THEN [r EXCEPT !.heard = FALSE] ELSE r]
  <2>1. /\ checkout' = [checkout EXCEPT ![t] = NoCheckout] /\ UNCHANGED <<car, booked, retried>>
        /\ creating' = {g[r] : r \in creating}
    BY <1>2 DEF LeaveCheckout
  <2>2. IsFiniteSet(creating') /\ Cardinality(creating') <= Cardinality(creating)
    <3>1. DOMAIN g = creating /\ g = [r \in creating |-> g[r]]
      OBVIOUS
    <3> HIDE DEF g
    <3> QED
      BY <1>t, <2>1, <3>1, ImageIsSmall
  <2>3. Cardinality(creating') \in Nat /\ Cardinality(creating) \in Nat
    BY <1>t, <2>2, FS_CardinalityType
  <2>4. \A r \in creating : /\ g[r] \in Creation /\ g[r].by = r.by
                            /\ g[r].heard => r.heard /\ r.by # t /\ g[r] = r
    BY <1>t DEF Creation
  <2> HIDE DEF g
  <2>5. CheckoutTypeOK'
    BY <1>t, <1>u, <2>1, <2>2, <2>3, <2>4 DEF CheckoutTypeOK
  <2>6. RequestsInv'
    <3>1. ASSUME NEW r \in creating', r.heard
          PROVE  r \in creating /\ r.by # t /\ r.by \in CheckoutTabs
      BY <1>t, <2>1, <2>4, <3>1 DEF Creation
    <3>2. Standing' = Standing
      BY <2>1 DEF Standing
    <3>3. \A r \in creating' : r.heard => checkout'[r.by] = checkout[r.by]
      BY <1>t, <2>1, <3>1
    <3>4. creating' # {} => creating # {}
      BY <2>1
    <3>5. (\A r, s \in creating : r = s) => \A r, s \in creating' : r = s
      BY <2>1
    <3> QED
      BY <2>1, <3>1, <3>2, <3>3, <3>4, <3>5 DEF CheckoutInv, RequestsInv
  <2> QED
    BY <1>t, <1>q, <2>1, <2>2, <2>5, <2>6 DEF CheckoutInv
<1>3. ASSUME NEW t \in CheckoutTabs, HandleCheckout(t), ~Taken
      PROVE  CheckoutInv'
  <2> DEFINE n == [by |-> t, car |-> car, page |-> QuoteOf(t), heard |-> TRUE]
             f == [checkout[t] EXCEPT !.submitting = TRUE]
  <2>1. /\ checkout[t].open /\ ~checkout[t].submitting /\ Cardinality(creating) < MaxCreating
        /\ creating' = creating \cup {n} /\ checkout' = [checkout EXCEPT ![t] = f]
        /\ retried' = (retried \/ \E r \in creating : r.by # t \/ ~r.heard)
        /\ UNCHANGED <<car, booked>>
    BY <1>3 DEF HandleCheckout
  <2>2. checkout[t] \in OpenPage
    BY <1>t, <2>1 DEF NoCheckout
  <2>3. f \in OpenPage /\ f.open /\ f.submitting /\ n \in Creation /\ n.by = t /\ n.heard
    BY <1>t, <2>2 DEF OpenPage, Creation, QuoteOf, Quote
  <2> HIDE DEF n, f
  <2>4. IsFiniteSet(creating') /\ Cardinality(creating') <= MaxCreating
    <3>1. /\ Cardinality(creating) \in Nat /\ Cardinality(creating \cup {n}) \in Nat
          /\ IsFiniteSet(creating \cup {n})
          /\ Cardinality(creating \cup {n}) <= Cardinality(creating) + 1
      BY <1>t, OneMoreOrLess
    <3> QED
      BY <1>t, <2>1, <3>1
  <2>5. retried' \in BOOLEAN
    BY <2>1
  <2>6. CheckoutTypeOK'
    BY <1>t, <2>1, <2>3, <2>4, <2>5 DEF CheckoutTypeOK
  <2>7. \A r \in creating : r.heard => r.by # t
    BY <2>1 DEF CheckoutInv, RequestsInv
  <2>8. ~retried' => ~retried /\ creating = {}
    BY <2>1, <2>7
  <2>9. Standing' = {}
    BY <1>3, <2>1 DEF Taken, Standing
  <2>10. \A r \in creating : r.by \in CheckoutTabs
    BY <1>t DEF Creation
  <2>11. \A r \in creating : r.heard => checkout'[r.by] = checkout[r.by]
    BY <1>t, <2>1, <2>7, <2>10
  <2>12. RequestsInv'
    BY <1>t, <2>1, <2>3, <2>7, <2>8, <2>9, <2>11 DEF CheckoutInv, RequestsInv
  <2> QED
    BY <1>t, <1>q, <2>1, <2>4, <2>6, <2>12 DEF CheckoutInv
<1>4. ASSUME NEW t \in CheckoutTabs, HandleCheckout(t), Taken
      PROVE  CheckoutInv'
  BY <1>4 DEF HandleCheckout, CheckoutInv, CheckoutTypeOK, RequestsInv, Standing
<1>r. ASSUME NEW r \in creating
      PROVE  /\ Cardinality(creating \ {r}) \in Nat /\ IsFiniteSet(creating \ {r})
             /\ Cardinality(creating \ {r}) <= MaxCreating
             /\ Cardinality(creating \ {r}) + 1 <= MaxCreating
  <2>1. /\ Cardinality(creating) \in Nat /\ Cardinality(creating \ {r}) \in Nat
        /\ IsFiniteSet(creating \ {r}) /\ Cardinality(creating \ {r}) < Cardinality(creating)
    BY <1>t, OneMoreOrLess
  <2> QED
    BY <1>t, <2>1
<1>5. ASSUME NEW r \in creating, CreateBooking(r)
      PROVE  CheckoutInv'
  <2> DEFINE b == [page |-> r.page, read |-> r.car, live |-> TRUE,
                   money |-> BookingPrice(r.car, r.page.span)]
  <2>1. /\ Len(booked) < MaxBooked /\ booked' = Append(booked, b) /\ creating' = creating \ {r}
        /\ checkout' = (IF r.heard THEN [checkout EXCEPT ![r.by] = NoCheckout] ELSE checkout)
        /\ UNCHANGED <<car, retried>>
    BY <1>5 DEF CreateBooking
  <2>2. /\ r.by \in CheckoutTabs /\ r.car \in Car /\ r.page \in Quote
        /\ r.page.car \in Car /\ r.page.span \in Spans
    BY <1>t DEF Creation, Quote
  <2>3. b \in Booked /\ QuotedPrice(b)
    BY <2>2, PriceParts DEF Booked, QuotedPrice
  <2> HIDE DEF b
  <2>4. /\ booked' \in Seq(Booked) /\ Len(booked') = Len(booked) + 1
        /\ \A i \in 1 .. Len(booked) : booked'[i] = booked[i]
        /\ booked'[Len(booked) + 1] = b
    <3>1. booked' = Append(booked, b)
      BY <2>1
    <3>2. booked' \in Seq(Booked) /\ Len(booked') = Len(booked) + 1
      BY <1>t, <2>3, <3>1
    <3>3. booked'[Len(booked) + 1] = b
      BY <1>t, <2>3, <3>1
    <3>4. \A i \in 1 .. Len(booked) : booked'[i] = booked[i]
      BY <1>t, <2>3, <3>1
    <3> QED
      BY <3>2, <3>3, <3>4
  <2>5. creating' = creating \ {r}
    BY <2>1
  <2>6. CheckoutTypeOK'
    <3>1. checkout' \in [CheckoutTabs -> {NoCheckout} \cup OpenPage]
      BY <1>t, <2>1, <2>2
    <3>2. Len(booked') <= MaxBooked
      BY <1>t, <2>1, <2>4
    <3>3. creating' \subseteq Creation /\ retried' \in BOOLEAN /\ car' \in Car
      BY <1>t, <1>u, <2>1
    <3> QED
      BY <1>r, <2>4, <2>5, <3>1, <3>2, <3>3 DEF CheckoutTypeOK
  <2>7. \A i \in 1 .. Len(booked') : QuotedPrice(booked'[i])
    <3> SUFFICES ASSUME NEW i \in 1 .. Len(booked') PROVE QuotedPrice(booked'[i])
      OBVIOUS
    <3>1. CASE i \in 1 .. Len(booked)
      <4>1. booked'[i] = booked[i]
        BY <2>4, <3>1
      <4> QED
        BY <1>q, <3>1, <4>1
    <3>2. CASE i = Len(booked) + 1
      <4>1. booked'[i] = b
        BY <2>4, <3>2
      <4> QED
        BY <2>3, <4>1
    <3> QED
      BY <1>t, <2>4, <3>1, <3>2
  <2>8. Standing' \subseteq Standing \cup {Len(booked) + 1}
    BY <1>t, <2>4 DEF Standing
  <2>9. \A s \in creating' : s.heard => s.by \in CheckoutTabs /\ checkout'[s.by] = checkout[s.by]
    BY <1>t, <2>1, <2>2 DEF Creation, CheckoutInv, RequestsInv
  <2>10. RequestsInv'
    BY <2>1, <2>8, <2>9 DEF CheckoutInv, RequestsInv
  <2> QED
    BY <1>r, <2>5, <2>6, <2>7, <2>10 DEF CheckoutInv
<1>6. ASSUME NEW r \in creating, CreateFails(r)
      PROVE  CheckoutInv'
  <2> DEFINE f == [checkout[r.by] EXCEPT !.submitting = FALSE]
  <2>1. /\ creating' = creating \ {r} /\ UNCHANGED <<car, booked, retried>>
        /\ checkout' = (IF r.heard THEN [checkout EXCEPT ![r.by] = f] ELSE checkout)
    BY <1>6 DEF CreateFails, Unanswered
  <2>2. r.by \in CheckoutTabs
    BY <1>t DEF Creation
  <2>3. r.heard => f \in OpenPage
    <3>1. r.heard => checkout[r.by] \in OpenPage
      BY <1>t, <2>2 DEF CheckoutInv, RequestsInv, NoCheckout
    <3> QED
      BY <3>1 DEF OpenPage
  <2> HIDE DEF f
  <2>4. creating' = creating \ {r}
    BY <2>1
  <2>5. CheckoutTypeOK'
    <3>1. checkout' \in [CheckoutTabs -> {NoCheckout} \cup OpenPage]
      BY <1>t, <2>1, <2>3
    <3> QED
      BY <1>t, <1>u, <1>r, <2>1, <2>4, <3>1 DEF CheckoutTypeOK
  <2>6. \A s \in creating' : s.heard => s.by \in CheckoutTabs /\ checkout'[s.by] = checkout[s.by]
    BY <1>t, <2>1, <2>2 DEF Creation, CheckoutInv, RequestsInv
  <2>7. Standing' = Standing
    BY <2>1 DEF Standing
  <2>8. RequestsInv'
    BY <2>1, <2>6, <2>7 DEF CheckoutInv, RequestsInv
  <2> QED
    BY <1>q, <1>r, <2>1, <2>4, <2>5, <2>8 DEF CheckoutInv
<1>7. ASSUME NEW r \in creating, CreateUnheard(r)
      PROVE  CheckoutInv'
  <2> DEFINE f == [checkout[r.by] EXCEPT !.submitting = FALSE]
             n == [r EXCEPT !.heard = FALSE]
  <2>1. /\ creating' = (creating \ {r}) \cup {n} /\ UNCHANGED <<car, booked, retried>>
        /\ checkout' = [checkout EXCEPT ![r.by] = f] /\ r.heard /\ n \notin creating
    BY <1>7 DEF CreateUnheard, Unanswered
  <2>2. r.by \in CheckoutTabs
    BY <1>t DEF Creation
  <2>3. f \in OpenPage /\ n \in Creation /\ ~n.heard
    <3>1. checkout[r.by] \in OpenPage
      BY <1>t, <2>1, <2>2 DEF CheckoutInv, RequestsInv, NoCheckout
    <3>2. f \in OpenPage
      BY <3>1 DEF OpenPage
    <3>3. n \in Creation /\ ~n.heard
      BY <1>t DEF Creation
    <3> QED
      BY <3>2, <3>3
  <2> HIDE DEF f, n
  <2>4. /\ IsFiniteSet(creating') /\ Cardinality(creating') \in Nat
        /\ Cardinality(creating') <= Cardinality(creating \ {r}) + 1
    BY <1>r, <2>1, OneMoreOrLess
  <2>5. Cardinality(creating') <= MaxCreating
    BY <1>t, <1>r, <2>4
  <2>6. CheckoutTypeOK'
    BY <1>t, <1>u, <2>1, <2>3, <2>5 DEF CheckoutTypeOK
  <2>7. \A s \in creating' : s.heard =>
            s \in creating /\ s.by \in CheckoutTabs /\ checkout'[s.by] = checkout[s.by]
    BY <1>t, <2>1, <2>2, <2>3 DEF Creation, CheckoutInv, RequestsInv
  <2>8. Standing' = Standing
    BY <2>1 DEF Standing
  <2>9. RequestsInv'
    BY <2>1, <2>7, <2>8 DEF CheckoutInv, RequestsInv
  <2> QED
    BY <1>q, <2>1, <2>4, <2>6, <2>9 DEF CheckoutInv
<1>8. CASE Reprice
  BY <1>8 DEF Reprice, CheckoutInv, CheckoutTypeOK, RequestsInv, Standing
<1>9. CASE CancelOne
  <2>1. PICK i \in Standing : booked' = [booked EXCEPT ![i].live = FALSE]
    BY <1>9 DEF CancelOne
  <2> DEFINE b == [booked[i] EXCEPT !.live = FALSE]
  <2>2. i \in 1 .. Len(booked) /\ booked[i] \in Booked
    BY <1>t, <2>1 DEF Standing
  <2>3. /\ b \in Booked /\ ~b.live /\ b.page = booked[i].page /\ b.read = booked[i].read
        /\ b.money = booked[i].money
    BY <2>2 DEF Booked
  <2>4. booked' = [booked EXCEPT ![i] = b] /\ UNCHANGED <<car, checkout, creating, retried>>
    BY <1>9, <2>1 DEF CancelOne
  <2> HIDE DEF b
  <2>5. QuotedPrice(b)
    BY <1>q, <2>2, <2>3 DEF QuotedPrice
  <2>6. booked' \in Seq(Booked) /\ Len(booked') = Len(booked)
    BY <1>t, <2>2, <2>3, <2>4
  <2>7. \A j \in 1 .. Len(booked) : booked'[j] = IF j = i THEN b ELSE booked[j]
    BY <1>t, <2>2, <2>4
  <2>8. \A j \in 1 .. Len(booked') : QuotedPrice(booked'[j])
    <3> SUFFICES ASSUME NEW j \in 1 .. Len(booked) PROVE QuotedPrice(booked'[j])
      BY <2>6
    <3>1. booked'[j] = b \/ booked'[j] = booked[j]
      BY <2>7
    <3> QED
      BY <1>q, <2>5, <3>1
  <2>9. Standing' \subseteq Standing
    BY <2>3, <2>6, <2>7 DEF Standing
  <2>10. CheckoutTypeOK'
    BY <1>t, <1>u, <2>4, <2>6 DEF CheckoutTypeOK
  <2>11. RequestsInv'
    BY <2>4, <2>9 DEF CheckoutInv, RequestsInv
  <2> QED
    BY <1>t, <2>4, <2>8, <2>10, <2>11 DEF CheckoutInv
<1>10. CASE UNCHANGED checkoutVars
  BY <1>10 DEF checkoutVars, CheckoutInv, CheckoutTypeOK, RequestsInv, Standing
<1> QED
  BY <1>1, <1>2, <1>3, <1>4, <1>5, <1>6, <1>7, <1>8, <1>9, <1>10 DEF CheckoutNext

LEMMA CheckoutKeepsFaith == CheckoutInv => BookedAsQuoted
<1> SUFFICES ASSUME CheckoutInv, ~retried PROVE Cardinality(Standing) <= 1
  BY DEF CheckoutInv, BookedAsQuoted
<1>1. CASE Standing = {}
  BY <1>1, FS_EmptySet
<1>2. CASE Standing # {}
  <2>1. PICK i : Standing = {i}
    BY <1>2 DEF CheckoutInv, RequestsInv
  <2> QED
    BY <2>1, FS_Singleton
<1> QED
  BY <1>1, <1>2

(* However tabs, prices, failures and lost answers mix, what is booked is     *)
(* booked once and at the price quoted, but for the exceptions              *)
(* BookedAsQuoted names.                                                    *)
THEOREM BookedOnceAsQuoted == CheckoutSpec => []BookedAsQuoted
BY CheckoutKeepsFaith, CheckoutInvInit, CheckoutInvStep, PTL DEF CheckoutSpec

-----------------------------------------------------------------------------
(* TripPages *)

Bare == {"Pending", "Confirmed"}
PastPickUp == row.status \in {"InProgress", "Completed", "Cancelled"}

(* A booking has its first reading exactly once the trip has begun. *)
Sound(b) ==
    /\ b.status \in Bare => b.out = Unread
    /\ b.status \in {"InProgress", "Completed"} => b.out # Unread

RowInv ==
    /\ Sound(row)
    /\ row.in # Unread => row.status = "Completed" \/ raced
    /\ ReadingsInOrder

(* What a list holds, and what a form does: while commands take turns, a     *)
(* form that records a return holds the reading at pick-up as stored.       *)
Told(b) == Sound(b) /\ (b.status = "InProgress" => b.in = Unread \/ raced)
Fits(f) ==
    /\ inspectionModeFor(f.booking.status) # "none"
    /\ f.booking.status = "InProgress" => raced \/ (PastPickUp /\ f.booking.out = row.out)
PageInv == \A p \in Phones : /\ page[p].at = "list" => Told(page[p].booking)
                             /\ page[p].at = "form" => Fits(page[p])

(* What the server has let through, and who waits for it. *)
Given(c) ==
    /\ c.read \in Accepts(c.op)
    /\ c.by = "detail" <=> c.op \in {"cancel", "review"}
    /\ c.op \in {"start", "end"} => c.mileage # Unread
    /\ c.op = "end" => row.out # Unread /\ (raced \/ (PastPickUp /\ c.mileage >= row.out))
Awaited ==
    /\ \A c \in commands : c.heard =>
           IF c.by = "detail" THEN detail.open
           ELSE page[c.by].at = "form" /\ page[c.by].submitting
    /\ \A c, d \in commands : c.heard /\ d.heard /\ c.by = d.by /\ c.by # "detail" => c = d

(* A page that reads a cancelled booking again finds it cancelled. *)
ReloadInv == detail.open => (detail.reloading => row.status = "Cancelled" \/ raced)

TripInv ==
    /\ TripTypeOK /\ IsFiniteSet(commands)
    /\ RowInv /\ PageInv
    /\ \A c \in commands : Given(c)
    /\ Awaited
    /\ ReloadInv /\ CancelNeverSticks
    /\ RefusedWhenStale

LEMMA TripInvInit == TripInit => TripInv
<1> SUFFICES ASSUME TripInit PROVE TripInv
  OBVIOUS
<1>1. IsFiniteSet(commands) /\ Cardinality(commands) = 0 /\ commands = {}
  BY FS_EmptySet DEF TripInit
<1>2. MaxMileage \in Nat /\ MaxCommands \in Nat
  BY TripAssumption
<1>3. row \in Stored /\ raced = FALSE /\ row.status = "Pending" /\ row.out = Unread /\ row.in = Unread
  BY <1>2 DEF TripInit, Stored, Status, Reading, Unread
<1>4. /\ page \in [Phones -> {NoPage} \cup List \cup Form]
      /\ \A p \in Phones : page[p].at = "none"
  BY DEF TripInit, NoPage
<1>5. detail = NoDetail /\ detail.open = FALSE /\ unforeseen = {}
  BY DEF TripInit, NoDetail
<1>6. TripTypeOK
  <2>1. raced \in BOOLEAN
    BY <1>3
  <2> QED
    BY <1>1, <1>2, <1>3, <1>4, <1>5, <2>1 DEF TripTypeOK
<1> QED
  BY <1>1, <1>3, <1>4, <1>5, <1>6
     DEF TripInv, RowInv, Sound, Bare, ReadingsInOrder, PageInv, Awaited, ReloadInv,
         CancelNeverSticks, RefusedWhenStale

LEMMA Apart ==
    /\ NoPage.at = "none" /\ NoDetail.open = FALSE
    /\ \A x \in List : x.at = "list" /\ x.booking \in Held
    /\ \A x \in Form : x.at = "form" /\ x.booking \in Held /\ x.mileage \in Reading
    /\ \A x \in Detail : x.open
BY DEF NoPage, NoDetail, List, Form, Detail

(* A phone's page becomes f; the commands stay. *)
LEMMA PhoneMoves ==
    ASSUME TripInv, NEW p \in Phones, NEW f \in {NoPage} \cup List \cup Form,
           page' = [page EXCEPT ![p] = f], UNCHANGED <<row, detail, commands, raced>>,
           f.at = "list" => Told(f.booking),
           f.at = "form" => Fits(f),
           (\A c \in commands : ~(c.heard /\ c.by = p)) \/ (f.at = "form" /\ f.submitting),
           unforeseen' \subseteq Refusal, RefusedWhenStale'
    PROVE  TripInv'
<1>1. page \in [Phones -> {NoPage} \cup List \cup Form] /\ commands \subseteq Command
  BY DEF TripInv, TripTypeOK
<1>2. \A q \in Phones : page'[q] = IF q = p THEN f ELSE page[q]
  BY <1>1
<1>3. TripTypeOK'
  BY <1>1 DEF TripInv, TripTypeOK
<1>4. PageInv'
  BY <1>2 DEF TripInv, PageInv, Told, Fits, PastPickUp
<1>5. Awaited'
  BY <1>1, <1>2 DEF TripInv, Awaited, Command
<1>6. RowInv' /\ ReloadInv' /\ CancelNeverSticks' /\ \A c \in commands' : Given(c)'
  BY DEF TripInv, RowInv, ReadingsInOrder, ReloadInv, CancelNeverSticks, Given, PastPickUp
<1> QED
  BY <1>3, <1>4, <1>5, <1>6 DEF TripInv

(* The status tests of the pages, each read off by itself: with two of them in *)
(* one obligation the SMT translation confuses their CASEs.                 *)
LEMMA InboxActions ==
    \A s \in Status :
        inboxAction(s) = IF s \in Bare THEN "start" ELSE IF s = "InProgress" THEN "end" ELSE "view"
BY DEF inboxAction, Status, Bare

LEMMA InspectionModes ==
    \A s \in Status :
        inspectionModeFor(s) =
            IF s \in Bare THEN "pickup" ELSE IF s = "InProgress" THEN "return" ELSE "none"
BY DEF inspectionModeFor, Status, Bare

LEMMA CopyIsHeld ==
    TripInv => /\ Copy \in Held /\ Copy.status = row.status
               /\ Copy.out = row.out /\ Copy.in = row.in
BY DEF TripInv, TripTypeOK, Stored, Held, Copy

LEMMA OpenListStep == \A p \in Phones : TripInv /\ OpenList(p) => TripInv'
<1> SUFFICES ASSUME NEW p \in Phones, TripInv, OpenList(p) PROVE TripInv'
  OBVIOUS
<1> DEFINE f == [at |-> "list", booking |-> Copy]
<1>1. /\ page[p] = NoPage /\ page' = [page EXCEPT ![p] = f]
      /\ UNCHANGED <<row, detail, commands, raced, unforeseen>>
  BY DEF OpenList
<1>2. f \in List /\ f.at = "list" /\ f.booking = Copy
  BY CopyIsHeld DEF List
<1>3. Told(Copy)
  BY CopyIsHeld DEF TripInv, RowInv, Told, Sound, Bare
<1>4. \A c \in commands : ~(c.heard /\ c.by = p)
  BY <1>1, Apart, TripAssumption DEF TripInv, Awaited
<1>5. unforeseen' \subseteq Refusal /\ RefusedWhenStale'
  BY <1>1 DEF TripInv, TripTypeOK, RefusedWhenStale
<1> HIDE DEF f
<1> QED
  BY <1>1, <1>2, <1>3, <1>4, <1>5, PhoneMoves

LEMMA OpenInspectionStep == \A p \in Phones : TripInv /\ OpenInspection(p) => TripInv'
<1> SUFFICES ASSUME NEW p \in Phones, TripInv, OpenInspection(p) PROVE TripInv'
  OBVIOUS
<1>1. page[p] \in List /\ page[p].at = "list" /\ page[p].booking.status \in Status
  BY Apart DEF OpenInspection, TripInv, TripTypeOK, Held
<1>2. \A c \in commands : ~(c.heard /\ c.by = p)
  BY <1>1, TripAssumption DEF TripInv, Awaited
<1>3. CASE inspectionModeFor(row.status) = "none"
  <2>1. row.status # page[p].booking.status
    <3>1. row.status \in Status
      BY DEF TripInv, TripTypeOK, Stored
    <3>2. inboxAction(page[p].booking.status) # "view"
      BY DEF OpenInspection
    <3> QED
      BY <1>1, <1>3, <3>1, <3>2, InboxActions, InspectionModes
  <2>2. /\ page' = [page EXCEPT ![p] = NoPage]
        /\ UNCHANGED <<row, detail, commands, raced, unforeseen>>
    BY <1>3, <2>1 DEF OpenInspection, Refuse
  <2>3. unforeseen' \subseteq Refusal /\ RefusedWhenStale'
    BY <2>2 DEF TripInv, TripTypeOK, RefusedWhenStale
  <2> QED
    BY <1>2, <2>2, <2>3, Apart, PhoneMoves
<1>4. CASE inspectionModeFor(row.status) # "none"
  <2> DEFINE f == [at |-> "form", booking |-> Copy, mileage |-> Unread, submitting |-> FALSE]
  <2>1. page' = [page EXCEPT ![p] = f] /\ UNCHANGED <<row, detail, commands, raced, unforeseen>>
    BY <1>4 DEF OpenInspection
  <2>2. f \in Form /\ f.at = "form" /\ f.booking = Copy
    BY CopyIsHeld, TripAssumption DEF Form, Reading, Unread
  <2>3. Fits(f)
    BY <1>4, <2>2, CopyIsHeld DEF Fits, PastPickUp
  <2>4. unforeseen' \subseteq Refusal /\ RefusedWhenStale'
    BY <2>1 DEF TripInv, TripTypeOK, RefusedWhenStale
  <2> HIDE DEF f
  <2> QED
    BY <1>2, <2>1, <2>2, <2>3, <2>4, PhoneMoves
<1> QED
  BY <1>3, <1>4

LEMMA TypeMileageStep == \A p \in Phones : TripInv /\ TypeMileage(p) => TripInv'
<1> SUFFICES ASSUME NEW p \in Phones, TripInv, TypeMileage(p) PROVE TripInv'
  OBVIOUS
<1>1. PICK m \in Reading : page' = [page EXCEPT ![p].mileage = m]
  BY DEF TypeMileage
<1> DEFINE f == [page[p] EXCEPT !.mileage = m]
<1>2. page[p] \in Form /\ page[p].at = "form"
  BY Apart DEF TypeMileage, TripInv, TripTypeOK
<1>3. /\ f \in Form /\ f.at = "form" /\ f.booking = page[p].booking
      /\ f.submitting = page[p].submitting
  BY <1>2 DEF Form
<1>4. page' = [page EXCEPT ![p] = f] /\ UNCHANGED <<row, detail, commands, raced, unforeseen>>
  BY <1>1 DEF TypeMileage
<1> HIDE DEF f
<1>5. Fits(f)
  BY <1>2, <1>3 DEF TripInv, PageInv, Fits
<1>6. (\A c \in commands : ~(c.heard /\ c.by = p)) \/ f.submitting
  BY <1>3, TripAssumption DEF TripInv, Awaited
<1>7. unforeseen' \subseteq Refusal /\ RefusedWhenStale'
  BY <1>4 DEF TripInv, TripTypeOK, RefusedWhenStale
<1> QED
  BY <1>3, <1>4, <1>5, <1>6, <1>7, PhoneMoves

LEMMA HandleSubmitStep == \A p \in Phones : TripInv /\ HandleSubmit(p) => TripInv'
<1> SUFFICES ASSUME NEW p \in Phones, TripInv, HandleSubmit(p) PROVE TripInv'
  OBVIOUS
<1> DEFINE f == page[p]
           op == IF inspectionModeFor(f.booking.status) = "pickup" THEN "start" ELSE "end"
<1>1. f \in Form /\ f.at = "form" /\ ~f.submitting /\ validateInspection(f)
  BY Apart DEF HandleSubmit, TripInv, TripTypeOK
<1>2. f.booking \in Held /\ f.booking.status \in Status /\ f.mileage \in Reading
  BY <1>1, Apart DEF Held
<1>3. Fits(f)
  BY <1>1 DEF TripInv, PageInv
<1>4. /\ op \in {"start", "end"}
      /\ op = "start" => f.booking.status \in Bare
      /\ op = "end" => f.booking.status = "InProgress"
  BY <1>2, <1>3 DEF Fits, inspectionModeFor, Bare
<1>5. \A c \in commands : ~(c.heard /\ c.by = p)
  BY <1>1, TripAssumption DEF TripInv, Awaited
<1>6. CASE ~Admitted(op, "owner")
  <2>1. row.status # f.booking.status
    BY <1>4, <1>6 DEF Admitted, Accepts, Bare
  <2>2. UNCHANGED <<row, page, detail, commands, raced, unforeseen>>
    BY <1>6, <2>1 DEF HandleSubmit, Refuse
  <2> QED
    BY <2>2 DEF TripInv, TripTypeOK, RowInv, ReadingsInOrder, PageInv, Told, Fits, PastPickUp,
                Given, Awaited, ReloadInv, CancelNeverSticks, RefusedWhenStale
<1>7. CASE Admitted(op, "owner")
  <2> DEFINE n == [op |-> op, by |-> p, read |-> row.status, mileage |-> f.mileage, heard |-> TRUE]
             g == [f EXCEPT !.submitting = TRUE]
  <2>1. /\ page' = [page EXCEPT ![p] = g] /\ commands' = commands \cup {n}
        /\ Cardinality(commands) < MaxCommands
        /\ UNCHANGED <<row, detail, raced, unforeseen>>
    BY <1>7 DEF HandleSubmit, Receive
  <2>2. g \in Form /\ g.at = "form" /\ g.booking = f.booking /\ g.submitting
    BY <1>1 DEF Form
  <2>3. row.status \in Status /\ row.out \in Reading
    BY DEF TripInv, TripTypeOK, Stored
  <2>4. n \in Command /\ n.heard /\ n.by = p
    BY <1>2, <1>4, <2>3 DEF Command
  <2>5. Given(n)
    <3>1. /\ n.op = op /\ n.by # "detail" /\ n.mileage = f.mileage /\ n.read = row.status
      BY TripAssumption
    <3>2. f.mileage # Unread
      BY <1>1 DEF validateInspection
    <3>3. row.status \in Accepts(op)
      BY <1>7 DEF Admitted
    <3>4. ASSUME op = "end"
          PROVE  row.out # Unread /\ (raced \/ (PastPickUp /\ f.mileage >= row.out))
      <4>1. row.status = "InProgress" /\ row.out # Unread
        BY <3>3, <3>4 DEF Accepts, TripInv, RowInv, Sound
      <4>2. f.booking.out = Unread \/ f.mileage >= f.booking.out
        BY <1>1, <1>4, <3>4 DEF validateInspection, inspectionModeFor
      <4> QED
        BY <1>3, <1>4, <3>4, <4>1, <4>2 DEF Fits, PastPickUp
    <3> HIDE DEF n, op
    <3> QED
      BY <1>4, <3>1, <3>2, <3>3, <3>4 DEF Given
  <2> HIDE DEF n, g
  <2>6. page \in [Phones -> {NoPage} \cup List \cup Form] /\ commands \subseteq Command
    BY DEF TripInv, TripTypeOK
  <2>7. \A q \in Phones : page'[q] = IF q = p THEN g ELSE page[q]
    BY <2>1, <2>6
  <2>8. IsFiniteSet(commands') /\ Cardinality(commands') <= MaxCommands
    <3>1. /\ Cardinality(commands) \in Nat /\ Cardinality(commands \cup {n}) \in Nat
          /\ IsFiniteSet(commands \cup {n})
          /\ Cardinality(commands \cup {n}) <= Cardinality(commands) + 1
      BY OneMoreOrLess DEF TripInv
    <3>2. MaxCommands \in Nat
      BY TripAssumption
    <3> QED
      BY <2>1, <3>1, <3>2
  <2>9. TripTypeOK'
    BY <2>1, <2>2, <2>4, <2>6, <2>8 DEF TripInv, TripTypeOK
  <2>10. PageInv'
    BY <1>3, <2>1, <2>2, <2>7 DEF TripInv, PageInv, Told, Fits, PastPickUp
  <2>11. Awaited'
    BY <1>5, <2>1, <2>2, <2>4, <2>6, <2>7, TripAssumption DEF TripInv, Awaited, Command
  <2>12. \A c \in commands' : Given(c)'
    BY <2>1, <2>5 DEF TripInv, Given, PastPickUp
  <2>13. RowInv' /\ ReloadInv' /\ CancelNeverSticks' /\ RefusedWhenStale'
    BY <2>1 DEF TripInv, RowInv, ReadingsInOrder, ReloadInv, CancelNeverSticks, RefusedWhenStale
  <2> QED
    BY <2>8, <2>9, <2>10, <2>11, <2>12, <2>13 DEF TripInv
<1> QED
  BY <1>6, <1>7

(* What is left of the commands when the page at b is left. *)
LEMMA UnheardOnes ==
    ASSUME TripInv, NEW b, commands' = Unheard(b), UNCHANGED <<row, raced>>
    PROVE  /\ commands' \subseteq Command /\ IsFiniteSet(commands')
           /\ Cardinality(commands') <= MaxCommands
           /\ \A c \in commands' : Given(c)' /\ (c.heard => c \in commands /\ c.by # b)
           /\ \A c \in commands : c.by # b => c \in commands'
<1> DEFINE g == [c \in commands |-> IF c.by = b THEN [c EXCEPT !.heard = FALSE] ELSE c]
<1>0. commands \subseteq Command /\ IsFiniteSet(commands) /\ Cardinality(commands) <= MaxCommands
  BY DEF TripInv, TripTypeOK
<1>1. commands' = {g[c] : c \in commands}
  BY DEF Unheard
<1>2. DOMAIN g = commands /\ g = [c \in commands |-> g[c]]
  OBVIOUS
<1>3. \A c \in commands :
          /\ g[c] \in Command /\ g[c].op = c.op /\ g[c].by = c.by /\ g[c].read = c.read
          /\ g[c].mileage = c.mileage
          /\ g[c].heard => c.by # b /\ g[c] = c
          /\ c.by # b => g[c] = c
  BY <1>0 DEF Command
<1> HIDE DEF g
<1>4. IsFiniteSet(commands') /\ Cardinality(commands') <= Cardinality(commands)
  BY <1>0, <1>1, <1>2, ImageIsSmall
<1>5. Cardinality(commands') \in Nat /\ Cardinality(commands) \in Nat /\ MaxCommands \in Nat
  BY <1>0, <1>4, FS_CardinalityType, TripAssumption
<1>6. \A c \in commands' : Given(c)'
  BY <1>1, <1>3 DEF TripInv, Given, PastPickUp
<1> QED
  BY <1>0, <1>1, <1>3, <1>4, <1>5, <1>6

LEMMA LeavePhoneStep == \A p \in Phones : TripInv /\ LeavePhone(p) => TripInv'
<1> SUFFICES ASSUME NEW p \in Phones, TripInv, LeavePhone(p) PROVE TripInv'
  OBVIOUS
<1>1. /\ page' = [page EXCEPT ![p] = NoPage] /\ commands' = Unheard(p)
      /\ UNCHANGED <<row, detail, raced, unforeseen>>
  BY DEF LeavePhone
<1>2. page \in [Phones -> {NoPage} \cup List \cup Form]
  BY DEF TripInv, TripTypeOK
<1>3. \A q \in Phones : page'[q] = IF q = p THEN NoPage ELSE page[q]
  BY <1>1, <1>2
<1>4. /\ commands' \subseteq Command /\ IsFiniteSet(commands')
      /\ Cardinality(commands') <= MaxCommands
      /\ \A c \in commands' : Given(c)' /\ (c.heard => c \in commands /\ c.by # p)
      /\ \A c \in commands : c.by # p => c \in commands'
  BY <1>1, UnheardOnes
<1>5. TripTypeOK'
  BY <1>1, <1>2, <1>4 DEF TripInv, TripTypeOK
<1>6. PageInv'
  BY <1>1, <1>3, Apart DEF TripInv, PageInv, Told, Fits, PastPickUp
<1>7. Awaited'
  BY <1>1, <1>3, <1>4 DEF TripInv, Awaited, Command
<1>8. \A c \in commands : c.op = "cancel" => c.by # p
  BY TripAssumption DEF TripInv, Given
<1>9. CancelNeverSticks'
  BY <1>1, <1>4, <1>8 DEF TripInv, CancelNeverSticks
<1>10. RowInv' /\ ReloadInv' /\ RefusedWhenStale'
  BY <1>1 DEF TripInv, RowInv, ReadingsInOrder, ReloadInv, RefusedWhenStale
<1> QED
  BY <1>4, <1>5, <1>6, <1>7, <1>9, <1>10 DEF TripInv

(* The booking page becomes m, which waits for a cancellation only if it reads *)
(* the booking again or the answer is to come, and the commands that are    *)
(* heard elsewhere are as they were.                                        *)
LEMMA DetailMoves ==
    ASSUME TripInv, NEW m \in {NoDetail} \cup Detail,
           detail' = m, UNCHANGED <<row, page, raced, unforeseen>>,
           commands' \subseteq Command, IsFiniteSet(commands'), Cardinality(commands') <= MaxCommands,
           \A c \in commands' : Given(c)',
           \A c \in commands' : c.heard /\ c.by # "detail" => c \in commands,
           \A c \in commands' : c.heard /\ c.by = "detail" => m.open,
           m.open => (m.reloading => row.status = "Cancelled" \/ raced),
           m.open => (m.cancelling =>
               m.reloading \/ raced \/ \E c \in commands' : c.op = "cancel" /\ c.heard)
    PROVE  TripInv'
<1>1. TripTypeOK'
  BY DEF TripInv, TripTypeOK
<1>2. PageInv'
  BY DEF TripInv, PageInv, Told, Fits, PastPickUp
<1>3. Awaited'
  BY DEF TripInv, Awaited
<1>4. RowInv' /\ ReloadInv' /\ CancelNeverSticks' /\ RefusedWhenStale'
  BY DEF TripInv, RowInv, ReadingsInOrder, ReloadInv, CancelNeverSticks, RefusedWhenStale
<1> QED
  BY <1>1, <1>2, <1>3, <1>4 DEF TripInv

LEMMA SameCommands ==
    ASSUME TripInv, UNCHANGED <<row, commands, raced>>
    PROVE  /\ commands' \subseteq Command /\ IsFiniteSet(commands')
           /\ Cardinality(commands') <= MaxCommands
           /\ \A c \in commands' : Given(c)'
BY DEF TripInv, TripTypeOK, Given, PastPickUp

(* The server lets a command of the booking page through. *)
LEMMA CommandArrives ==
    ASSUME TripInv, UNCHANGED <<row, raced>>, NEW op \in {"cancel", "review"},
           row.status \in Accepts(op), Receive(op, "detail", Unread)
    PROVE  /\ commands' \subseteq Command /\ IsFiniteSet(commands')
           /\ Cardinality(commands') <= MaxCommands
           /\ \A c \in commands' : Given(c)'
           /\ \A c \in commands' : c.heard /\ c.by # "detail" => c \in commands
           /\ commands \subseteq commands'
           /\ \E c \in commands' : c.op = op /\ c.heard
           /\ UNCHANGED unforeseen
<1> DEFINE n == [op |-> op, by |-> "detail", read |-> row.status, mileage |-> Unread, heard |-> TRUE]
<1>1. /\ commands' = commands \cup {n} /\ Cardinality(commands) < MaxCommands
      /\ UNCHANGED unforeseen
  BY DEF Receive
<1>2. MaxMileage \in Nat /\ MaxCommands \in Nat
  BY TripAssumption
<1>3. n \in Command /\ n.heard /\ n.op = op /\ n.by = "detail" /\ n.read = row.status
  BY <1>2 DEF TripInv, TripTypeOK, Stored, Command, Reading, Unread
<1> HIDE DEF n
<1>4. /\ Cardinality(commands) \in Nat /\ Cardinality(commands \cup {n}) \in Nat
      /\ IsFiniteSet(commands \cup {n})
      /\ Cardinality(commands \cup {n}) <= Cardinality(commands) + 1
  BY OneMoreOrLess DEF TripInv
<1>5. IsFiniteSet(commands') /\ Cardinality(commands') <= MaxCommands
  BY <1>1, <1>2, <1>4
<1>6. \A c \in commands' : Given(c)'
  <2>1. Given(n)
    BY <1>3 DEF Given
  <2> QED
    BY <1>1, <2>1 DEF TripInv, Given, PastPickUp
<1> QED
  BY <1>1, <1>3, <1>5, <1>6 DEF TripInv, TripTypeOK

LEMMA DetailTyped ==
    ASSUME TripInv, detail.open
    PROVE  /\ detail \in Detail /\ detail.status \in Status /\ detail.viewer \in {"renter", "owner"}
           /\ detail.reloading \in BOOLEAN /\ detail.cancelling \in BOOLEAN
           /\ row.status \in Status /\ row.reviewed \in BOOLEAN
<1>1. detail \in Detail
  BY Apart DEF TripInv, TripTypeOK
<1> QED
  BY <1>1 DEF TripInv, TripTypeOK, Stored, Detail

LEMMA HandleCancelStep == TripInv /\ HandleCancel => TripInv'
<1> SUFFICES ASSUME TripInv, HandleCancel PROVE TripInv'
  OBVIOUS
<1>1. /\ detail.open /\ canCancelBooking(detail.status) /\ ~detail.cancelling
      /\ UNCHANGED <<row, page, raced>>
  BY DEF HandleCancel
<1>2. CASE Admitted("cancel", detail.viewer)
  <2> DEFINE m == [detail EXCEPT !.cancelling = TRUE]
  <2>1. detail' = m /\ Receive("cancel", "detail", Unread)
    BY <1>2 DEF HandleCancel
  <2>2. m \in Detail /\ m.open /\ m.reloading = detail.reloading
    BY <1>1, DetailTyped DEF Detail
  <2>3. row.status \in Accepts("cancel")
    BY <1>2 DEF Admitted
  <2> HIDE DEF m
  <2>4. m.reloading => row.status = "Cancelled" \/ raced
    BY <1>1, <2>2 DEF TripInv, ReloadInv
  <2> QED
    BY <1>1, <2>1, <2>2, <2>3, <2>4, CommandArrives, DetailMoves
<1>3. CASE ~Admitted("cancel", detail.viewer)
  <2>1. /\ unforeseen' = IF row.status # detail.status THEN unforeseen
                         ELSE unforeseen \cup {[op |-> "cancel", viewer |-> detail.viewer]}
        /\ UNCHANGED <<commands, detail>>
    BY <1>3 DEF HandleCancel, Refuse
  <2>2. row.status = detail.status => detail.viewer = "owner"
    BY <1>1, <1>3, DetailTyped DEF Admitted, Accepts, canCancelBooking, Status
  <2>3. unforeseen' \subseteq {[op |-> "cancel", viewer |-> "owner"]}
    BY <2>1, <2>2 DEF TripInv, RefusedWhenStale
  <2>4. unforeseen' \subseteq Refusal
    BY <2>3 DEF Refusal
  <2>5. TripTypeOK'
    BY <1>1, <2>1, <2>4 DEF TripInv, TripTypeOK
  <2> QED
    BY <1>1, <2>1, <2>3, <2>5
       DEF TripInv, RowInv, ReadingsInOrder, PageInv, Told, Fits, PastPickUp,
           Given, Awaited, ReloadInv, CancelNeverSticks, RefusedWhenStale
<1> QED
  BY <1>2, <1>3

LEMMA PostReviewStep == TripInv /\ PostReview => TripInv'
<1> SUFFICES ASSUME TripInv, PostReview PROVE TripInv'
  OBVIOUS
<1>1. /\ detail.open /\ detail.reviews # "unknown"
      /\ canReviewBooking(detail.status, detail.reviews = "mine")
      /\ UNCHANGED <<row, page, raced>>
  BY DEF PostReview
<1>2. CASE Admitted("review", detail.viewer)
  <2> DEFINE m == [detail EXCEPT !.posting = TRUE]
  <2>1. detail' = m /\ Receive("review", "detail", Unread)
    BY <1>2 DEF PostReview
  <2>2. m \in Detail /\ m.open /\ m.reloading = detail.reloading /\ m.cancelling = detail.cancelling
    BY <1>1, DetailTyped DEF Detail
  <2>3. row.status \in Accepts("review")
    BY <1>2 DEF Admitted
  <2> HIDE DEF m
  <2>4. /\ m.reloading => row.status = "Cancelled" \/ raced
        /\ m.cancelling => m.reloading \/ raced \/ \E c \in commands : c.op = "cancel" /\ c.heard
    BY <1>1, <2>2 DEF TripInv, ReloadInv, CancelNeverSticks
  <2>5. /\ commands' \subseteq Command /\ IsFiniteSet(commands')
        /\ Cardinality(commands') <= MaxCommands
        /\ \A c \in commands' : Given(c)'
        /\ \A c \in commands' : c.heard /\ c.by # "detail" => c \in commands
        /\ commands \subseteq commands' /\ UNCHANGED unforeseen
    BY <1>1, <2>1, <2>3, CommandArrives
  <2> QED
    BY <1>1, <2>1, <2>2, <2>4, <2>5, DetailMoves
<1>3. CASE ~Admitted("review", detail.viewer)
  <2>1. row.status # detail.status \/ row.reviewed # (detail.reviews = "mine")
    BY <1>1, <1>3, DetailTyped DEF Admitted, Accepts, canReviewBooking
  <2>2. UNCHANGED <<row, page, detail, commands, raced, unforeseen>>
    BY <1>3, <2>1 DEF PostReview, Refuse
  <2> QED
    BY <2>2 DEF TripInv, TripTypeOK, RowInv, ReadingsInOrder, PageInv, Told, Fits, PastPickUp,
                Given, Awaited, ReloadInv, CancelNeverSticks, RefusedWhenStale
<1> QED
  BY <1>2, <1>3

LEMMA DetailSteps ==
    ASSUME TripInv, OpenDetail \/ LeaveDetail \/ (\E ok \in BOOLEAN : Reloaded(ok) \/ ReviewsLand(ok))
    PROVE  TripInv'
<1>1. CASE OpenDetail
  <2>1. PICK v \in {"renter", "owner"} :
            detail' = [open |-> TRUE, viewer |-> v,
                     status |-> row.status, reloading |-> FALSE, cancelling |-> FALSE,
                     reviews |-> "unknown", fetching |-> TRUE, posting |-> FALSE]
    BY <1>1 DEF OpenDetail
  <2> DEFINE m == [open |-> TRUE, viewer |-> v,
                     status |-> row.status, reloading |-> FALSE, cancelling |-> FALSE,
                     reviews |-> "unknown", fetching |-> TRUE, posting |-> FALSE]
  <2>2. m \in Detail /\ m.open /\ ~m.reloading /\ ~m.cancelling
    BY DEF Detail, TripInv, TripTypeOK, Stored
  <2>3. detail' = m /\ UNCHANGED <<row, page, commands, raced, unforeseen>>
    BY <1>1, <2>1 DEF OpenDetail
  <2> HIDE DEF m
  <2> QED
    BY <2>2, <2>3, SameCommands, DetailMoves
<1>2. ASSUME detail' = NoDetail, commands' = Unheard("detail"),
             UNCHANGED <<row, page, raced, unforeseen>>
      PROVE  TripInv'
  <2>1. /\ commands' \subseteq Command /\ IsFiniteSet(commands')
        /\ Cardinality(commands') <= MaxCommands
        /\ \A c \in commands' : Given(c)' /\ (c.heard => c \in commands /\ c.by # "detail")
    BY <1>2, UnheardOnes
  <2> QED
    BY <1>2, <2>1, Apart, DetailMoves
<1>3. CASE LeaveDetail
  BY <1>2, <1>3 DEF LeaveDetail
<1>4. ASSUME NEW ok \in BOOLEAN, Reloaded(ok)
      PROVE  TripInv'
  <2>1. detail.open /\ detail.reloading /\ UNCHANGED <<row, page, raced, unforeseen>>
    BY <1>4 DEF Reloaded
  <2>2. CASE ok
    <3> DEFINE m == [detail EXCEPT !.status = row.status, !.reloading = FALSE,
                          !.cancelling = @ /\ canCancelBooking(row.status)]
    <3>1. detail' = m /\ UNCHANGED commands
      BY <1>4, <2>2 DEF Reloaded
    <3>2. /\ m \in Detail /\ m.open /\ ~m.reloading
          /\ m.cancelling => canCancelBooking(row.status)
      BY <2>1, DetailTyped DEF Detail
    <3> HIDE DEF m
    <3>3. m.cancelling => raced
      BY <2>1, <3>2 DEF canCancelBooking, TripInv, ReloadInv
    <3> QED
      BY <2>1, <3>1, <3>2, <3>3, SameCommands, DetailMoves
  <2>3. CASE ~ok
    BY <1>2, <1>4, <2>1, <2>3 DEF Reloaded
  <2> QED
    BY <2>2, <2>3
<1>5. ASSUME NEW ok \in BOOLEAN, ReviewsLand(ok)
      PROVE  TripInv'
  <2> DEFINE v == IF ~ok THEN "unknown" ELSE IF row.reviewed THEN "mine" ELSE "none"
             m == [detail EXCEPT !.fetching = FALSE, !.reviews = v]
  <2>1. detail.open /\ detail' = m /\ UNCHANGED <<row, page, commands, raced, unforeseen>>
    BY <1>5 DEF ReviewsLand
  <2>2. v \in {"none", "mine", "unknown"}
    OBVIOUS
  <2> HIDE DEF v
  <2>3. m \in Detail /\ m.open /\ m.reloading = detail.reloading /\ m.cancelling = detail.cancelling
    BY <2>1, <2>2, DetailTyped DEF Detail
  <2> HIDE DEF m
  <2>4. /\ m.reloading => row.status = "Cancelled" \/ raced
        /\ m.cancelling => m.reloading \/ raced \/ \E c \in commands : c.op = "cancel" /\ c.heard
    BY <2>1, <2>3 DEF TripInv, ReloadInv, CancelNeverSticks
  <2> QED
    BY <2>1, <2>3, <2>4, SameCommands, DetailMoves
<1> QED
  BY <1>1, <1>3, <1>4, <1>5

(* The page that waits for c is told how it went, and the commands that are  *)
(* heard are the others that were.                                          *)
LEMMA Settled ==
    ASSUME TripInv, NEW c \in commands, NEW ok \in BOOLEAN, Settle(c, ok),
           \A d \in commands' : d.heard => d \in commands \ {c},
           commands \ {c} \subseteq commands', raced => raced'
    PROVE  /\ page' \in [Phones -> {NoPage} \cup List \cup Form]
           /\ detail' \in {NoDetail} \cup Detail
           /\ \A p \in Phones :
                  \/ page'[p] = page[p]
                  \/ page'[p] = NoPage
                  \/ /\ page[p].at = "form" /\ page'[p].at = "form"
                     /\ page'[p].booking = page[p].booking
           /\ detail'.open =>
                  /\ detail.open
                  /\ detail'.reloading => detail.reloading \/ (c.op = "cancel" /\ ok)
           /\ Awaited' /\ CancelNeverSticks'
<1>1. /\ page \in [Phones -> {NoPage} \cup List \cup Form] /\ detail \in {NoDetail} \cup Detail
      /\ c \in Command /\ commands \subseteq Command
  BY DEF TripInv, TripTypeOK
<1>2. c.by = "detail" <=> c.op \in {"cancel", "review"}
  BY DEF TripInv, Given
<1>3. ASSUME c.op # "cancel" \/ ~c.heard,
             detail'.open => detail.open /\ detail'.cancelling = detail.cancelling
                                         /\ detail'.reloading = detail.reloading
      PROVE  CancelNeverSticks'
  BY <1>3 DEF TripInv, CancelNeverSticks
<1>4. CASE ~c.heard
  <2>1. UNCHANGED <<page, detail>>
    BY <1>4 DEF Settle
  <2>2. Awaited'
    BY <2>1 DEF TripInv, Awaited
  <2> QED
    BY <1>1, <1>3, <1>4, <2>1, <2>2
<1>5. CASE c.heard /\ c.op \in {"start", "end"}
  <2> DEFINE f == IF ok THEN NoPage ELSE [page[c.by] EXCEPT !.submitting = FALSE]
  <2>1. c.by \in Phones /\ c.by # "detail" /\ page[c.by].at = "form"
    BY <1>1, <1>2, <1>5 DEF Command, TripInv, Awaited
  <2>2. page[c.by] \in Form
    BY <1>1, <2>1, Apart
  <2>3. f = NoPage \/ (f \in Form /\ f.at = "form" /\ f.booking = page[c.by].booking)
    BY <2>2 DEF Form
  <2>4. page' = [page EXCEPT ![c.by] = f] /\ UNCHANGED detail
    BY <1>5 DEF Settle
  <2> HIDE DEF f
  <2>5. page' \in [Phones -> {NoPage} \cup List \cup Form]
    BY <1>1, <2>1, <2>3, <2>4
  <2>6. \A p \in Phones : page'[p] = IF p = c.by THEN f ELSE page[p]
    BY <1>1, <2>4
  <2>7. Awaited'
    BY <1>1, <1>5, <2>1, <2>4, <2>6 DEF TripInv, Awaited, Command
  <2>8. CancelNeverSticks'
    BY <1>3, <1>5, <2>4
  <2> QED
    BY <1>1, <2>1, <2>3, <2>4, <2>5, <2>6, <2>7, <2>8
<1>6. ASSUME c.heard, c.op \in {"cancel", "review"}, NEW m, m \in Detail, m.open,
             detail' = m, UNCHANGED page
      PROVE  detail.open /\ Awaited'
  <2>1. detail.open
    BY <1>2, <1>6 DEF TripInv, Awaited
  <2>2. Awaited'
    BY <1>6 DEF TripInv, Awaited
  <2> QED
    BY <2>1, <2>2
<1>7. CASE c.heard /\ c.op = "cancel"
  <2> DEFINE m == [detail EXCEPT !.cancelling = ok, !.reloading = ok]
  <2>1. detail \in Detail /\ detail.open
    BY <1>1, <1>2, <1>7, Apart DEF TripInv, Awaited
  <2>2. m \in Detail /\ m.open /\ m.cancelling = ok /\ m.reloading = ok
    BY <2>1 DEF Detail
  <2>3. detail' = m /\ UNCHANGED page
    BY <1>7 DEF Settle, CancelSettled
  <2> HIDE DEF m
  <2>4. Awaited'
    BY <1>6, <1>7, <2>2, <2>3
  <2>5. CancelNeverSticks'
    BY <2>2, <2>3 DEF CancelNeverSticks
  <2> QED
    BY <1>1, <1>7, <2>1, <2>2, <2>3, <2>4, <2>5
<1>8. CASE c.heard /\ c.op = "review"
  <2> DEFINE m == [detail EXCEPT !.posting = FALSE, !.fetching = @ \/ ok]
  <2>1. detail \in Detail /\ detail.open
    BY <1>1, <1>2, <1>8, Apart DEF TripInv, Awaited
  <2>2. (detail.fetching \/ ok) \in BOOLEAN
    OBVIOUS
  <2>3. /\ m \in Detail /\ m.open
        /\ m.cancelling = detail.cancelling /\ m.reloading = detail.reloading
    BY <2>1, <2>2 DEF Detail
  <2>4. detail' = m /\ UNCHANGED page
    BY <1>8 DEF Settle
  <2> HIDE DEF m
  <2>5. Awaited'
    BY <1>6, <1>8, <2>3, <2>4
  <2>6. CancelNeverSticks'
    BY <1>3, <1>8, <2>1, <2>3, <2>4
  <2> QED
    BY <1>1, <2>1, <2>3, <2>4, <2>5, <2>6
<1> QED
  BY <1>1, <1>4, <1>5, <1>7, <1>8 DEF Command

LEMMA OneLess ==
    ASSUME TripInv, NEW c \in commands, commands' = commands \ {c}
    PROVE  /\ commands' \subseteq Command /\ IsFiniteSet(commands')
           /\ Cardinality(commands') <= MaxCommands
<1>1. commands \subseteq Command /\ IsFiniteSet(commands) /\ Cardinality(commands) <= MaxCommands
  BY DEF TripInv, TripTypeOK
<1>2. /\ Cardinality(commands) \in Nat /\ Cardinality(commands \ {c}) \in Nat
      /\ IsFiniteSet(commands \ {c}) /\ Cardinality(commands \ {c}) <= Cardinality(commands)
  BY <1>1, OneMoreOrLess
<1>3. MaxCommands \in Nat
  BY TripAssumption
<1> QED
  BY <1>1, <1>2, <1>3

(* Nothing is stored, and the page is told that it failed. *)
LEMMA NotSaved ==
    ASSUME TripInv, NEW c \in commands, Settle(c, FALSE),
           UNCHANGED <<row, raced, unforeseen>>,
           \A d \in commands' : d.heard => d \in commands \ {c},
           commands \ {c} \subseteq commands',
           commands' \subseteq Command, IsFiniteSet(commands'),
           Cardinality(commands') <= MaxCommands,
           \A d \in commands' : Given(d)
    PROVE  TripInv'
<1>0. FALSE \in BOOLEAN
  OBVIOUS
<1>1. /\ page' \in [Phones -> {NoPage} \cup List \cup Form]
      /\ detail' \in {NoDetail} \cup Detail
      /\ \A p \in Phones :
             \/ page'[p] = page[p]
             \/ page'[p] = NoPage
             \/ /\ page[p].at = "form" /\ page'[p].at = "form"
                /\ page'[p].booking = page[p].booking
      /\ detail'.open => detail.open /\ (detail'.reloading => detail.reloading)
      /\ Awaited' /\ CancelNeverSticks'
  BY <1>0, Settled
<1>2. TripTypeOK'
  BY <1>1 DEF TripInv, TripTypeOK
<1>3. PageInv'
  BY <1>1, Apart DEF TripInv, PageInv, Told, Fits, PastPickUp
<1>4. ReloadInv'
  BY <1>1 DEF TripInv, ReloadInv
<1>5. \A d \in commands' : Given(d)'
  BY DEF Given, PastPickUp
<1>6. RowInv' /\ RefusedWhenStale'
  BY DEF TripInv, RowInv, ReadingsInOrder, RefusedWhenStale
<1> QED
  BY <1>1, <1>2, <1>3, <1>4, <1>5, <1>6 DEF TripInv

LEMMA SaveFailsStep == \A c \in commands : TripInv /\ SaveFails(c) => TripInv'
<1> SUFFICES ASSUME NEW c \in commands, TripInv, SaveFails(c) PROVE TripInv'
  OBVIOUS
<1>1. /\ commands' = commands \ {c} /\ Settle(c, FALSE)
      /\ UNCHANGED <<row, raced, unforeseen>>
  BY DEF SaveFails
<1>2. /\ commands' \subseteq Command /\ IsFiniteSet(commands')
      /\ Cardinality(commands') <= MaxCommands
  BY <1>1, OneLess
<1>3. \A d \in commands' : Given(d)
  BY <1>1 DEF TripInv
<1> QED
  BY <1>1, <1>2, <1>3, NotSaved

LEMMA AnswerLostStep == \A c \in commands : TripInv /\ AnswerLost(c) => TripInv'
<1> SUFFICES ASSUME NEW c \in commands, TripInv, AnswerLost(c) PROVE TripInv'
  OBVIOUS
<1> DEFINE n == [c EXCEPT !.heard = FALSE]
<1>1. /\ commands' = (commands \ {c}) \cup {n} /\ Settle(c, FALSE)
      /\ UNCHANGED <<row, raced, unforeseen>>
  BY DEF AnswerLost
<1>2. commands \subseteq Command /\ IsFiniteSet(commands) /\ Cardinality(commands) <= MaxCommands
  BY DEF TripInv, TripTypeOK
<1>3. /\ n \in Command /\ ~n.heard /\ n.op = c.op /\ n.by = c.by /\ n.read = c.read
      /\ n.mileage = c.mileage
  BY <1>2 DEF Command
<1> HIDE DEF n
<1>4. /\ Cardinality(commands) \in Nat /\ Cardinality(commands \ {c}) \in Nat
      /\ IsFiniteSet(commands \ {c}) /\ Cardinality(commands \ {c}) < Cardinality(commands)
  BY <1>2, OneMoreOrLess
<1>5. /\ IsFiniteSet((commands \ {c}) \cup {n}) /\ Cardinality((commands \ {c}) \cup {n}) \in Nat
      /\ Cardinality((commands \ {c}) \cup {n}) <= Cardinality(commands \ {c}) + 1
  BY <1>4, OneMoreOrLess
<1>6. MaxCommands \in Nat
  BY TripAssumption
<1>7. IsFiniteSet(commands') /\ Cardinality(commands') <= MaxCommands
  BY <1>1, <1>2, <1>4, <1>5, <1>6
<1>8. Given(n)
  BY <1>3 DEF TripInv, Given
<1>9. \A d \in commands' : Given(d)
  BY <1>1, <1>8 DEF TripInv
<1>10. /\ commands' \subseteq Command /\ commands \ {c} \subseteq commands'
       /\ \A d \in commands' : d.heard => d \in commands \ {c}
  BY <1>1, <1>2, <1>3
<1> QED
  BY <1>1, <1>7, <1>9, <1>10, NotSaved

(* What a command stores.  Unless commands overlapped, the status it meets is *)
(* one that it may be given at.                                             *)
LEMMA Written ==
    ASSUME TripInv, NEW c \in commands, Save(c)
    PROVE  /\ row' \in Stored /\ raced' \in BOOLEAN /\ RowInv'
           /\ raced => raced'
           /\ raced' \/ row.status \in Accepts(c.op)
           /\ row.out # Unread => row'.out # Unread
           /\ c.op = "cancel" => row'.status = "Cancelled"
           /\ raced' \/ (PastPickUp => PastPickUp' /\ row'.out = row.out)
<1>1. /\ row \in Stored /\ raced \in BOOLEAN /\ c \in Command
      /\ row.status \in Status /\ row.out \in Reading /\ row.in \in Reading
      /\ c.mileage \in Reading /\ c.op \in {"start", "end", "cancel", "review"}
  BY DEF TripInv, TripTypeOK, Stored, Command
<1>2. row' = Wrote(c) /\ raced' = (raced \/ row.status # c.read)
  BY DEF Save
<1>3. raced' \in BOOLEAN /\ (raced => raced') /\ (raced' \/ row.status = c.read)
  BY <1>2
<1>4. Given(c) /\ c.read \in Accepts(c.op)
  BY DEF TripInv, Given
<1>5. raced' \/ (~raced /\ row.status \in Accepts(c.op))
  BY <1>1, <1>3, <1>4
<1>6. /\ Sound(row)
      /\ row.in # Unread => row.status = "Completed" \/ raced
      /\ row.out # Unread /\ row.in # Unread => row.in >= row.out \/ raced
  BY DEF TripInv, RowInv, ReadingsInOrder
<1>7. CASE c.op = "start"
  <2>1. row' = [row EXCEPT !.out = c.mileage, !.status = "InProgress"]
    BY <1>2, <1>7 DEF Wrote
  <2>2. /\ row' \in Stored /\ row'.status = "InProgress" /\ row'.out = c.mileage
        /\ row'.in = row.in
    BY <1>1, <2>1 DEF Stored, Status
  <2>3. c.mileage # Unread
    BY <1>4, <1>7 DEF Given
  <2>4. raced' \/ row.status \in {"Pending", "Confirmed"}
    BY <1>5, <1>7 DEF Accepts
  <2>5. RowInv'
    BY <1>3, <1>5, <1>6, <2>2, <2>3, <2>4 DEF RowInv, Sound, Bare, ReadingsInOrder
  <2> QED
    BY <1>3, <1>5, <1>7, <2>2, <2>3, <2>4, <2>5 DEF PastPickUp
<1>8. CASE c.op = "end"
  <2>1. row' = [row EXCEPT !.in = c.mileage, !.status = "Completed"]
    BY <1>2, <1>8 DEF Wrote
  <2>2. /\ row' \in Stored /\ row'.status = "Completed" /\ row'.out = row.out
        /\ row'.in = c.mileage
    BY <1>1, <2>1 DEF Stored, Status
  <2>3. row.out # Unread /\ (raced \/ c.mileage >= row.out)
    BY <1>4, <1>8 DEF Given
  <2>4. RowInv'
    BY <1>3, <2>2, <2>3 DEF RowInv, Sound, Bare, ReadingsInOrder
  <2> QED
    BY <1>3, <1>5, <1>8, <2>2, <2>4 DEF PastPickUp
<1>9. CASE c.op = "cancel"
  <2>1. row' = [row EXCEPT !.status = "Cancelled"]
    BY <1>2, <1>9 DEF Wrote
  <2>2. /\ row' \in Stored /\ row'.status = "Cancelled" /\ row'.out = row.out
        /\ row'.in = row.in
    BY <1>1, <2>1 DEF Stored, Status
  <2>3. raced' \/ row.status # "Completed"
    BY <1>5, <1>9 DEF Accepts
  <2>4. RowInv'
    BY <1>3, <1>6, <2>2, <2>3 DEF RowInv, Sound, Bare, ReadingsInOrder
  <2> QED
    BY <1>3, <1>5, <2>2, <2>4 DEF PastPickUp
<1>10. CASE c.op = "review"
  <2>1. row' = [row EXCEPT !.reviewed = TRUE]
    BY <1>2, <1>10 DEF Wrote
  <2>2. /\ row' \in Stored /\ row'.status = row.status /\ row'.out = row.out
        /\ row'.in = row.in
    BY <1>1, <2>1 DEF Stored
  <2>3. RowInv'
    BY <1>3, <1>6, <2>2 DEF RowInv, Sound, ReadingsInOrder
  <2> QED
    BY <1>3, <1>5, <1>10, <2>2, <2>3 DEF PastPickUp
<1> QED
  BY <1>1, <1>7, <1>8, <1>9, <1>10

LEMMA SaveStep == \A c \in commands : TripInv /\ Save(c) => TripInv'
<1> SUFFICES ASSUME NEW c \in commands, TripInv, Save(c) PROVE TripInv'
  OBVIOUS
<1>1. /\ commands' = commands \ {c} /\ Settle(c, TRUE) /\ UNCHANGED unforeseen
  BY DEF Save
<1>2. /\ row' \in Stored /\ raced' \in BOOLEAN /\ RowInv'
      /\ raced => raced'
      /\ raced' \/ row.status \in Accepts(c.op)
      /\ row.out # Unread => row'.out # Unread
      /\ c.op = "cancel" => row'.status = "Cancelled"
      /\ raced' \/ (PastPickUp => PastPickUp' /\ row'.out = row.out)
  BY Written
<1>3. TRUE \in BOOLEAN
  OBVIOUS
<1>4. /\ \A d \in commands' : d.heard => d \in commands \ {c}
      /\ commands \ {c} \subseteq commands'
  BY <1>1
<1>5. /\ page' \in [Phones -> {NoPage} \cup List \cup Form]
      /\ detail' \in {NoDetail} \cup Detail
      /\ \A p \in Phones :
             \/ page'[p] = page[p]
             \/ page'[p] = NoPage
             \/ /\ page[p].at = "form" /\ page'[p].at = "form"
                /\ page'[p].booking = page[p].booking
      /\ detail'.open =>
             detail.open /\ (detail'.reloading => detail.reloading \/ c.op = "cancel")
      /\ Awaited' /\ CancelNeverSticks'
  BY <1>1, <1>2, <1>3, <1>4, Settled
<1>6. /\ commands' \subseteq Command /\ IsFiniteSet(commands')
      /\ Cardinality(commands') <= MaxCommands
  BY <1>1, OneLess
<1>7. TripTypeOK'
  BY <1>1, <1>2, <1>5, <1>6 DEF TripInv, TripTypeOK
<1>8. PageInv'
  <2>1. ASSUME NEW p \in Phones, page'[p].at = "list"
        PROVE  Told(page[p].booking) /\ page'[p].booking = page[p].booking
    BY <1>5, <2>1, Apart DEF TripInv, PageInv
  <2>2. ASSUME NEW p \in Phones, page'[p].at = "form"
        PROVE  Fits(page[p]) /\ page'[p].booking = page[p].booking
    BY <1>5, <2>2, Apart DEF TripInv, PageInv
  <2> QED
    BY <1>2, <2>1, <2>2 DEF PageInv, Told, Fits
<1>9. \A d \in commands' : Given(d)'
  <2>1. \A d \in commands' : Given(d)
    BY <1>1 DEF TripInv
  <2> QED
    BY <1>2, <2>1 DEF Given
<1>10. ReloadInv'
  <2>1. c.op \in {"start", "end", "cancel", "review"}
    BY DEF TripInv, TripTypeOK, Command
  <2>2. "Cancelled" \notin Accepts(c.op)
    BY <2>1 DEF Accepts
  <2> QED
    BY <1>2, <1>5, <2>2 DEF TripInv, ReloadInv
<1>11. RefusedWhenStale'
  BY <1>1 DEF TripInv, RefusedWhenStale
<1> QED
  BY <1>2, <1>5, <1>6, <1>7, <1>8, <1>9, <1>10, <1>11 DEF TripInv

LEMMA TripInvStep == TripInv /\ [TripNext]_tripVars => TripInv'
<1> SUFFICES ASSUME TripInv, [TripNext]_tripVars PROVE TripInv'
  OBVIOUS
<1>1. ASSUME NEW p \in Phones,
             OpenList(p) \/ OpenInspection(p) \/ TypeMileage(p) \/ HandleSubmit(p) \/ LeavePhone(p)
      PROVE  TripInv'
  BY <1>1, OpenListStep, OpenInspectionStep, TypeMileageStep, HandleSubmitStep, LeavePhoneStep
<1>2. CASE OpenDetail \/ LeaveDetail \/ \E ok \in BOOLEAN : Reloaded(ok) \/ ReviewsLand(ok)
  BY <1>2, DetailSteps
<1>3. CASE HandleCancel \/ PostReview
  BY <1>3, HandleCancelStep, PostReviewStep
<1>4. ASSUME NEW c \in commands, Save(c) \/ SaveFails(c) \/ AnswerLost(c)
      PROVE  TripInv'
  BY <1>4, SaveStep, SaveFailsStep, AnswerLostStep
<1>5. CASE UNCHANGED tripVars
  BY <1>5 DEF tripVars, TripInv, TripTypeOK, RowInv, ReadingsInOrder, PageInv, Told, Fits,
              PastPickUp, Given, Awaited, ReloadInv, CancelNeverSticks, RefusedWhenStale
<1> QED
  BY <1>1, <1>2, <1>3, <1>4, <1>5 DEF TripNext

(* The owner's pages and the renter's offer a command where the server would  *)
(* let it through: what is refused had changed since the page read it, or is *)
(* the owner's cancellation.                                                *)
THEOREM RefusalsAreStale == TripSpec => []RefusedWhenStale
<1>1. TripInv => RefusedWhenStale
  BY DEF TripInv
<1> QED
  BY <1>1, TripInvInit, TripInvStep, PTL DEF TripSpec

(* The odometer never reads less at return than at pick-up, although only the *)
(* return form compares the two, unless commands overlapped on the server.  *)
THEOREM OdometersRise == TripSpec => []ReadingsInOrder
<1>1. TripInv => ReadingsInOrder
  BY DEF TripInv, RowInv
<1> QED
  BY <1>1, TripInvInit, TripInvStep, PTL DEF TripSpec

(* The cancel dialog is not left waiting for an answer that has been given. *)
THEOREM CancelDialogsEnd == TripSpec => []CancelNeverSticks
<1>1. TripInv => CancelNeverSticks
  BY DEF TripInv
<1> QED
  BY <1>1, TripInvInit, TripInvStep, PTL DEF TripSpec

(* Every status is on one tab of each page. *)
LEMMA OneTabEach ==
    ASSUME NEW s \in Status
    PROVE  /\ Cardinality(TabsOf(INBOX_TABS, s)) = 1
           /\ Cardinality(TabsOf(TRIP_TABS, s)) = 1
           /\ TabsOf(INBOX_TABS, s) = {"underway"} <=> s = "InProgress"
           /\ TabsOf(TRIP_TABS, s) = {"active"} <=> s = "InProgress"
<1> DEFINE i == CASE s = "Pending" -> "requests" [] s = "Confirmed" -> "upcoming"
                  [] s = "InProgress" -> "underway" [] OTHER -> "finished"
           t == CASE s \in {"Pending", "Confirmed"} -> "upcoming"
                  [] s = "InProgress" -> "active" [] OTHER -> "past"
<1>1. /\ DOMAIN INBOX_TABS = {"requests", "upcoming", "underway", "finished"}
      /\ INBOX_TABS["requests"] = {"Pending"} /\ INBOX_TABS["upcoming"] = {"Confirmed"}
      /\ INBOX_TABS["underway"] = {"InProgress"}
      /\ INBOX_TABS["finished"] = {"Completed", "Cancelled", "Disputed"}
  BY DEF INBOX_TABS
<1>2. /\ DOMAIN TRIP_TABS = {"upcoming", "active", "past"}
      /\ TRIP_TABS["upcoming"] = {"Pending", "Confirmed"} /\ TRIP_TABS["active"] = {"InProgress"}
      /\ TRIP_TABS["past"] = {"Completed", "Cancelled", "Disputed"}
  BY DEF TRIP_TABS
<1>3. TabsOf(INBOX_TABS, s) = {i} /\ (i = "underway" <=> s = "InProgress")
  BY <1>1 DEF TabsOf, Status
<1>4. TabsOf(TRIP_TABS, s) = {t} /\ (t = "active" <=> s = "InProgress")
  BY <1>2 DEF TabsOf, Status
<1> HIDE DEF i, t
<1>5. Cardinality({i}) = 1 /\ Cardinality({t}) = 1
  BY FS_Singleton
<1> QED
  BY <1>3, <1>4, <1>5

(* The owner's dashboard and inbox agree on a booking they hold, at whatever  *)
(* instant they are looked at.                                              *)
THEOREM TilesStayTogether == TripSpec => []TilesAgree
<1>1. ASSUME TripInv PROVE TilesAgree
  <2> SUFFICES ASSUME NEW p \in Phones, NEW now \in 0 .. MaxClock, page[p].at = "list"
               PROVE  LET b == page[p].booking
                          rows == buildAttentionList(b, now)
                          undone == TodayTimeline(b, now)
                          pickupToday == \E r \in rows : r.kind = "pickup-today"
                      IN  /\ ownerStats(b, now).pickupsToday <=> pickupToday
                          /\ "pickup" \in undone <=> pickupToday
                          /\ \A r \in rows :
                                 r.kind = "return-overdue" /\ isSameLocalDay(r.at, now) =>
                                     "return" \in undone \/ raced
                          /\ rows # {} => AttentionRow(b) = "form"
                          /\ Cardinality(TabsOf(INBOX_TABS, b.status)) = 1
                          /\ Cardinality(TabsOf(TRIP_TABS, b.status)) = 1
                          /\ inboxAction(b.status) = "end" <=> TabsOf(INBOX_TABS, b.status) = {"underway"}
                          /\ ownerStats(b, now).tripsUnderWay <=> TabsOf(TRIP_TABS, b.status) = {"active"}
    BY DEF TilesAgree
  <2> DEFINE b == page[p].booking
             rows == buildAttentionList(b, now)
             undone == TodayTimeline(b, now)
             kind == classifyAttention(b, now)
             today == isSameLocalDay(PickUpAt, now)
  <2>1. b \in Held /\ b.status \in Status /\ Told(b)
    <3>1. page[p] \in {NoPage} \cup List \cup Form
      BY <1>1 DEF TripInv, TripTypeOK
    <3>2. b \in Held /\ Told(b)
      BY <1>1, <3>1, Apart DEF TripInv, PageInv
    <3> QED
      BY <3>2 DEF Held
  <2> HIDE DEF b
  <2>2. /\ kind = "pickup-today" <=> b.status \in Bare /\ today
        /\ kind = "return-overdue" => b.status = "InProgress"
        /\ kind # "none" => b.status \in Bare \cup {"InProgress"}
    <3>1. LocalDay(PickUpAt) \in Int /\ LocalDay(now) \in Int
      BY TripAssumption DEF LocalDay
    <3>2. today <=> LocalDay(PickUpAt) = LocalDay(now)
      BY DEF isSameLocalDay
    <3>3. kind = IF b.status = "InProgress"
                 THEN IF ReturnAt < now THEN "return-overdue" ELSE "none"
                 ELSE IF b.status \notin Bare THEN "none"
                 ELSE IF today THEN "pickup-today"
                 ELSE IF LocalDay(PickUpAt) < LocalDay(now) THEN "pickup-overdue"
                 ELSE IF b.status = "Pending" THEN "new-request" ELSE "none"
      BY <2>1, <3>1, <3>2, SMT DEF classifyAttention, Bare
    <3> HIDE DEF kind, today
    <3> QED
      BY <3>3 DEF Bare
  <2>3. rows = {r \in {[kind |-> kind, at |-> IF kind = "return-overdue" THEN ReturnAt ELSE PickUpAt]} :
                    kind # "none"}
    BY DEF buildAttentionList
  <2> HIDE DEF kind, rows
  <2>4. /\ \A r \in rows : r.kind = kind /\ (kind = "return-overdue" => r.at = ReturnAt)
        /\ rows # {} <=> kind # "none"
    <3> DEFINE w == [kind |-> kind, at |-> IF kind = "return-overdue" THEN ReturnAt ELSE PickUpAt]
    <3>1. w.kind = kind /\ (kind = "return-overdue" => w.at = ReturnAt)
      OBVIOUS
    <3>2. rows = {r \in {w} : kind # "none"}
      BY <2>3
    <3> HIDE DEF w
    <3> QED
      BY <3>1, <3>2
  <2>5. (\E r \in rows : r.kind = "pickup-today") <=> b.status \in Bare /\ today
    BY <2>2, <2>4
  <2>6. /\ "pickup" \in undone <=> b.status # "Cancelled" /\ today /\ b.out = Unread
        /\ b.status # "Cancelled" /\ isSameLocalDay(ReturnAt, now) /\ b.in = Unread => "return" \in undone
    <3> DEFINE up == [type |-> "pickup", at |-> PickUpAt, done |-> b.out # Unread]
               back == [type |-> "return", at |-> ReturnAt, done |-> b.in # Unread]
               jobs == {e \in {up, back} : b.status # "Cancelled" /\ isSameLocalDay(e.at, now)}
    <3>1. /\ up.type = "pickup" /\ up.at = PickUpAt /\ (up.done <=> b.out # Unread)
          /\ back.type = "return" /\ back.at = ReturnAt /\ (back.done <=> b.in # Unread)
      OBVIOUS
    <3>2. undone = {e.type : e \in {d \in jobs : ~d.done}}
      BY DEF TodayTimeline, todayTimeline
    <3> HIDE DEF up, back, undone
    <3> QED
      BY <3>1, <3>2
  <2>7. b.status # "Cancelled" => (b.out = Unread <=> b.status \in Bare)
    BY <2>1 DEF Told, Sound, Bare, Status
  <2>8. "pickup" \in undone <=> b.status \in Bare /\ today
    BY <2>6, <2>7 DEF Bare
  <2>9. b.status = "InProgress" => b.in = Unread \/ raced
    BY <2>1 DEF Told
  <2>10. /\ ownerStats(b, now).pickupsToday <=> today /\ b.status \in Bare
         /\ ownerStats(b, now).tripsUnderWay <=> b.status = "InProgress"
    BY DEF ownerStats, Bare
  <2>11. /\ kind # "none" => AttentionRow(b) = "form"
         /\ inboxAction(b.status) = "end" <=> b.status = "InProgress"
    BY <2>1, <2>2 DEF AttentionRow, inboxAction, Bare, Status
  <2>12. \A r \in rows : r.kind = "return-overdue" /\ isSameLocalDay(r.at, now) =>
             "return" \in undone \/ raced
    BY <2>2, <2>4, <2>6, <2>9
  <2>13. /\ Cardinality(TabsOf(INBOX_TABS, b.status)) = 1
         /\ Cardinality(TabsOf(TRIP_TABS, b.status)) = 1
         /\ TabsOf(INBOX_TABS, b.status) = {"underway"} <=> b.status = "InProgress"
         /\ TabsOf(TRIP_TABS, b.status) = {"active"} <=> b.status = "InProgress"
    BY <2>1, OneTabEach
  <2> HIDE DEF undone, today
  <2>14. /\ ownerStats(b, now).pickupsToday <=> \E r \in rows : r.kind = "pickup-today"
         /\ "pickup" \in undone <=> \E r \in rows : r.kind = "pickup-today"
         /\ rows # {} => AttentionRow(b) = "form"
         /\ inboxAction(b.status) = "end" <=> TabsOf(INBOX_TABS, b.status) = {"underway"}
         /\ ownerStats(b, now).tripsUnderWay <=> TabsOf(TRIP_TABS, b.status) = {"active"}
    BY <2>4, <2>5, <2>8, <2>10, <2>11, <2>13
  <2> QED
    BY <2>12, <2>13, <2>14 DEF b, rows, undone
<1>2. TripInv => TilesAgree
  BY <1>1
<1> QED
  BY <1>2, TripInvInit, TripInvStep, PTL DEF TripSpec

-----------------------------------------------------------------------------
(* The whole trip *)

TripsInv == SearchInv /\ CheckoutInv /\ TripInv

LEMMA TripsInvInit == Init => TripsInv
BY SearchInvInit, CheckoutInvInit, TripInvInit DEF Init, TripsInv

LEMMA TripsInvStep ==
    TripsInv /\ [Next]_<<searchVars, checkoutVars, tripVars, watched>> => TripsInv'
<1> SUFFICES ASSUME TripsInv, [Next]_<<searchVars, checkoutVars, tripVars, watched>>
             PROVE  TripsInv'
  OBVIOUS
<1>1. [SearchNext]_searchVars /\ [CheckoutNext]_checkoutVars /\ [TripNext]_tripVars
  BY DEF Next
<1> QED
  BY <1>1, SearchInvStep, CheckoutInvStep, TripInvStep DEF TripsInv

(* From the search to the hand-over the variables stay of their types: the    *)
(* server never works on more than MaxCommands commands or bookings at once, *)
(* and the pages hold nothing that is not a booking's.                      *)
THEOREM TripsTyped == Spec => []TypeOK
<1>1. TripsInv => TypeOK
  BY DEF TripsInv, SearchInv, CheckoutInv, TripInv, TypeOK
<1> QED
  BY <1>1, TripsInvInit, TripsInvStep, PTL DEF Spec
=============================================================================
