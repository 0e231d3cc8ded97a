-------------------------------- MODULE Search --------------------------------
(***************************************************************************)
(* The search page.  The query lives in the URL; the date fields and the    *)
(* price field hold text of their own until it is applied.  Every control   *)
(* builds the next URL from the one on screen, and the page it asks for      *)
(* arrives some time later.                                                *)
(***************************************************************************)
EXTENDS Integers

CONSTANTS
    LastDay,       \* bound: pick-up days are 0 .. LastDay, and drift no lower
    LastPrice,     \* bound: prices typed are 1 .. LastPrice
    LastPage       \* bound: pages of results

ASSUME SearchAssumption == {LastDay, LastPrice, LastPage} \subseteq Nat

VARIABLES
    url,           \* the query on screen
    next,          \* the query asked for and not there yet; NoQuery if none
    bar,           \* SearchBar's date text, and whether the user has typed it
    box,           \* the price text, whether it has the focus, and was typed
    west,          \* the browser's time zone is west of the web server's
    wanted,        \* what the user has asked for, control by control
    overtaken,     \* a control was used before the page of the last one arrived
    repaired       \* an empty result's link has moved the URL past the fields

searchVars == <<url, next, bar, box, west, wanted, overtaken, repaired>>

Empty == 0      \* a field or a filter that is not set

Query == [day: 0 .. LastDay, price: 0 .. LastPrice, category: 0 .. 1, page: 1 .. LastPage]
NoQuery == [day |-> -1]

(* The web server reads a day of the URL as its own midnight, and passes the *)
(* instant; a browser further west shows the day before.                    *)
InBrowser(d) == IF west /\ d > 0 THEN d - 1 ELSE d

SearchTypeOK ==
    /\ url \in Query /\ wanted \in Query
    /\ next \in Query \cup {NoQuery}
    /\ bar \in [day: 0 .. LastDay, typed: BOOLEAN]
    /\ box \in [price: 0 .. LastPrice, focus: BOOLEAN, typed: BOOLEAN]
    /\ {west, overtaken, repaired} \subseteq BOOLEAN

(* The fields take their text from the URL once, when they are mounted. *)
Mounted(q) ==
    /\ bar' = [day |-> InBrowser(q.day), typed |-> FALSE]
    /\ box' = [price |-> q.price, focus |-> FALSE, typed |-> FALSE]

SearchInit ==
    /\ url \in Query /\ url.page = 1
    /\ wanted = url
    /\ next = NoQuery
    /\ west \in BOOLEAN
    /\ bar = [day |-> InBrowser(url.day), typed |-> FALSE]
    /\ box = [price |-> url.price, focus |-> FALSE, typed |-> FALSE]
    /\ overtaken = FALSE
    /\ repaired = FALSE

-----------------------------------------------------------------------------

(* router.push: the latest navigation is the one that arrives. *)
Push(q) ==
    /\ next' = q
    /\ overtaken' = (overtaken \/ next # NoQuery)
    /\ UNCHANGED <<url, west>>

(* Two in one click. *)
PushAgain(q) ==
    /\ next' = q
    /\ overtaken' = TRUE
    /\ UNCHANGED <<url, west>>

(* Mutant of Go: the page of the results is kept. *)
GoKeepingPage(change) == change

(* A changed query starts at its first page. *)
Go(change) == [change EXCEPT !.page = 1]

TypeDay ==
    /\ \E d \in 0 .. LastDay : bar' = [day |-> d, typed |-> TRUE]
    /\ UNCHANGED <<url, next, box, west, wanted, overtaken, repaired>>

(* What the price field wants of the query when it loses the focus. *)
PriceWanted == IF box.typed THEN [wanted EXCEPT !.price = box.price, !.page = 1] ELSE wanted

(* SearchBar.handleSubmit.  The range is valid: only the first day varies.   *)
HandleSearch ==
    /\ ~box.focus
    /\ Push(Go([url EXCEPT !.day = bar.day]))
    /\ wanted' = [wanted EXCEPT !.page = 1, !.day = IF bar.typed THEN bar.day ELSE @]
    /\ bar' = [bar EXCEPT !.typed = FALSE]
    /\ UNCHANGED <<box, repaired>>

FocusPrice ==
    /\ ~box.focus
    /\ box' = [box EXCEPT !.focus = TRUE]
    /\ UNCHANGED <<url, next, bar, west, wanted, overtaken, repaired>>

TypePrice ==
    /\ box.focus
    /\ \E p \in 0 .. LastPrice : box' = [box EXCEPT !.price = p, !.typed = TRUE]
    /\ UNCHANGED <<url, next, bar, west, wanted, overtaken, repaired>>

(* applyPrice, on blur or from the Apply button. *)
ApplyPrice ==
    /\ box.focus
    /\ Push(Go([url EXCEPT !.price = box.price]))
    /\ wanted' = [PriceWanted EXCEPT !.page = 1]
    /\ box' = [box EXCEPT !.focus = FALSE, !.typed = FALSE]
    /\ UNCHANGED <<bar, repaired>>

(* A chip clicked.  With the focus still in the price field its blur comes    *)
(* first, and the click's navigation, built from the same URL, replaces it.  *)
ChooseCategory ==
    /\ LET chosen == 1 - url.category IN
          /\ IF box.focus THEN PushAgain(Go([url EXCEPT !.category = chosen]))
                          ELSE Push(Go([url EXCEPT !.category = chosen]))
          /\ wanted' = [PriceWanted EXCEPT !.category = chosen, !.page = 1]
    /\ box' = [box EXCEPT !.focus = FALSE, !.typed = FALSE]
    /\ UNCHANGED <<bar, repaired>>

(* The links of the result pages. *)
TurnPage ==
    /\ ~box.focus
    /\ \E p \in {url.page - 1, url.page + 1} \cap (1 .. LastPage) :
          /\ Push([url EXCEPT !.page = p])
          /\ wanted' = [wanted EXCEPT !.page = p]
    /\ UNCHANGED <<bar, box, repaired>>

withoutFilters(q) == [q EXCEPT !.price = Empty, !.category = Empty, !.page = 1]

(* Mutant of withWiderDates: the dates widen into the past. *)
withWiderDatesPast(q) == [q EXCEPT !.day = @ - 1, !.page = 1]

withWiderDates(q) == [q EXCEPT !.day = IF q.day = 0 THEN 0 ELSE q.day - 1, !.page = 1]

(* The two links of an empty result.  The fields stay mounted, as they were. *)
Repair ==
    /\ ~box.focus
    /\ \/ Push(withoutFilters(url)) /\ wanted' = withoutFilters(wanted)
       \/ Push(withWiderDates(url)) /\ wanted' = withWiderDates(wanted)
    /\ repaired' = TRUE
    /\ UNCHANGED <<bar, box>>

PageArrives ==
    /\ next # NoQuery
    /\ url' = next
    /\ next' = NoQuery
    /\ UNCHANGED <<bar, box, west, wanted, overtaken, repaired>>

(* The page is loaded anew, from the URL alone. *)
ReloadPage ==
    /\ url' = IF next = NoQuery THEN url ELSE next
    /\ wanted' = url'
    /\ next' = NoQuery
    /\ Mounted(url')
    /\ overtaken' = FALSE
    /\ repaired' = FALSE
    /\ UNCHANGED west

SearchNext ==
    \/ TypeDay \/ HandleSearch
    \/ FocusPrice \/ TypePrice \/ ApplyPrice
    \/ ChooseCategory \/ TurnPage \/ Repair
    \/ PageArrives \/ ReloadPage

SearchSpec == SearchInit /\ [][SearchNext]_searchVars

-----------------------------------------------------------------------------
(* Once the page asked for is there, it is the query the user put together,  *)
(* control by control: no filter is dropped, none comes back, no date moves, *)
(* and a changed query shows its first page.  Exceptions, each of which the  *)
(* code runs into: a control used before the page of the last one arrived   *)
(* (a price still in focus counts), dates and price after an empty result's *)
(* link, which leaves the fields their old text, and the date in a browser  *)
(* west of the web server.                                                  *)
FiltersStick ==
    next = NoQuery /\ ~overtaken =>
        /\ url.category = wanted.category
        /\ url.page = wanted.page
        /\ url.price = wanted.price \/ repaired
        /\ url.day = wanted.day \/ repaired \/ west
=============================================================================
