------------------------------- MODULE Checkout -------------------------------
(***************************************************************************)
(* Booking a car from its page: the quote the browser works out from the    *)
(* car it was sent, the request, and the price the server works out from    *)
(* the car it reads.  All tabs are one renter's, for one car and one first   *)
(* day (what a time zone does to a day is in Search).                       *)
(*                                                                         *)
(* Money is in twentieths of a cent, so that a twentieth of a price in      *)
(* cents is a whole number; time is in hours.                               *)
(***************************************************************************)
EXTENDS Integers, Sequences, FiniteSets

CONSTANTS
    CheckoutTabs,  \* the renter's tabs
    Prices,        \* daily prices of the car, in cents
    Deposits,      \* security deposits of the car, in cents
    Spans,         \* hours from pick-up to return
    MaxCreating,   \* bound: create requests the server works on at once
    MaxBooked      \* bound: bookings ever stored

ASSUME CheckoutAssumption ==
    /\ Prices \subseteq Nat /\ Deposits \subseteq Nat
    /\ Spans \subseteq Nat \ {0} /\ {MaxCreating, MaxBooked} \subseteq Nat

VARIABLES
    car,           \* the car's price and deposit, as stored
    checkout,      \* each tab's checkout page
    creating,      \* create requests the server has checked and not saved
    booked,        \* the bookings stored, with the quote each was sent from
    retried        \* a request overlapped one the renter could not wait for

checkoutVars == <<car, checkout, creating, booked, retried>>

Car == [price: Prices, deposit: Deposits]

NoCheckout == [open |-> FALSE]
OpenPage == [open: {TRUE}, car: Car, span: Spans, submitting: BOOLEAN]

(* What a request was sent from. *)
Quote == [car: Car, span: Spans]
QuoteOf(t) == [car |-> checkout[t].car, span |-> checkout[t].span]

Creation == [by: CheckoutTabs, car: Car, page: Quote, heard: BOOLEAN]

Money == [subtotal: Nat, fee: Nat, tax: Nat, deposit: Nat, total: Nat]
Booked == [page: Quote, read: Car, live: BOOLEAN, money: Money]

CheckoutTypeOK ==
    /\ car \in Car
    /\ checkout \in [CheckoutTabs -> {NoCheckout} \cup OpenPage]
    /\ creating \subseteq Creation /\ Cardinality(creating) <= MaxCreating
    /\ booked \in Seq(Booked) /\ Len(booked) <= MaxBooked
    /\ retried \in BOOLEAN

CheckoutInit ==
    /\ car \in Car
    /\ checkout = [t \in CheckoutTabs |-> NoCheckout]
    /\ creating = {}
    /\ booked = <<>>
    /\ retried = FALSE

-----------------------------------------------------------------------------
(* Prices *)

(* Mutant of daysBetween: a day begun is a day billed. *)
daysBetweenRoundedUp(span) == IF span <= 0 THEN 1 ELSE (span + 23) \div 24

(* The browser's count of days, and the server's. *)
daysBetween(span) == IF span \div 24 <= 0 THEN 1 ELSE span \div 24

TotalDays(span) ==
    LET days == span \div 24 IN IF days <= 0 THEN 1 ELSE days

(* 10% service fee, 5% tax. *)
priceBreakdown(c, span) ==
    LET subtotal == daysBetween(span) * c.price * 20
    IN  [subtotal |-> subtotal, fee |-> subtotal \div 10, tax |-> subtotal \div 20,
         deposit |-> c.deposit * 20,
         total |-> subtotal + subtotal \div 10 + subtotal \div 20 + c.deposit * 20]

(* A numeric(18,2) column rounds a half cent away from zero. *)
Cents(x) == (x + 10) \div 20

BookingPrice(c, span) ==
    LET subtotal == TotalDays(span) * c.price * 20
        totalAmount == subtotal + subtotal \div 10 + subtotal \div 20
    IN  [subtotal |-> Cents(subtotal), fee |-> Cents(subtotal \div 10),
         tax |-> Cents(subtotal \div 20), deposit |-> Cents(c.deposit * 20),
         total |-> Cents(totalAmount + c.deposit * 20)]

(* What formatMoney may show of an amount computed in binary floating point: *)
(* a half cent goes either way.                                             *)
Shown(x) == {Cents(x)} \cup {c \in {x \div 20} : x % 20 = 10}

-----------------------------------------------------------------------------

OpenCheckout(t) ==
    /\ checkout[t] = NoCheckout
    /\ \E span \in Spans :
          checkout' = [checkout EXCEPT ![t] =
              [open |-> TRUE, car |-> car, span |-> span, submitting |-> FALSE]]
    /\ UNCHANGED <<car, creating, booked, retried>>

LeaveCheckout(t) ==
    /\ checkout[t].open
    /\ checkout' = [checkout EXCEPT ![t] = NoCheckout]
    /\ creating' = {IF r.by = t THEN [r EXCEPT !.heard = FALSE] ELSE r : r \in creating}
    /\ UNCHANGED <<car, booked, retried>>

Reprice ==
    /\ \E c \in Car \ {car} : car' = c
    /\ UNCHANGED <<checkout, creating, booked, retried>>

Standing == {i \in 1 .. Len(booked) : booked[i].live}

(* The availability query.  Every page here asks for the same first day, so   *)
(* a booking that stands clashes, however long either is.                   *)
Taken == Standing # {}

(* The request, with the server's reads: the car, then its bookings.  A       *)
(* refusal leaves the page as it was.                                       *)
HandleCheckout(t) ==
    /\ checkout[t].open /\ ~checkout[t].submitting
    /\ IF Taken
       THEN UNCHANGED <<checkout, creating, retried>>
       ELSE /\ Cardinality(creating) < MaxCreating
            /\ creating' = creating \cup {[by |-> t, car |-> car, page |-> QuoteOf(t), heard |-> TRUE]}
            /\ checkout' = [checkout EXCEPT ![t].submitting = TRUE]
            /\ retried' = (retried \/ \E r \in creating : r.by # t \/ ~r.heard)
    /\ UNCHANGED <<car, booked>>

(* The page that hears of it gives way to the booking's. *)
CreateBooking(r) ==
    /\ Len(booked) < MaxBooked
    /\ booked' = Append(booked, [page |-> r.page, read |-> r.car, live |-> TRUE,
                                 money |-> BookingPrice(r.car, r.page.span)])
    /\ creating' = creating \ {r}
    /\ checkout' = IF r.heard THEN [checkout EXCEPT ![r.by] = NoCheckout] ELSE checkout
    /\ UNCHANGED <<car, retried>>

Unanswered(r) == [checkout EXCEPT ![r.by].submitting = FALSE]

CreateFails(r) ==
    /\ creating' = creating \ {r}
    /\ checkout' = IF r.heard THEN Unanswered(r) ELSE checkout
    /\ UNCHANGED <<car, booked, retried>>

(* The connection fails; the server works on. *)
CreateUnheard(r) ==
    /\ r.heard
    /\ [r EXCEPT !.heard = FALSE] \notin creating
    /\ creating' = (creating \ {r}) \cup {[r EXCEPT !.heard = FALSE]}
    /\ checkout' = Unanswered(r)
    /\ UNCHANGED <<car, booked, retried>>

CancelOne ==
    /\ \E i \in Standing : booked' = [booked EXCEPT ![i].live = FALSE]
    /\ UNCHANGED <<car, checkout, creating, retried>>

CheckoutNext ==
    \/ \E t \in CheckoutTabs : OpenCheckout(t) \/ LeaveCheckout(t) \/ HandleCheckout(t)
    \/ \E r \in creating : CreateBooking(r) \/ CreateFails(r) \/ CreateUnheard(r)
    \/ Reprice \/ CancelOne

CheckoutSpec == CheckoutInit /\ [][CheckoutNext]_checkoutVars

-----------------------------------------------------------------------------
(* A booking is at the price its page quoted, line by line and to the cent,   *)
(* unless the car's price changed after the page was loaded; only a half    *)
(* cent may be shown a cent off.  The receipt's lines add up to its total    *)
(* within a cent, each being rounded by itself.                             *)
QuotedPrice(b) ==
    /\ b.read = b.page.car =>
          \A line \in DOMAIN b.money :
              b.money[line] \in Shown(priceBreakdown(b.page.car, b.page.span)[line])
    /\ b.money.subtotal + b.money.fee + b.money.tax + b.money.deposit - b.money.total
          \in -1 .. 1

(* What a renter asked for is booked once, at the price quoted: twice only    *)
(* when two of the renter's requests were under way together, from two tabs  *)
(* or from one that had lost its connection.                                *)
BookedAsQuoted ==
    /\ \A i \in 1 .. Len(booked) : QuotedPrice(booked[i])
    /\ Cardinality(Standing) <= 1 \/ retried
=============================================================================
