-------------------------------- MODULE Entry --------------------------------
(***************************************************************************)
(* One tab on its way to a page: the guards that send a signed-out visitor  *)
(* to the sign-in form, the forms that send them back, the menu that signs  *)
(* them out, and the other tabs, which may change the session at any time.  *)
(* Sessions says how the tabs share it; here a change arrives as it is made.*)
(***************************************************************************)
EXTENDS Naturals

VARIABLES
    who,             \* the role of the session in localStorage
    session,         \* the same as this tab shows it
    at,              \* the address: page, the form's next, the checkout's dates
    form,            \* the form shown: not filled in, or with the role chosen in it
    submitted,       \* the sign-in or sign-up call under way, with its next
    signingOut,      \* UserMenu: "Signing out..."
    leaving,         \* UserMenu: signOut is awaited
    asked,           \* history: the page the visitor last chose
    bounced,         \* history: since then, the guard found nobody signed in
    strayed,         \* history: since then, next was dropped or came too late
    joined           \* history: someone signed in under a menu left signing out

entryVars == <<who, session, at, form, submitted, signingOut, leaving, asked, bounced, strayed, joined>>

Roles == {"Renter", "Owner"}
Site == {"home", "trips", "book"}
Forms == {"login", "register"}
Page == Site \cup {"owner"} \cup Forms
Guarded == {"trips", "book", "owner"}
Address == [page: Page, next: Guarded \cup {""}, dates: BOOLEAN]

(* The roles a guarded page admits; the others read a notice and stay. *)
Admits(p) == CASE p = "book" -> {"Renter"} [] p = "owner" -> {"Owner"} [] OTHER -> Roles

(* A link to the checkout carries the dates that were chosen. *)
To(p) == [page |-> p, next |-> "", dates |-> p = "book"]

(* next is a path, and "/" without one. *)
Land(n) == [page |-> IF n = "" THEN "home" ELSE n, next |-> "", dates |-> FALSE]

Layout(p) == CASE p \in Site -> "site" [] p = "owner" -> "owner" [] OTHER -> "auth"

NotSent == [on |-> FALSE, next |-> "", as |-> Roles]

(* A menu of another layout is another menu; another page's form is blank. *)
Arrive(a) ==
    /\ at' = a
    /\ form' = IF a.page = at.page THEN form ELSE "incomplete"
    /\ signingOut' = (signingOut /\ Layout(a.page) = Layout(at.page))
    /\ joined' = (joined /\ signingOut')

Chose(a, lost) ==
    /\ asked' = [page |-> a.page, dates |-> a.dates]
    /\ bounced' = FALSE
    /\ strayed' = lost

-----------------------------------------------------------------------------
(* What the visitor does *)

(* The forms' layout links to nothing but the home page and the other form. *)
FollowLink(p) ==
    /\ p \notin Forms
    /\ at.page \in Forms => p = "home"
    /\ Arrive(To(p))
    /\ Chose(To(p), FALSE)
    /\ UNCHANGED <<who, session, submitted, leaving>>

OpenForm(f) ==
    /\ at.page \notin Forms
    /\ session = "none"
    /\ Arrive(To(f))
    /\ Chose(Land(""), FALSE)
    /\ UNCHANGED <<who, session, submitted, leaving>>

(* The link to the other form does not take next along. *)
SwitchForm(f) ==
    /\ at.page \in Forms \ {f}
    /\ Arrive(To(f))
    /\ strayed' = (strayed \/ at.next # "")
    /\ UNCHANGED <<who, session, submitted, leaving, asked, bounced>>

(* An address typed, or the page reloaded: the scripts start afresh. *)
Load(a) ==
    /\ a = at \/ \E p \in Page \ Forms : a = To(p)
    /\ at' = a
    /\ session' = "loading"
    /\ form' = "incomplete"
    /\ submitted' = NotSent
    /\ signingOut' = FALSE
    /\ leaving' = FALSE
    /\ joined' = FALSE
    /\ IF a = at THEN UNCHANGED <<asked, bounced, strayed>> ELSE Chose(a, FALSE)
    /\ UNCHANGED who

(* A sign-up chooses a role; whose account signs in is in the credentials. *)
Complete == IF at.page = "register" THEN Roles ELSE {"Renter"}

(* The fields: names, address, password, and the role of a new account. *)
FillIn ==
    /\ at.page \in Forms
    /\ session \notin Roles
    /\ form' \in (Complete \cup {"incomplete"}) \ {form}
    /\ UNCHANGED <<who, session, at, submitted, signingOut, leaving, asked, bounced, strayed, joined>>

(* A form that is not in order costs no call. *)
HandleSubmit ==
    /\ at.page \in Forms
    /\ session = "none"
    /\ ~submitted.on
    /\ form # "incomplete"
    /\ submitted' = [on |-> TRUE, next |-> at.next,
                     as |-> IF at.page = "register" THEN {form} ELSE Roles]
    /\ UNCHANGED <<who, session, at, form, signingOut, leaving, asked, bounced, strayed, joined>>

HandleSignOut ==
    /\ session \in Roles
    /\ at.page \notin Forms
    /\ ~signingOut
    /\ ~leaving
    /\ signingOut' = TRUE
    /\ leaving' = TRUE
    /\ UNCHANGED <<who, session, at, form, submitted, asked, bounced, strayed, joined>>

-----------------------------------------------------------------------------
(* What comes of it *)

Hydrated ==
    /\ session = "loading"
    /\ session' = who
    /\ UNCHANGED <<who, at, form, submitted, signingOut, leaving, asked, bounced, strayed, joined>>

(* Mutant of GuardRedirects: the wrong role is sent to the form as well. *)
GuardRedirectsAnyone ==
    /\ at.page \in Guarded
    /\ session \notin Admits(at.page) \cup {"loading"}
    /\ Arrive([page |-> "login", next |-> at.page, dates |-> FALSE])
    /\ bounced' = (bounced \/ session = "none")
    /\ UNCHANGED <<who, session, submitted, leaving, asked, strayed>>

(* Mutant of GuardRedirects: it does not wait for the session to be read. *)
GuardRedirectsEarly ==
    /\ at.page \in Guarded
    /\ session \notin Roles
    /\ Arrive([page |-> "login", next |-> at.page, dates |-> FALSE])
    /\ bounced' = (bounced \/ session = "none")
    /\ UNCHANGED <<who, session, submitted, leaving, asked, strayed>>

(* next is the path alone: the query, with the dates, stays behind. *)
GuardRedirects ==
    /\ at.page \in Guarded
    /\ session = "none"
    /\ Arrive([page |-> "login", next |-> at.page, dates |-> FALSE])
    /\ bounced' = TRUE
    /\ UNCHANGED <<who, session, submitted, leaving, asked, strayed>>

RedirectIfAuthenticated ==
    /\ at.page \in Forms
    /\ session \in Roles
    /\ Arrive(Land(at.next))
    /\ UNCHANGED <<who, session, submitted, leaving, asked, bounced, strayed>>

(* The form's own replace, and the redirect of whichever form is shown by    *)
(* now; an answer that comes when the visitor has moved on takes them along. *)
SubmitAnswered(r) ==
    /\ submitted.on
    /\ r \in submitted.as
    /\ submitted' = NotSent
    /\ form' = "incomplete"
    /\ who' = r
    /\ session' = r
    /\ \E n \in {submitted.next} \cup IF at.page \in Forms THEN {at.next} ELSE {} :
           /\ at' = Land(n)
           /\ signingOut' = (signingOut /\ Layout(Land(n).page) = Layout(at.page))
    /\ joined' = signingOut'
    /\ strayed' = (strayed \/ at.page \notin Forms \/ at.next # submitted.next)
    /\ UNCHANGED <<leaving, asked, bounced>>

SubmitFails ==
    /\ submitted.on
    /\ submitted' = NotSent
    /\ UNCHANGED <<who, session, at, form, signingOut, leaving, asked, bounced, strayed, joined>>

(* Mutant of SignOutAnswered: a revoke that fails is an error. *)
SignOutAnsweredOrFails ==
    /\ leaving
    /\ leaving' = FALSE
    /\ \/ UNCHANGED <<who, session, at, form, signingOut, asked, bounced, strayed, joined>>
       \/ /\ who' = "none"
          /\ session' = "none"
          /\ Arrive(To("home"))
          /\ Chose(To("home"), FALSE)
    /\ UNCHANGED submitted

(* Whatever the call came to, the session is cleared and the menu pushes the *)
(* home page; but a guarded page has lost its session at the same moment,    *)
(* and the later of the two navigations wins.                                *)
SignOutAnswered ==
    /\ leaving
    /\ leaving' = FALSE
    /\ who' = "none"
    /\ session' = "none"
    /\ \/ Arrive(To("home")) /\ Chose(To("home"), FALSE)
       \/ /\ at.page \in Guarded
          /\ Arrive([page |-> "login", next |-> at.page, dates |-> FALSE])
          /\ Chose(To("home"), TRUE)
    /\ UNCHANGED submitted

(* Another tab signs in or out, or gives up a session that cannot be renewed. *)
OtherTab(r) ==
    /\ r # who
    /\ who' = r
    /\ session' = IF session = "loading" THEN session ELSE r
    /\ joined' = (joined \/ signingOut)
    /\ UNCHANGED <<at, form, submitted, signingOut, leaving, asked, bounced, strayed>>

-----------------------------------------------------------------------------

EntryInit ==
    /\ who \in Roles \cup {"none"}
    /\ session = "loading"
    /\ at \in {To(p) : p \in Page \ Forms}
    /\ submitted = NotSent
    /\ form = "incomplete"
    /\ signingOut = FALSE
    /\ leaving = FALSE
    /\ asked = [page |-> at.page, dates |-> at.dates]
    /\ bounced = FALSE
    /\ strayed = FALSE
    /\ joined = FALSE

EntryNext ==
    \/ \E p \in Page : FollowLink(p)
    \/ \E f \in Forms : OpenForm(f) \/ SwitchForm(f)
    \/ \E a \in Address : Load(a)
    \/ FillIn
    \/ HandleSubmit
    \/ HandleSignOut
    \/ Hydrated
    \/ GuardRedirects
    \/ RedirectIfAuthenticated
    \/ \E r \in Roles : SubmitAnswered(r)
    \/ SubmitFails
    \/ SignOutAnswered
    \/ \E r \in Roles \cup {"none"} : OtherTab(r)

(* Effects run after every render; visitors, servers and other tabs owe      *)
(* nothing.                                                                  *)
EntryFairness ==
    /\ WF_entryVars(GuardRedirects)
    /\ WF_entryVars(RedirectIfAuthenticated)

EntrySpec == EntryInit /\ [][EntryNext]_entryVars /\ EntryFairness

-----------------------------------------------------------------------------
(* Properties *)

EntryTypeOK ==
    /\ who \in Roles \cup {"none"}
    /\ session \in Roles \cup {"none", "loading"}
    /\ at \in Address
    /\ at.next # "" => at.page \in Forms
    /\ form \in Roles \cup {"incomplete"}
    /\ submitted \in [on: BOOLEAN, next: Guarded \cup {""}, as: SUBSET Roles]
    /\ signingOut \in BOOLEAN
    /\ leaving \in BOOLEAN
    /\ asked \in [page: Page \ Forms, dates: BOOLEAN]
    /\ bounced \in BOOLEAN
    /\ strayed \in BOOLEAN
    /\ joined \in BOOLEAN

(* No redirect of a guard or of a form is due. *)
Settled ==
    /\ session = "none" => at.page \notin Guarded
    /\ session \in Roles => at.page \notin Forms

(* "A guarded route can round-trip": once a visitor is signed in they are on *)
(* the page they last chose, unless they went to the other form on the way   *)
(* or an old call's answer moved them; and with the dates they chose, unless *)
(* the guard found them signed out, which loses the dates.                   *)
LandsWhereAsked ==
    session \in Roles /\ Settled =>
        \/ strayed
        \/ /\ at.page = asked.page
           /\ at.dates = asked.dates \/ bounced

(* "The user is never stranded in a signed-in UI": whoever is signed in can  *)
(* sign out, unless the menu was left signing out by the user before them.   *)
SignOutIsOffered ==
    session \in Roles /\ at.page \notin Forms /\ ~leaving => ~signingOut \/ joined

Redirect == Hydrated \/ GuardRedirects \/ RedirectIfAuthenticated

(* Guards and forms never send a visitor round in circles: left alone, a tab *)
(* ends on a page that stays.                                               *)
RedirectsEnd == <>[][Redirect]_entryVars => <>[]Settled
=============================================================================
