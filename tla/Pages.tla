--------------------------------- MODULE Pages ---------------------------------
(***************************************************************************)
(* A browser tab of the frontend and the requests it has under way: the    *)
(* session of AuthProvider and ProtectedRoute, the pages the router shows, *)
(* and what a page shows of what was asked for.                            *)
(*                                                                         *)
(* The page shown lags behind the address, since AnimatedOutlet swaps them *)
(* when a timer ends the fade of the old one, but both read the address of *)
(* the moment.  A list ignores the answer to a request once it asks for    *)
(* something else or is unmounted.  A detail page ignores none, and stays  *)
(* the same instance when the address goes from one record to another.     *)
(*                                                                         *)
(* The pages are the dashboard, the two lists and a conversation's detail  *)
(* page; a ticket's does the same with the lists' parts exchanged and      *)
(* nothing to escalate.                                                    *)
(*                                                                         *)
(* A render and its effects are two steps: the router, the timer and the   *)
(* answers of requests wait for the effects of the last render.            *)
(***************************************************************************)
EXTENDS Naturals, Sequences, SequencesExt

CONSTANTS
  Users,
  Records,       \* the conversations, by id
  RecordsOf,     \* those of each user's tenant
  Filters,       \* the filters of the list of conversations
  NoFilter,      \* a list without search parameters
  MaxLogins,     \* bound on the tokens issued
  MaxRequests    \* requests under way at which the user waits

ASSUME PagesAssumption ==
  /\ RecordsOf \in [Users -> SUBSET Records]
  /\ NoFilter \in Filters
  /\ MaxLogins \in Nat /\ MaxRequests \in Nat

VARIABLES
  issued,      \* the users of the access tokens, which are numbered
  expired,     \* the tokens past their lifetime
  loggedOut,   \* the tokens somebody logged out with
  token,       \* the session's, which localStorage keeps, 0 without one
  signingIn,   \* the user whose login is under way, if any
  address,     \* the router's location
  view,        \* the page that is mounted
  pending,     \* whether the effects of the last render are still to run
  stage,       \* whether the page can be seen or has faded out
  fadingTo,    \* the page AnimatedOutlet's timer will show, if it is set
  returned,    \* whether the address came back to the page while that faded
  asked,       \* the dependencies the page's effect last ran for
  loading,     \* the list's flag
  shown,       \* what the page shows: the token and record or filter it was asked with
  failed,      \* whether the page's last load failed
  outOfOrder,  \* whether what is shown came after the answer to a newer request
  requests     \* under way, in the order they were sent

session == <<issued, expired, loggedOut, token, signingIn>>
outlet == <<stage, fadingTo, returned>>
page == <<view, asked, loading, shown, failed, outOfOrder>>
vars == <<session, address, pending, outlet, page, requests>>

Nothing == [token |-> 0]

Login == [name |-> "login"]
Home == [name |-> "home"]
List(f) == [name |-> "list", filter |-> f]
Tickets == [name |-> "tickets"]
Detail(r) == [name |-> "detail", record |-> r]

Addresses ==
  {Login, Home, Tickets} \cup {List(f) : f \in Filters} \cup {Detail(r) : r \in Records}

\* The pathname, which is all the router matches and AnimatedOutlet compares.
Path(a) == IF a.name = "list" THEN [name |-> "list"] ELSE a

NoPage == [name |-> "none"]

Init ==
  /\ issued = <<>> /\ expired = {} /\ loggedOut = {}
  /\ token = 0 /\ signingIn = {}
  /\ address = Login /\ view = Login
  /\ pending = FALSE /\ asked = Nothing
  /\ stage = "shown" /\ fadingTo = NoPage /\ returned = FALSE
  /\ loading = FALSE /\ shown = Nothing /\ failed = FALSE /\ outOfOrder = FALSE
  /\ requests = <<>>

-----------------------------------------------------------------------------
(* Mounting pages *)

\* The answers to rs will not be shown any more, though they still arrive.
Cancelled(rs) ==
  [i \in DOMAIN rs |-> [rs[i] EXCEPT !.live = FALSE, !.late = FALSE]]

\* v is on the screen, to be seen, and no timer is set.
Show(v) ==
  /\ view' = v /\ pending' = TRUE
  /\ stage' = "shown" /\ fadingTo' = NoPage /\ returned' = FALSE

MutantMount(v, rs) ==
  /\ Show(v)
  /\ requests' = rs
  /\ asked' = Nothing /\ loading' = FALSE /\ failed' = FALSE /\ outOfOrder' = FALSE
  /\ UNCHANGED shown

\* v is mounted in place of the page that is, with its state as at first.
Mount(v, rs) ==
  /\ Show(v)
  /\ requests' = Cancelled(rs)
  /\ asked' = Nothing /\ loading' = FALSE
  /\ shown' = Nothing /\ failed' = FALSE /\ outOfOrder' = FALSE

\* The router goes to a, while rs are under way.  Without a token every page
\* but the login page redirects there; that page has no outlet to fade out.
Go(a, rs) ==
  LET to == IF token' = 0 THEN Login ELSE a
  IN  /\ address' = to
      /\ IF (to = Login) = (view = Login)
         THEN /\ pending' = TRUE /\ requests' = rs
              /\ returned' = (stage = "exit" /\ Path(to) = view)
              /\ UNCHANGED <<stage, fadingTo, page>>
         ELSE Mount(Path(to), rs)

-----------------------------------------------------------------------------
(* The session *)

Patient == Len(requests) < MaxRequests

SubmitLogin(u) ==
  /\ ~pending /\ view = Login /\ signingIn = {}
  /\ Len(issued) < MaxLogins
  /\ signingIn' = {u}
  /\ UNCHANGED <<issued, expired, loggedOut, token, address, pending, outlet, page, requests>>

\* The token carries the user and the user's tenant.
GenerateToken(u) ==
  /\ issued' = Append(issued, u)
  /\ token' = Len(issued')

\* The answer sets the session and goes home, wherever the user is by now.
LoginAnswered ==
  /\ ~pending /\ Patient
  /\ \E u \in signingIn : GenerateToken(u)
  /\ signingIn' = {}
  /\ Go(Home, requests)
  /\ UNCHANGED <<expired, loggedOut>>

LoginFails ==
  /\ signingIn # {}
  /\ signingIn' = {}
  /\ UNCHANGED <<issued, expired, loggedOut, token, address, pending, outlet, page, requests>>

Logout ==
  /\ ~pending /\ view # Login
  /\ token' = 0
  /\ loggedOut' = loggedOut \cup {token}
  /\ Go(address, requests)
  /\ UNCHANGED <<issued, expired, signingIn>>

Expire(t) ==
  /\ t \in 1..Len(issued) /\ t \notin expired
  /\ expired' = expired \cup {t}
  /\ UNCHANGED <<issued, loggedOut, token, signingIn, address, pending, outlet, page, requests>>

\* The tab is reloaded: localStorage has the session, all else is gone.
Reload ==
  /\ signingIn' = {}
  /\ UNCHANGED <<issued, expired, loggedOut, token, address>>
  /\ Mount(Path(address), <<>>)

-----------------------------------------------------------------------------
(* The pages *)

Navigate(a) ==
  /\ ~pending /\ a # address /\ Patient
  /\ UNCHANGED session
  /\ Go(a, requests)

MutantFadeOut ==
  IF view = Path(address) THEN UNCHANGED <<stage, fadingTo>>
  ELSE stage' = "exit" /\ fadingTo' = Path(address)

\* The effect of AnimatedOutlet, whose cleanup has cleared the timer: a page
\* fades out unless the address is its own, and stays as faded as it is if the
\* address came back to it.
FadeOut ==
  IF view = Path(address) THEN fadingTo' = NoPage /\ UNCHANGED stage
  ELSE stage' = "exit" /\ fadingTo' = Path(address)

MutantSettle ==
  /\ ~pending /\ fadingTo # NoPage
  /\ IF view.name = "detail" /\ fadingTo.name = "detail"
     THEN /\ view' = fadingTo /\ pending' = TRUE /\ fadingTo' = NoPage
          /\ UNCHANGED <<stage, returned, asked, loading, shown, failed, outOfOrder, requests>>
     ELSE Mount(fadingTo, requests)
  /\ UNCHANGED <<session, address>>

\* The timer shows the page it was set for.  One detail page for another keeps
\* the state.
Settle ==
  /\ ~pending /\ fadingTo # NoPage
  /\ IF view.name = "detail" /\ fadingTo.name = "detail"
     THEN /\ Show(fadingTo)
          /\ UNCHANGED <<asked, loading, shown, failed, outOfOrder, requests>>
     ELSE Mount(fadingTo, requests)
  /\ UNCHANGED <<session, address>>

\* New translations come in, or another language is chosen: the detail page's
\* effect depends on them.
Translate ==
  /\ ~pending /\ view.name = "detail" /\ asked # Nothing /\ Patient
  /\ asked' = Nothing /\ pending' = TRUE
  /\ UNCHANGED <<session, address, outlet, view, loading, shown, failed, outOfOrder, requests>>

MutantFilter == IF address.name = "list" THEN address.filter ELSE ""

\* The lists read the search parameters of the address, also while they fade.
Filter == IF address.name = "list" THEN address.filter ELSE NoFilter

\* What the mounted page should show.
Wanted ==
  CASE view.name = "home" -> [token |-> token]
    [] view.name \in {"list", "tickets"} -> [token |-> token, filter |-> Filter]
    [] view.name = "detail" -> [token |-> token, record |-> view.record]
    [] OTHER -> Nothing

MutantDependencies == IF view.name = "detail" THEN [token |-> token] ELSE Wanted

\* What the effect of the mounted page depends on.  That of a detail page
\* depends on navigate too, which the router renews with the pathname.
Dependencies ==
  IF view.name = "detail"
  THEN [token |-> token, record |-> view.record, path |-> Path(address)]
  ELSE Wanted

Request(kind) == [kind |-> kind, for |-> Wanted, live |-> TRUE, late |-> FALSE]

MutantCancel == requests

\* The cleanup of the last run: a list ignores what is under way from now on.
Cancel == IF view.name = "detail" THEN requests ELSE Cancelled(requests)

RunEffects ==
  /\ pending
  /\ pending' = FALSE
  /\ FadeOut
  /\ IF Dependencies = asked THEN UNCHANGED <<asked, loading, failed, requests>>
     ELSE /\ asked' = Dependencies
          /\ requests' = IF view = Login THEN Cancel ELSE Append(Cancel, Request(view.name))
          /\ loading' = (view.name \in {"list", "tickets"})
          /\ failed' = FALSE
  /\ UNCHANGED <<session, address, returned, view, shown, outOfOrder>>

\* A reply or an assignment, or an escalation, for the record of the page's
\* address, whichever one it shows.
Act(kind) ==
  /\ ~pending /\ view.name = "detail" /\ shown # Nothing /\ Patient
  /\ requests' = Append(requests, Request(kind))
  /\ UNCHANGED <<session, address, pending, outlet, page>>

-----------------------------------------------------------------------------
(* Answers *)

Auth(for) == for.token \notin expired

\* The token names the tenant whose records can be found.
Found(for) == "record" \in DOMAIN for => for.record \in RecordsOf[issued[for.token]]

\* What is left under way when the answer of request i is there.
Others(i) ==
  RemoveAt([j \in 1..Len(requests) |->
             IF j < i /\ requests[j].live THEN [requests[j] EXCEPT !.late = TRUE] ELSE requests[j]], i)

\* What the answer shows is what was asked for, if its page still listens.
Shows(i) ==
  LET r == requests[i]
  IN  /\ r.kind # "escalate"
      /\ IF r.live
         THEN /\ shown' = r.for /\ loading' = FALSE
              /\ outOfOrder' = r.late
              /\ requests' = Others(i)
         ELSE /\ requests' = RemoveAt(requests, i)
              /\ UNCHANGED <<shown, loading, outOfOrder>>
      /\ UNCHANGED <<session, address, pending, outlet, view, asked, failed>>

\* A ticket was made: on to the tickets, also when its page is gone.
Escalated(i) ==
  /\ requests[i].kind = "escalate"
  /\ UNCHANGED session
  /\ Go(Tickets, RemoveAt(requests, i))

Succeeds(i) ==
  /\ ~pending /\ Auth(requests[i].for) /\ Found(requests[i].for)
  /\ Shows(i) \/ Escalated(i)

MutantListFails(i) ==
  /\ requests[i].kind \in {"home", "list", "tickets"}
  /\ failed' = (failed \/ requests[i].live)
  /\ requests' = RemoveAt(requests, i)
  /\ UNCHANGED <<session, address, pending, outlet, view, asked, loading, shown, outOfOrder>>

\* The list keeps its rows.
ListFails(i) ==
  /\ requests[i].kind \in {"home", "list", "tickets"}
  /\ failed' = (failed \/ requests[i].live)
  /\ loading' = (loading /\ ~requests[i].live)
  /\ requests' = RemoveAt(requests, i)
  /\ UNCHANGED <<session, address, pending, outlet, view, asked, shown, outOfOrder>>

\* A load that fails goes to the list, also when its page is gone.
DetailFails(i) ==
  /\ requests[i].kind = "detail"
  /\ UNCHANGED session
  /\ Go(List(NoFilter), RemoveAt(requests, i))

ActFails(i) ==
  /\ requests[i].kind \in {"act", "escalate"}
  /\ requests' = RemoveAt(requests, i)
  /\ UNCHANGED <<session, address, pending, outlet, page>>

Fails(i) == ~pending /\ (ListFails(i) \/ DetailFails(i) \/ ActFails(i))

Arrive(i) == i \in DOMAIN requests /\ (Succeeds(i) \/ Fails(i))

-----------------------------------------------------------------------------
Next ==
  \/ \E u \in Users : SubmitLogin(u)
  \/ LoginAnswered
  \/ LoginFails
  \/ Logout
  \/ \E t \in DOMAIN issued : Expire(t)
  \/ Reload
  \/ \E a \in Addresses : Navigate(a)
  \/ Settle
  \/ Translate
  \/ RunEffects
  \/ \E kind \in {"act", "escalate"} : Act(kind)
  \/ \E i \in DOMAIN requests : Arrive(i)

\* Renders, timers and requests come to an end; the user owes nothing.  Only
\* another address restarts AnimatedOutlet's timer, so it ends however often the
\* page renders meanwhile.
Fairness ==
  /\ WF_vars(RunEffects)
  /\ SF_vars(Settle)
  /\ WF_vars(Arrive(1))

Spec == Init /\ [][Next]_vars
FairSpec == Spec /\ Fairness

-----------------------------------------------------------------------------
Tokens == 0..Len(issued)

Contents ==
  {Nothing}
    \cup [token : Tokens] \cup [token : Tokens, filter : Filters]
    \cup [token : Tokens, record : Records]

TypeOK ==
  /\ issued \in Seq(Users) /\ Len(issued) <= MaxLogins
  /\ expired \subseteq Tokens /\ loggedOut \subseteq Tokens
  /\ token \in Tokens /\ signingIn \subseteq Users
  /\ address \in Addresses /\ view \in {Path(a) : a \in Addresses}
  /\ pending \in BOOLEAN /\ loading \in BOOLEAN
  /\ failed \in BOOLEAN /\ outOfOrder \in BOOLEAN
  /\ stage \in {"shown", "exit"} /\ returned \in BOOLEAN
  /\ fadingTo \in {NoPage} \cup {Path(a) : a \in Addresses}
  /\ asked \in Contents \cup
       [token : Tokens, record : Records, path : {Path(a) : a \in Addresses}]
  /\ shown \in Contents
  /\ requests \in Seq([kind : {"home", "list", "tickets", "detail", "act", "escalate"},
                       for : Contents, live : BOOLEAN, late : BOOLEAN])
  /\ Len(requests) <= MaxRequests + 2

UnderWay == \E i \in DOMAIN requests : requests[i].live

\* A list or the dashboard that says it is done shows what the session's user
\* asks for now, however often filter, page or user changed while answers were
\* under way.  (After a load that failed it keeps what it had.)
ListShowsWhatIsAsked ==
  ~pending /\ ~failed =>
    /\ view.name \in {"list", "tickets"} /\ ~loading => shown = Wanted
    /\ view.name = "home" /\ ~UnderWay => shown = Wanted

\* A detail page whose requests have been answered shows its address's record,
\* so that a reply or an assignment goes to the record on the screen, unless
\* the answer to a newer request came before that to an older one.
WrongDetailNeedsAnOvertaking ==
  ~pending /\ view.name = "detail" /\ view = address /\ ~UnderWay /\ ~outOfOrder =>
    shown = Wanted

\* Nothing that was loaded in a session is shown, or may still be shown, once
\* the user has logged out, whatever was under way.
LogoutForgets ==
  /\ shown # Nothing => shown.token \notin loggedOut
  /\ \A i \in DOMAIN requests : requests[i].live => requests[i].for.token \notin loggedOut

\* A list does not stay loading, even when its request fails or is given up.
LoadingEnds == loading ~> ~loading \/ pending

\* A page that is swapped in is the one of the address at that moment, and can
\* be seen, however often the address changed and changed back since the fade
\* began: no timer set for an earlier address is left to show its page.
SwapsToTheAddress ==
  [][view' # view => view' = Path(address') /\ stage' = "shown"]_vars

\* A tab whose address no longer changes ends on its page, for good, and the page
\* can be seen, unless the address came back to it while it faded.
AddressIsShown ==
  \/ []<><<address' # address>>_vars
  \/ <>[](view = Path(address) /\ (stage = "exit" => returned))

=============================================================================
