------------------------------ MODULE PagesProofs ------------------------------
(***************************************************************************)
(* What is proved of a tab's session and pages, for any users, records,    *)
(* filters and number of logins and of requests under way.                 *)
(***************************************************************************)
EXTENDS Pages, SequenceTheorems, TLAPS

-----------------------------------------------------------------------------
(* Sequences of requests *)

LEMMA RemoveAtProperties ==
  ASSUME NEW S, NEW s \in Seq(S), NEW i \in 1..Len(s)
  PROVE  /\ RemoveAt(s, i) \in Seq(S)
         /\ Len(RemoveAt(s, i)) = Len(s) - 1
         /\ DOMAIN RemoveAt(s, i) = 1..Len(s) - 1
         /\ \A j \in 1..Len(s) - 1 :
              RemoveAt(s, i)[j] = IF j < i THEN s[j] ELSE s[j + 1]
<1> DEFINE front == SubSeq(s, 1, i - 1)
           back == SubSeq(s, i + 1, Len(s))
<1>1. Len(s) \in Nat /\ \A j \in 1..Len(s) : s[j] \in S
  BY LenProperties, ElementOfSeq
<1>2. /\ front \in Seq(S) /\ Len(front) = i - 1
      /\ \A j \in 1..i - 1 : front[j] = s[j]
  <2>1. \A j \in 1..i - 1 : s[j] \in S
    BY <1>1
  <2>2. 1 \in Int /\ i - 1 \in Int
    BY <1>1
  <2>3. /\ front \in Seq(S)
        /\ Len(front) = IF 1 <= i - 1 THEN i - 1 - 1 + 1 ELSE 0
        /\ \A j \in 1..i - 1 - 1 + 1 : front[j] = s[1 + j - 1]
    BY <2>1, <2>2, SubSeqProperties
  <2> HIDE DEF front
  <2>4. QED
    BY <1>1, <2>3
<1>3. /\ back \in Seq(S) /\ Len(back) = Len(s) - i
      /\ \A j \in 1..Len(s) - i : back[j] = s[i + j]
  <2>1. \A j \in i + 1..Len(s) : s[j] \in S
    BY <1>1
  <2>2. i + 1 \in Int /\ Len(s) \in Int
    BY <1>1
  <2>3. /\ back \in Seq(S)
        /\ Len(back) = IF i + 1 <= Len(s) THEN Len(s) - (i + 1) + 1 ELSE 0
        /\ \A j \in 1..Len(s) - (i + 1) + 1 : back[j] = s[i + 1 + j - 1]
    BY <2>1, <2>2, SubSeqProperties
  <2> HIDE DEF back
  <2>4. QED
    BY <1>1, <2>3
<1>4. RemoveAt(s, i) = front \o back
  BY DEF RemoveAt
<1> HIDE DEF front, back
<1>5. /\ front \o back \in Seq(S)
      /\ Len(front \o back) = Len(front) + Len(back)
      /\ \A j \in 1..Len(front) + Len(back) :
           (front \o back)[j] = IF j <= Len(front) THEN front[j]
                                ELSE back[j - Len(front)]
  BY <1>2, <1>3, ConcatProperties
<1>6. Len(front) + Len(back) = Len(s) - 1
  BY <1>1, <1>2, <1>3
<1>7. ASSUME NEW j \in 1..Len(s) - 1
      PROVE  (front \o back)[j] = IF j < i THEN s[j] ELSE s[j + 1]
  <2>1. CASE j < i
    BY <1>1, <1>2, <1>5, <1>6, <2>1
  <2>2. CASE j >= i
    <3>1. j - (i - 1) \in 1..Len(s) - i /\ i + (j - (i - 1)) = j + 1
      BY <1>1, <2>2
    <3>2. (front \o back)[j] = back[j - (i - 1)]
      BY <1>1, <1>2, <1>5, <1>6, <2>2
    <3>3. QED
      BY <1>1, <1>3, <2>2, <3>1, <3>2
  <2>3. j < i \/ j >= i
    BY <1>1
  <2>4. QED
    BY <2>1, <2>2, <2>3
<1>8. DOMAIN (front \o back) = 1..Len(s) - 1
  BY <1>5, <1>6, LenProperties
<1>9. QED
  BY <1>4, <1>5, <1>6, <1>7, <1>8


-----------------------------------------------------------------------------
(* Addresses, and what pages depend on *)

Paths == {Path(a) : a \in Addresses}
Kinds == {"home", "list", "tickets", "detail", "act", "escalate"}
RequestsFor(C) == [kind : Kinds, for : C, live : BOOLEAN, late : BOOLEAN]
RequestType == RequestsFor(Contents)
DetailAsked == [token : Tokens, record : Records, path : Paths]

LEMMA PathName == \A a \in Addresses : Path(a).name = a.name
BY DEF Addresses, Path, Login, Home, Tickets, List, Detail

LEMMA AddressNames ==
  ASSUME NEW a \in Addresses
  PROVE  /\ a.name \in {"login", "home", "list", "tickets", "detail"}
         /\ a.name = "login" <=> a = Login
         /\ a.name = "home" <=> a = Home
         /\ a.name = "tickets" <=> a = Tickets
         /\ a.name = "list" => a.filter \in Filters /\ a = List(a.filter)
         /\ a.name = "detail" => a.record \in Records /\ a = Detail(a.record)
         /\ a.name # "list" => Path(a) = a
BY DEF Addresses, Path, Login, Home, Tickets, List, Detail

LEMMA PathNames ==
  ASSUME NEW v \in Paths
  PROVE  /\ v.name \in {"login", "home", "list", "tickets", "detail"}
         /\ v.name = "login" <=> v = Login
         /\ v.name = "home" <=> v = Home
         /\ v.name = "list" <=> v = [name |-> "list"]
         /\ v.name = "tickets" <=> v = Tickets
         /\ v.name = "detail" => v.record \in Records /\ v = Detail(v.record)
<1>1. PICK a \in Addresses : v = Path(a)
  BY DEF Paths
<1>2. CASE a.name = "list"
  BY <1>1, <1>2 DEF Path, Login, Home, Tickets, Detail
<1>3. CASE a.name # "list"
  BY <1>1, <1>3, AddressNames DEF Path
<1>4. QED
  BY <1>2, <1>3

LEMMA FilterType == address \in Addresses => Filter \in Filters
BY AddressNames, PagesAssumption DEF Filter

LEMMA WantedType ==
  ASSUME address \in Addresses, view \in Paths, token \in Tokens
  PROVE  Wanted \in Contents /\ (view # Login => Wanted.token = token)
<1>1. CASE view.name = "home"
  BY <1>1, PathNames DEF Wanted, Contents
<1>2. CASE view.name \in {"list", "tickets"}
  BY <1>2, PathNames, FilterType DEF Wanted, Contents
<1>3. CASE view.name = "detail"
  BY <1>3, PathNames DEF Wanted, Contents
<1>4. CASE view.name = "login"
  BY <1>4, PathNames DEF Wanted, Contents
<1>5. QED
  BY <1>1, <1>2, <1>3, <1>4, PathNames

\* Where a page's effect depends on what it shows and nothing else.
LEMMA DependenciesOfOthers ==
  view.name # "detail" => Dependencies = Wanted
BY DEF Dependencies, Wanted

LEMMA DependenciesOfDetail ==
  view.name = "detail" =>
    /\ Dependencies = [token |-> token, record |-> view.record, path |-> Path(address)]
    /\ Wanted = [token |-> token, record |-> view.record]
BY DEF Dependencies, Wanted

LEMMA DependenciesType ==
  ASSUME address \in Addresses, view \in Paths, token \in Tokens
  PROVE  Dependencies \in Contents \cup DetailAsked
<1>1. CASE view.name = "detail"
  BY <1>1, PathNames, DependenciesOfDetail DEF DetailAsked, Paths
<1>2. CASE view.name # "detail"
  BY <1>2, WantedType, DependenciesOfOthers
<1>3. QED
  BY <1>1, <1>2

LEMMA ContentsToken == \A c \in Contents : c.token \in Tokens
BY DEF Contents, Nothing, Tokens


-----------------------------------------------------------------------------
(* The inductive invariant *)

Flags ==
  /\ pending \in BOOLEAN /\ loading \in BOOLEAN /\ failed \in BOOLEAN
  /\ outOfOrder \in BOOLEAN /\ returned \in BOOLEAN

SessionType ==
  /\ issued \in Seq(Users) /\ Len(issued) <= MaxLogins
  /\ expired \subseteq Tokens /\ loggedOut \subseteq Tokens
  /\ token \in Tokens /\ signingIn \subseteq Users
  /\ signingIn # {} => Len(issued) < MaxLogins
  /\ address \in Addresses /\ view \in Paths

PageType ==
  /\ asked \in Contents \cup DetailAsked
  /\ shown \in Contents
  /\ requests \in Seq(RequestType)

\* The session's token is not logged out with, nobody without one is on a page
\* but the login page, and that page is where its address is.
SessionInv ==
  /\ 0 \notin loggedOut /\ token \notin loggedOut
  /\ token = 0 => view = Login
  /\ address = Login <=> view = Login

\* How many requests are to come before the page has settled.
Due ==
  (IF pending /\ view # Login /\ Dependencies # asked THEN 1 ELSE 0)
    + (IF view # Path(address) THEN 1 ELSE 0)

\* Where the answers that go elsewhere go to, and where they leave the user.
Plain == {Login, List(NoFilter), Tickets}

RoomInv == Len(requests) + Due <= MaxRequests + (IF address \in Plain THEN 2 ELSE 1)

SettledInv == ~pending => asked = Dependencies

\* What a list will show was asked for by the last run of its effect, and it is
\* shown unless it is still to come.
ListInv ==
  view.name \in {"home", "list", "tickets"} =>
    /\ \A i \in DOMAIN requests : requests[i].live =>
         requests[i].kind = view.name /\ requests[i].for = asked
    /\ asked # Nothing /\ ~failed =>
         IF view.name = "home" THEN UnderWay \/ shown = asked ELSE loading \/ shown = asked

\* Request i is the load of the detail page's last run, and none that was
\* answered is newer.
LastLoad(i) ==
  /\ requests[i].kind = "detail" /\ requests[i].live /\ ~requests[i].late
  /\ requests[i].for = Wanted
  /\ \A j \in DOMAIN requests : j > i /\ requests[j].live => requests[j].for = Wanted

\* It is answered, and nothing came after it but what was asked for since or
\* what is known to be late.
Answered ==
  /\ outOfOrder \/ shown = Wanted
  /\ \A j \in DOMAIN requests : requests[j].live => requests[j].late \/ requests[j].for = Wanted

DetailInv ==
  view.name = "detail" /\ view = address /\ asked = Dependencies =>
    Answered \/ \E i \in DOMAIN requests : LastLoad(i)

\* Once the effects have run, the timer is set for the page of the address, if
\* that is not the one shown.
OutletInv ==
  /\ stage \in {"shown", "exit"} /\ fadingTo \in {NoPage} \cup Paths
  /\ ~pending => fadingTo = IF view = Path(address) THEN NoPage ELSE Path(address)

PagesInv ==
  /\ SessionType /\ PageType /\ SessionInv /\ RoomInv
  /\ SettledInv /\ ListInv /\ DetailInv /\ LogoutForgets

LEMMA RequestsAt ==
  ASSUME PageType
  PROVE  /\ Len(requests) \in Nat /\ DOMAIN requests = 1..Len(requests)
         /\ \A i \in DOMAIN requests : requests[i] \in RequestType
BY LenProperties, ElementOfSeq DEF PageType

LEMMA InitPages == Init => PagesInv
<1> SUFFICES ASSUME Init PROVE PagesInv
  OBVIOUS
<1>1. Login \in Addresses /\ Path(Login) = Login /\ Login \in Paths
  BY DEF Addresses, Path, Login, Paths
<1>2. Len(issued) = 0 /\ Len(requests) = 0 /\ issued \in Seq(Users)
      /\ requests \in Seq(RequestType) /\ DOMAIN requests = {}
  BY EmptySeq DEF Init
<1>3. view.name = "login" /\ address.name = "login"
  BY DEF Init, Login
<1>4. SessionType /\ PageType
  BY <1>1, <1>2, PagesAssumption DEF Init, SessionType, PageType, Tokens, Contents
<1>5. RoomInv
  BY <1>1, <1>2, <1>3, PagesAssumption DEF Init, RoomInv, Due, Plain
<1>6. SettledInv
  BY <1>3 DEF Init, SettledInv, Dependencies, Wanted
<1>7. SessionInv /\ ListInv /\ DetailInv /\ LogoutForgets
  BY <1>2, <1>3 DEF Init, SessionInv, ListInv, DetailInv, LogoutForgets
<1>8. QED
  BY <1>4, <1>5, <1>6, <1>7 DEF PagesInv

LEMMA CancelledProperties ==
  ASSUME NEW C, NEW rs \in Seq(RequestsFor(C))
  PROVE  /\ Cancelled(rs) \in Seq(RequestsFor(C))
         /\ Len(Cancelled(rs)) = Len(rs)
         /\ \A i \in DOMAIN Cancelled(rs) : ~Cancelled(rs)[i].live
<1>1. DOMAIN rs = 1..Len(rs) /\ Len(rs) \in Nat
      /\ \A i \in 1..Len(rs) : rs[i] \in RequestsFor(C)
  BY LenProperties, ElementOfSeq
<1> DEFINE E(i) == [rs[i] EXCEPT !.live = FALSE, !.late = FALSE]
<1>2. \A i \in 1..Len(rs) : E(i) \in RequestsFor(C) /\ ~E(i).live
  BY <1>1 DEF RequestsFor
<1>3. Cancelled(rs) = [i \in 1..Len(rs) |-> E(i)]
  BY <1>1 DEF Cancelled
<1> HIDE DEF E
<1>4. Cancelled(rs) \in Seq(RequestsFor(C))
  BY <1>1, <1>2, <1>3, IsASeq
<1>5. DOMAIN Cancelled(rs) = 1..Len(rs) /\ \A i \in 1..Len(rs) : Cancelled(rs)[i] = E(i)
  BY <1>3
<1>6. Len(Cancelled(rs)) = Len(rs)
  BY <1>1, <1>4, <1>5, LenProperties
<1>7. QED
  BY <1>2, <1>4, <1>5, <1>6

\* A token is added, or none: what was of its type still is.
LEMMA MoreTokens ==
  ASSUME Tokens \subseteq Tokens'
  PROVE  Contents \subseteq Contents' /\ DetailAsked \subseteq DetailAsked'
         /\ RequestType \subseteq RequestType'
<1>1. Contents \subseteq Contents'
  BY DEF Contents
<1>2. DetailAsked \subseteq DetailAsked'
  BY DEF DetailAsked
<1>3. QED
  BY <1>1, <1>2 DEF RequestType, RequestsFor


-----------------------------------------------------------------------------
(* What mounting a page and going to an address keep *)

Room(rs) ==
  Len(rs) + Due' <= MaxRequests + (IF address' \in Plain THEN 2 ELSE 1)

\* A page is mounted with nothing shown, and nothing under way that will be.
LEMMA MountKeeps ==
  ASSUME NEW v, NEW rs \in Seq(RequestType'), Mount(v, rs),
         SessionType', SessionInv', Room(rs)
  PROVE  PagesInv'
<1>1. /\ view' = v /\ pending' = TRUE /\ requests' = Cancelled(rs)
      /\ asked' = Nothing /\ shown' = Nothing
  BY DEF Mount, Show
<1>2. /\ Cancelled(rs) \in Seq(RequestType') /\ Len(Cancelled(rs)) = Len(rs)
      /\ \A i \in DOMAIN Cancelled(rs) : ~Cancelled(rs)[i].live
  BY CancelledProperties DEF RequestType
<1>3. PageType'
  BY <1>1, <1>2 DEF PageType, Contents
<1>4. RoomInv' /\ SettledInv'
  BY <1>1, <1>2 DEF Room, RoomInv, SettledInv
<1>5. ListInv' /\ LogoutForgets'
  BY <1>1, <1>2 DEF ListInv, LogoutForgets
<1>6. DetailInv'
  <2>1. (view.name = "detail")' => Dependencies' # Nothing
    <3>1. ASSUME (view.name = "detail")'
          PROVE  Dependencies' = [token |-> token', record |-> view'.record,
                                  path |-> Path(address')]
      BY <3>1 DEF Dependencies
    <3>2. QED
      BY <3>1 DEF Nothing
  <2>2. QED
    BY <1>1, <2>1 DEF DetailInv
<1>7. QED
  BY <1>3, <1>4, <1>5, <1>6 DEF PagesInv


\* Of requests, rs has only those that are there, and, where a list waits for
\* one, that one.
Among(rs) ==
  /\ rs \in Seq(RequestType)
  /\ \A i \in DOMAIN rs : \E k \in DOMAIN requests : rs[i] = requests[k]
  /\ view.name \in {"home", "list", "tickets"} =>
       \A k \in DOMAIN requests : requests[k].live => \E i \in DOMAIN rs : rs[i] = requests[k]

LEMMA AllAreAmong == ASSUME PageType PROVE Among(requests)
BY DEF PageType, Among

\* The session as a step may leave it: logging out leaves its page.
SessionStep ==
  /\ issued' \in Seq(Users) /\ Len(issued') <= MaxLogins
  /\ Tokens \subseteq Tokens'
  /\ expired' \subseteq Tokens' /\ loggedOut' \subseteq Tokens'
  /\ token' \in Tokens' /\ signingIn' \subseteq Users
  /\ signingIn' # {} => Len(issued') < MaxLogins
  /\ 0 \notin loggedOut' /\ token' \notin loggedOut'
  /\ loggedOut' = loggedOut \/ (token' = 0 /\ view # Login)

LEMMA GoKeeps ==
  ASSUME PagesInv, NEW a \in Addresses, NEW rs, Go(a, rs), SessionStep, Among(rs), Room(rs),
         view.name = "detail" /\ view = address' => asked # Dependencies'
  PROVE  PagesInv'
<1> DEFINE to == IF token' = 0 THEN Login ELSE a
<1>1. /\ address' = to
      /\ IF (to = Login) = (view = Login)
         THEN /\ pending' = TRUE /\ requests' = rs
              /\ UNCHANGED <<view, asked, loading, shown, failed, outOfOrder>>
         ELSE Mount(Path(to), rs)
  BY DEF Go, page
<1>2. to \in Addresses /\ Path(to) \in Paths
  BY DEF Addresses, Paths
<1>3. Path(to) = Login <=> to = Login
  BY <1>2, PathName, AddressNames DEF Path, Login
<1>4. token' = 0 => to = Login
  OBVIOUS
<1> HIDE DEF to
<1>5. rs \in Seq(RequestType')
  BY MoreTokens, SeqMonotonic DEF SessionStep, Among
<1>6. CASE (to = Login) = (view = Login)
  <2>1. /\ pending' = TRUE /\ requests' = rs
        /\ UNCHANGED <<view, asked, loading, shown, failed, outOfOrder>>
    BY <1>1, <1>6
  <2>2. SessionType'
    BY <1>1, <1>2, <2>1 DEF PagesInv, SessionType, SessionStep
  <2>3. PageType'
    BY <1>5, <2>1, MoreTokens DEF PagesInv, PageType, SessionStep
  <2>4. SessionInv'
    BY <1>1, <1>4, <1>6, <2>1 DEF SessionInv, SessionStep
  <2>5. RoomInv' /\ SettledInv'
    BY <2>1 DEF Room, RoomInv, SettledInv
  <2>6. ListInv'
    <3>1. view.name \in {"home", "list", "tickets"} => \A i \in DOMAIN rs : rs[i].live =>
            rs[i].kind = view.name /\ rs[i].for = asked
      BY DEF PagesInv, ListInv, Among
    <3>2. view.name = "home" /\ UnderWay => \E i \in DOMAIN rs : rs[i].live
      BY DEF UnderWay, Among
    <3>3. QED
      BY <2>1, <3>1, <3>2 DEF PagesInv, ListInv, UnderWay
  <2>7. DetailInv'
    BY <2>1 DEF DetailInv
  <2>8. LogoutForgets'
    <3>1. loggedOut' = loggedOut
      BY <1>4, <1>6 DEF SessionStep
    <3>2. QED
      BY <2>1, <3>1 DEF PagesInv, LogoutForgets, Among
  <2>9. QED
    BY <2>2, <2>3, <2>4, <2>5, <2>6, <2>7, <2>8 DEF PagesInv
<1>7. CASE (to = Login) # (view = Login)
  <2>1. Mount(Path(to), rs)
    BY <1>1, <1>7
  <2>2. view' = Path(to)
    BY <2>1 DEF Mount, Show
  <2>3. SessionType'
    BY <1>1, <1>2, <2>2 DEF SessionType, SessionStep
  <2>4. SessionInv'
    BY <1>1, <1>3, <1>4, <2>2 DEF SessionInv, SessionStep
  <2>5. QED
    BY <1>5, <2>1, <2>3, <2>4, MountKeeps
<1>8. QED
  BY <1>6, <1>7


-----------------------------------------------------------------------------
(* The session *)

LEMMA DueBounds ==
  /\ Due' \in 0..2
  /\ view' = Path(address') => Due' \in 0..1
  /\ view' = Login /\ address' = Login => Due' = 0
  /\ view # Path(address) /\ ~pending => Due = 1
BY DEF Due, Path, Login

LEMMA SameSession ==
  ASSUME PagesInv, UNCHANGED session PROVE SessionStep
BY DEF PagesInv, SessionType, SessionInv, session, SessionStep, Tokens

LEMMA OnlySession ==
  ASSUME PagesInv, UNCHANGED <<issued, loggedOut, token, address, pending, page, requests>>,
         expired' \subseteq Tokens, signingIn' \subseteq Users,
         signingIn' # {} => Len(issued) < MaxLogins
  PROVE  PagesInv'
<1>1. UNCHANGED <<view, asked, loading, shown, failed, outOfOrder>>
  BY DEF page
<1>2. Tokens' = Tokens /\ Contents' = Contents /\ RequestType' = RequestType
      /\ DetailAsked' = DetailAsked
  BY DEF Tokens, Contents, RequestType, RequestsFor, DetailAsked
<1>3. Dependencies' = Dependencies /\ Wanted' = Wanted
  BY <1>1 DEF Dependencies, Wanted, Filter
<1>4. SessionType' /\ PageType' /\ SessionInv' /\ RoomInv'
  BY <1>1, <1>2, <1>3
  DEF PagesInv, SessionType, PageType, SessionInv, RoomInv, Due
<1>5. SettledInv' /\ ListInv' /\ LogoutForgets'
  BY <1>1, <1>3 DEF PagesInv, SettledInv, ListInv, UnderWay, LogoutForgets
<1>6. DetailInv'
  BY <1>1, <1>3 DEF PagesInv, DetailInv, Answered, LastLoad
<1>7. QED
  BY <1>4, <1>5, <1>6 DEF PagesInv

LEMMA SubmitLoginKeeps ==
  ASSUME PagesInv, NEW u \in Users, SubmitLogin(u) PROVE PagesInv'
BY OnlySession DEF SubmitLogin, PagesInv, SessionType

LEMMA LoginFailsKeeps == ASSUME PagesInv, LoginFails PROVE PagesInv'
BY OnlySession DEF LoginFails, PagesInv, SessionType

LEMMA ExpireKeeps ==
  ASSUME PagesInv, NEW t, Expire(t) PROVE PagesInv'
<1>1. t \in Tokens
  BY DEF Expire, Tokens, PagesInv, SessionType
<1>2. QED
  BY <1>1, OnlySession DEF Expire, PagesInv, SessionType

LEMMA LoginAnsweredKeeps == ASSUME PagesInv, LoginAnswered PROVE PagesInv'
<1>1. PICK u \in signingIn : GenerateToken(u)
  BY DEF LoginAnswered
<1>2. u \in Users /\ issued \in Seq(Users) /\ Len(issued) < MaxLogins
  BY DEF PagesInv, SessionType
<1>3. issued' = Append(issued, u) /\ issued' \in Seq(Users)
      /\ Len(issued') = Len(issued) + 1 /\ token' = Len(issued) + 1 /\ Len(issued) \in Nat
  BY <1>1, <1>2, AppendProperties, LenProperties DEF GenerateToken
<1>4. SessionStep
  BY <1>2, <1>3, PagesAssumption
  DEF LoginAnswered, PagesInv, SessionType, SessionInv, SessionStep, Tokens
<1>5. Home \in Addresses /\ Go(Home, requests)
  BY DEF LoginAnswered, Addresses
<1>6. Room(requests)
  BY DueBounds, RequestsAt, PagesAssumption DEF LoginAnswered, Patient, Room, PagesInv
<1>7. address' \in {Home, Login}
  BY <1>5 DEF Go
<1>8. ~(view.name = "detail" /\ view = address')
  BY <1>7 DEF Home, Login
<1>9. QED
  BY <1>4, <1>5, <1>6, <1>8, AllAreAmong, GoKeeps DEF PagesInv

LEMMA LogoutKeeps == ASSUME PagesInv, Logout PROVE PagesInv'
<1>1. Go(address, requests) /\ token' = 0 /\ view # Login
      /\ loggedOut' = loggedOut \cup {token} /\ UNCHANGED <<issued, expired, signingIn>>
  BY DEF Logout
<1>2. SessionStep
  BY <1>1 DEF PagesInv, SessionType, SessionInv, SessionStep, Tokens
<1>3. Login = Path(Login) /\ address' = Login /\ view' = Login
  BY <1>1 DEF Go, Mount, Show, Path, Login
<1>4. Room(requests)
  BY <1>3, DueBounds, RequestsAt, PagesAssumption
  DEF Room, PagesInv, RoomInv, Due, Plain
<1>5. ~(view.name = "detail" /\ view = address')
  BY <1>1, <1>3
<1>6. QED
  BY <1>1, <1>2, <1>4, <1>5, AllAreAmong, GoKeeps DEF PagesInv, SessionType

LEMMA ReloadKeeps == ASSUME PagesInv, Reload PROVE PagesInv'
<1>1. Mount(Path(address), <<>>) /\ signingIn' = {}
      /\ UNCHANGED <<issued, expired, loggedOut, token, address>>
  BY DEF Reload
<1>2. view' = Path(address)
  BY <1>1 DEF Mount, Show
<1>3. Path(address) \in Paths /\ (Path(address) = Login <=> address = Login)
  BY PathName, AddressNames DEF PagesInv, SessionType, Paths, Path, Login
<1>4. SessionType' /\ SessionInv'
  BY <1>1, <1>2, <1>3 DEF PagesInv, SessionType, SessionInv, Tokens
<1>5. <<>> \in Seq(RequestType') /\ Len(<<>>) = 0
  BY EmptySeq
<1>6. Room(<<>>)
  <2>1. Due' = 0 \/ Due' = 1
    BY <1>1, <1>2, DueBounds
  <2>2. \A n, d : n = 0 /\ (d = 0 \/ d = 1) =>
          n + d <= MaxRequests + 1 /\ n + d <= MaxRequests + 2
    BY PagesAssumption
  <2>3. QED
    BY <1>5, <2>1, <2>2 DEF Room
<1>7. QED
  BY <1>1, <1>4, <1>5, <1>6, MountKeeps


-----------------------------------------------------------------------------
(* The pages *)

LEMMA DetailViews ==
  ASSUME PagesInv, view.name = "detail"
  PROVE  view # Login /\ view.record \in Records /\ view = Detail(view.record)
         /\ token # 0 /\ address # Login
BY PathNames DEF PagesInv, SessionType, SessionInv, Login

LEMMA NavigateKeeps ==
  ASSUME PagesInv, NEW a \in Addresses, Navigate(a) PROVE PagesInv'
<1>1. ~pending /\ a # address /\ Patient /\ UNCHANGED session /\ Go(a, requests)
  BY DEF Navigate
<1>2. SessionStep
  BY <1>1, SameSession
<1>3. Room(requests)
  BY <1>1, DueBounds, RequestsAt, PagesAssumption DEF Patient, Room, PagesInv
<1>4. view.name = "detail" /\ view = address' => asked # Dependencies'
  <2> SUFFICES ASSUME view.name = "detail", view = address', asked = Dependencies'
               PROVE  FALSE
    OBVIOUS
  <2>1. view # Login /\ token' # 0
    BY <1>1, DetailViews DEF session
  <2>2. address' = a /\ view' = view
    <3>1. address' = a
      BY <1>1, <2>1 DEF Go
    <3>2. QED
      BY <1>1, <2>1, <3>1 DEF Go, page
  <2>3. asked = Dependencies
    BY <1>1 DEF PagesInv, SettledInv
  <2>4. Dependencies.path = Path(address)
    BY DependenciesOfDetail
  <2>5. Dependencies'.path = Path(a)
    BY <2>2 DEF Dependencies
  <2>6. Path(address) = a
    BY <2>2, <2>3, <2>4, <2>5, AddressNames
  <2>7. address = a
    BY <2>2, <2>6, PathName, AddressNames DEF PagesInv, SessionType
  <2>8. QED
    BY <1>1, <2>7
<1>5. QED
  BY <1>1, <1>2, <1>3, <1>4, AllAreAmong, GoKeeps DEF PagesInv

LEMMA SettleTarget ==
  ASSUME PagesInv, OutletInv, Settle PROVE fadingTo = Path(address) /\ view # Path(address)
BY DEF Settle, OutletInv

LEMMA SettleKeeps == ASSUME PagesInv, OutletInv, Settle PROVE PagesInv'
<1>1. /\ ~pending /\ view # Path(address) /\ fadingTo = Path(address)
      /\ UNCHANGED <<session, address>>
  BY SettleTarget DEF Settle
<1>2. UNCHANGED <<issued, expired, loggedOut, token, signingIn>> /\ Tokens' = Tokens
      /\ Contents' = Contents /\ RequestType' = RequestType /\ DetailAsked' = DetailAsked
  BY <1>1 DEF session, Tokens, Contents, RequestType, RequestsFor, DetailAsked
<1>3. Due = 1 /\ Path(address) \in Paths /\ (Path(address) = Login <=> address = Login)
  BY <1>1, DueBounds, PathName, AddressNames
  DEF PagesInv, SessionType, Paths, Path, Login
<1>4. CASE view.name = "detail" /\ address.name = "detail"
  <2>1. view' = address /\ pending' = TRUE
        /\ UNCHANGED <<asked, loading, shown, failed, outOfOrder, requests>>
    <3>1. fadingTo = address
      BY <1>1, <1>4, AddressNames DEF PagesInv, SessionType
    <3>2. QED
      BY <1>4, <3>1 DEF Settle, Show
  <2>2. Path(address) = address /\ address # Login
    BY <1>4, DetailViews, AddressNames DEF PagesInv, SessionType
  <2>3. SessionType' /\ PageType' /\ SessionInv'
    BY <1>1, <1>2, <1>3, <2>1, <2>2, DetailViews, <1>4
    DEF PagesInv, SessionType, PageType, SessionInv
  <2>4. RoomInv'
    BY <1>1, <1>3, <2>1, <2>2, DueBounds, RequestsAt, PagesAssumption
    DEF PagesInv, RoomInv
  <2>5. SettledInv' /\ ListInv' /\ LogoutForgets'
    BY <1>2, <1>4, <2>1 DEF PagesInv, SettledInv, ListInv, LogoutForgets
  <2>6. asked # Dependencies'
    <3>1. asked = [token |-> token, record |-> view.record, path |-> Path(address)]
      BY <1>1, <1>4, DependenciesOfDetail DEF PagesInv, SettledInv
    <3>2. Dependencies' = [token |-> token', record |-> address.record,
                           path |-> Path(address')]
      BY <1>4, <2>1 DEF Dependencies
    <3>3. view = Detail(view.record) /\ address = Detail(address.record)
      BY <1>4, DetailViews, AddressNames DEF PagesInv, SessionType
    <3>4. view.record # address.record
      BY <1>1, <2>2, <3>3
    <3>5. QED
      BY <3>1, <3>2, <3>4
  <2>7. DetailInv'
    BY <2>1, <2>6 DEF DetailInv
  <2>8. QED
    BY <2>3, <2>4, <2>5, <2>7 DEF PagesInv
<1>5. CASE ~(view.name = "detail" /\ address.name = "detail")
  <2>1. Mount(Path(address), requests) /\ view' = Path(address)
    <3>1. fadingTo.name = address.name
      BY <1>1, PathName DEF PagesInv, SessionType
    <3>2. QED
      BY <1>1, <1>5, <3>1 DEF Settle, Mount, Show
  <2>2. SessionType' /\ SessionInv'
    BY <1>1, <1>2, <1>3, <2>1 DEF PagesInv, SessionType, SessionInv
  <2>3. Room(requests)
    BY <1>1, <1>3, <2>1, DueBounds, RequestsAt, PagesAssumption
    DEF PagesInv, RoomInv, Room
  <2>4. requests \in Seq(RequestType')
    BY <1>2 DEF PagesInv, PageType
  <2>5. QED
    BY <2>1, <2>2, <2>3, <2>4, MountKeeps
<1>6. QED
  BY <1>4, <1>5

LEMMA TranslateKeeps == ASSUME PagesInv, Translate PROVE PagesInv'
<1>1. /\ ~pending /\ view.name = "detail" /\ Patient
      /\ asked' = Nothing /\ pending' = TRUE
      /\ UNCHANGED <<session, address, view, loading, shown, failed, outOfOrder, requests>>
  BY DEF Translate
<1>2. UNCHANGED <<issued, expired, loggedOut, token, signingIn>> /\ Tokens' = Tokens
      /\ Contents' = Contents /\ RequestType' = RequestType /\ DetailAsked' = DetailAsked
  BY <1>1 DEF session, Tokens, Contents, RequestType, RequestsFor, DetailAsked
<1>3. SessionType' /\ PageType' /\ SessionInv'
  BY <1>1, <1>2 DEF PagesInv, SessionType, PageType, SessionInv, Contents
<1>4. RoomInv'
  BY <1>1, DueBounds, RequestsAt, PagesAssumption DEF Patient, PagesInv, RoomInv
<1>5. SettledInv' /\ ListInv' /\ LogoutForgets'
  BY <1>1, <1>2 DEF PagesInv, SettledInv, ListInv, LogoutForgets
<1>6. Dependencies' = Dependencies
  BY <1>1, <1>2 DEF Dependencies, Filter
<1>7. DetailInv'
  BY <1>1, <1>6, DependenciesOfDetail DEF DetailInv, Nothing
<1>8. QED
  BY <1>3, <1>4, <1>5, <1>7 DEF PagesInv


\* Nothing but the page's load changes, and what is under way.
LEMMA PageKeeps ==
  ASSUME PagesInv, UNCHANGED <<session, address, view>>,
         asked' \in Contents \cup DetailAsked, shown' \in Contents,
         requests' \in Seq(RequestType),
         \/ Len(requests') <= Len(requests)
         \/ pending /\ Dependencies # asked
         \/ Len(requests') <= MaxRequests,
         ~pending', Len(requests') <= Len(requests) + 1,
         view = Login => Len(requests') <= Len(requests),
         shown' # Nothing => shown'.token \notin loggedOut,
         \A i \in DOMAIN requests' :
           requests'[i].live => requests'[i].for.token \notin loggedOut
  PROVE  /\ SessionType' /\ PageType' /\ SessionInv' /\ RoomInv' /\ LogoutForgets'
         /\ Dependencies' = Dependencies /\ Wanted' = Wanted
<1>1. UNCHANGED <<issued, expired, loggedOut, token, signingIn>> /\ Tokens' = Tokens
      /\ Contents' = Contents /\ RequestType' = RequestType /\ DetailAsked' = DetailAsked
  BY DEF session, Tokens, Contents, RequestType, RequestsFor, DetailAsked
<1>2. SessionType' /\ PageType' /\ SessionInv' /\ LogoutForgets'
  BY <1>1 DEF PagesInv, SessionType, PageType, SessionInv, LogoutForgets
<1>3. RoomInv'
  <2>1. Len(requests) \in Nat /\ Len(requests') \in Nat
    BY LenProperties, RequestsAt DEF PagesInv
  <2>2. QED
    BY <2>1, PagesAssumption DEF PagesInv, RoomInv, Due
<1>4. Dependencies' = Dependencies /\ Wanted' = Wanted
  BY <1>1 DEF Dependencies, Wanted, Filter
<1>5. QED
  BY <1>2, <1>3, <1>4


LEMMA RequestTypes ==
  ASSUME PagesInv, NEW kind \in Kinds
  PROVE  /\ Request(kind) \in RequestType
         /\ Request(kind).kind = kind /\ Request(kind).for = Wanted
         /\ Request(kind).live /\ ~Request(kind).late
BY WantedType DEF PagesInv, SessionType, Request, RequestType, RequestsFor

LEMMA CancelProperties ==
  ASSUME PagesInv
  PROVE  /\ Cancel \in Seq(RequestType) /\ Len(Cancel) = Len(requests)
         /\ view.name = "detail" => Cancel = requests
         /\ view.name # "detail" => \A i \in DOMAIN Cancel : ~Cancel[i].live
BY CancelledProperties DEF PagesInv, PageType, Cancel, RequestType

LEMMA RunEffectsKeeps == ASSUME PagesInv, RunEffects PROVE PagesInv'
<1>1. pending /\ ~pending' /\ UNCHANGED <<session, address, view, shown, outOfOrder>>
  BY DEF RunEffects
<1>2. Len(requests) \in Nat
  BY RequestsAt DEF PagesInv
<1>3. /\ shown # Nothing => shown.token \notin loggedOut
      /\ \A i \in DOMAIN requests : requests[i].live => requests[i].for.token \notin loggedOut
  BY DEF PagesInv, LogoutForgets
<1>4. CASE Dependencies = asked
  <2>1. UNCHANGED <<asked, loading, failed, requests>>
    BY <1>4 DEF RunEffects
  <2>2. /\ SessionType' /\ PageType' /\ SessionInv' /\ RoomInv' /\ LogoutForgets'
        /\ Dependencies' = Dependencies /\ Wanted' = Wanted
    BY <1>1, <1>2, <1>3, <2>1, PageKeeps DEF PagesInv, PageType
  <2>3. SettledInv' /\ ListInv' /\ DetailInv'
    BY <1>1, <1>4, <2>1, <2>2
    DEF PagesInv, SettledInv, ListInv, UnderWay, DetailInv, Answered, LastLoad
  <2>4. QED
    BY <2>2, <2>3 DEF PagesInv
<1>5. CASE Dependencies # asked /\ view = Login
  <2>1. asked' = Dependencies /\ requests' = Cancel
    BY <1>5 DEF RunEffects
  <2>2. view.name = "login"
    BY <1>5 DEF Login
  <2>3. asked' \in Contents \cup DetailAsked
    BY <2>1, DependenciesType DEF PagesInv, SessionType
  <2>4. /\ SessionType' /\ PageType' /\ SessionInv' /\ RoomInv' /\ LogoutForgets'
        /\ Dependencies' = Dependencies /\ Wanted' = Wanted
    BY <1>1, <1>2, <1>3, <2>1, <2>2, <2>3, CancelProperties, PageKeeps DEF PagesInv, PageType
  <2>5. SettledInv' /\ ListInv' /\ DetailInv'
    BY <1>1, <2>1, <2>2, <2>4 DEF SettledInv, ListInv, DetailInv
  <2>6. QED
    BY <2>4, <2>5 DEF PagesInv
<1>6. CASE Dependencies # asked /\ view # Login
  <2> DEFINE new == Request(view.name)
  <2>1. /\ asked' = Dependencies /\ requests' = Append(Cancel, new)
        /\ loading' = (view.name \in {"list", "tickets"}) /\ failed' = FALSE
    BY <1>6 DEF RunEffects
  <2>2. view.name \in {"home", "list", "tickets", "detail"}
    BY <1>6, PathNames DEF PagesInv, SessionType
  <2>3. /\ new \in RequestType /\ new.kind = view.name /\ new.for = Wanted
        /\ new.live /\ ~new.late
    BY <2>2, RequestTypes DEF Kinds
  <2>4. asked' \in Contents \cup DetailAsked
    BY <2>1, DependenciesType DEF PagesInv, SessionType
  <2>5. Wanted.token = token /\ token \notin loggedOut
    BY <1>6, WantedType DEF PagesInv, SessionType, SessionInv
  <2> HIDE DEF new
  <2>6. /\ requests' \in Seq(RequestType) /\ Len(requests') = Len(requests) + 1
        /\ DOMAIN requests' = 1..Len(requests) + 1 /\ DOMAIN Cancel = 1..Len(requests)
        /\ \A i \in 1..Len(requests) : requests'[i] = Cancel[i]
        /\ requests'[Len(requests) + 1] = new
    BY <2>1, <2>3, CancelProperties, AppendProperties, LenProperties
  <2>7. \A i \in DOMAIN requests' :
          \/ i = Len(requests) + 1
          \/ i \in DOMAIN requests /\ view.name = "detail" /\ requests'[i] = requests[i]
          \/ ~requests'[i].live
    BY <1>2, <2>6, CancelProperties
  <2>8. \A i \in DOMAIN requests' :
          requests'[i].live => requests'[i].for.token \notin loggedOut
    BY <1>3, <2>3, <2>5, <2>6, <2>7
  <2>9. /\ SessionType' /\ PageType' /\ SessionInv' /\ RoomInv' /\ LogoutForgets'
        /\ Dependencies' = Dependencies /\ Wanted' = Wanted
    BY <1>1, <1>2, <1>3, <1>6, <2>4, <2>6, <2>8, PageKeeps DEF PagesInv, PageType
  <2>10. SettledInv'
    BY <2>1, <2>9 DEF SettledInv
  <2>11. ListInv'
    <3> SUFFICES ASSUME view.name \in {"home", "list", "tickets"} PROVE ListInv'
      BY <1>1 DEF ListInv
    <3>1. asked' = Wanted
      BY <2>1, DependenciesOfOthers
    <3>2. \A i \in DOMAIN requests' : requests'[i].live =>
            requests'[i].kind = view.name /\ requests'[i].for = asked'
      BY <2>3, <2>6, <2>7, <3>1
    <3>3. UnderWay'
      BY <1>2, <2>3, <2>6 DEF UnderWay
    <3>4. view.name # "home" => loading'
      BY <2>1
    <3>5. QED
      BY <1>1, <3>2, <3>3, <3>4 DEF ListInv
  <2>12. DetailInv'
    <3> SUFFICES ASSUME view.name = "detail" PROVE DetailInv'
      BY <1>1 DEF DetailInv
    <3>1. PICK n \in DOMAIN requests' : n = Len(requests) + 1
      BY <1>2, <2>6
    <3>2. requests'[n] = new /\ \A j \in DOMAIN requests' : ~(j > n)
      BY <1>2, <2>6, <3>1
    <3>3. LastLoad(n)'
      BY <2>3, <2>9, <3>2 DEF LastLoad
    <3>4. QED
      BY <3>3 DEF DetailInv
  <2>13. QED
    BY <2>9, <2>10, <2>11, <2>12 DEF PagesInv
<1>7. QED
  BY <1>4, <1>5, <1>6


LEMMA ActKeeps ==
  ASSUME PagesInv, NEW kind \in {"act", "escalate"}, Act(kind) PROVE PagesInv'
<1> DEFINE new == Request(kind)
<1>1. /\ ~pending /\ view.name = "detail" /\ Patient
      /\ requests' = Append(requests, new)
      /\ UNCHANGED <<session, address, pending, page>>
  BY DEF Act
<1>2. UNCHANGED <<view, asked, loading, shown, failed, outOfOrder>>
  BY <1>1 DEF page
<1>3. /\ new \in RequestType /\ new.for = Wanted /\ Wanted.token = token /\ token \notin loggedOut
  BY <1>1, RequestTypes, WantedType, DetailViews DEF Kinds, PagesInv, SessionType, SessionInv
<1> HIDE DEF new
<1>4. /\ requests' \in Seq(RequestType) /\ Len(requests') = Len(requests) + 1
      /\ Len(requests) \in Nat /\ DOMAIN requests = 1..Len(requests)
      /\ DOMAIN requests' = 1..Len(requests) + 1
      /\ \A i \in DOMAIN requests : requests'[i] = requests[i]
      /\ requests'[Len(requests) + 1] = new
  BY <1>1, <1>3, RequestsAt, AppendProperties, LenProperties DEF PagesInv, PageType
<1>5. \A i \in DOMAIN requests' :
        i \in DOMAIN requests \/ (i = Len(requests) + 1 /\ requests'[i] = new)
  BY <1>4
<1>6. \A i \in DOMAIN requests' :
        requests'[i].live => requests'[i].for.token \notin loggedOut
  BY <1>3, <1>4, <1>5 DEF PagesInv, LogoutForgets
<1>7. /\ SessionType' /\ PageType' /\ SessionInv' /\ RoomInv' /\ LogoutForgets'
      /\ Dependencies' = Dependencies /\ Wanted' = Wanted
  <2>1. /\ asked' \in Contents \cup DetailAsked /\ shown' \in Contents
        /\ shown' # Nothing => shown'.token \notin loggedOut
    BY <1>2 DEF PagesInv, PageType, LogoutForgets
  <2>2. Len(requests') <= MaxRequests /\ view # Login
    BY <1>1, <1>4, DetailViews, PagesAssumption DEF Patient
  <2>3. QED
    BY <1>1, <1>2, <1>4, <1>6, <2>1, <2>2, PageKeeps
<1>8. SettledInv' /\ ListInv'
  BY <1>1, <1>2, <1>7 DEF PagesInv, SettledInv, ListInv
<1>9. DetailInv'
  <2>1. Answered => Answered'
    BY <1>2, <1>3, <1>4, <1>5, <1>7 DEF Answered
  <2>2. ASSUME NEW i \in DOMAIN requests, LastLoad(i)
        PROVE  i \in DOMAIN requests' /\ LastLoad(i)'
    BY <1>3, <1>4, <1>5, <1>7, <2>2 DEF LastLoad
  <2>3. QED
    BY <1>1, <1>2, <1>7, <2>1, <2>2 DEF PagesInv, DetailInv, session
<1>10. QED
  BY <1>7, <1>8, <1>9 DEF PagesInv

-----------------------------------------------------------------------------
(* Answers *)

\* The place in requests of what stands at j once the i-th is gone.
At(i, j) == IF j < i THEN j ELSE j + 1

LEMMA AtProperties ==
  ASSUME PagesInv, NEW i \in DOMAIN requests
  PROVE  /\ Len(requests) \in Nat /\ DOMAIN requests = 1..Len(requests)
         /\ \A j \in 1..Len(requests) - 1 : At(i, j) \in DOMAIN requests /\ At(i, j) # i
         /\ \A k \in DOMAIN requests : k # i =>
              \E j \in 1..Len(requests) - 1 : At(i, j) = k
<1>1. Len(requests) \in Nat /\ DOMAIN requests = 1..Len(requests)
  BY RequestsAt DEF PagesInv
<1>2. \A j \in 1..Len(requests) - 1 : At(i, j) \in DOMAIN requests /\ At(i, j) # i
  BY <1>1 DEF At
<1>3. ASSUME NEW k \in DOMAIN requests, k # i
      PROVE  \E j \in 1..Len(requests) - 1 : At(i, j) = k
  <2>1. CASE k < i
    BY <1>1, <2>1 DEF At
  <2>2. CASE k > i
    <3>1. k - 1 \in 1..Len(requests) - 1 /\ At(i, k - 1) = k
      BY <1>1, <2>2 DEF At
    <3>2. QED
      BY <3>1
  <2>3. QED
    BY <1>1, <1>3, <2>1, <2>2
<1>4. QED
  BY <1>1, <1>2, <1>3

LEMMA RemovedProperties ==
  ASSUME PagesInv, NEW i \in DOMAIN requests
  PROVE  LET rs == RemoveAt(requests, i)
         IN  /\ rs \in Seq(RequestType) /\ Len(rs) = Len(requests) - 1
             /\ DOMAIN rs = 1..Len(requests) - 1
             /\ \A j \in DOMAIN rs : rs[j] = requests[At(i, j)]
BY RequestsAt, RemoveAtProperties DEF PagesInv, PageType, At

\* Those in front of an answered request turn late.
LEMMA OthersProperties ==
  ASSUME PagesInv, NEW i \in DOMAIN requests
  PROVE  /\ Others(i) \in Seq(RequestType) /\ Len(Others(i)) = Len(requests) - 1
         /\ DOMAIN Others(i) = 1..Len(requests) - 1
         /\ \A j \in DOMAIN Others(i) :
              /\ Others(i)[j].kind = requests[At(i, j)].kind
              /\ Others(i)[j].for = requests[At(i, j)].for
              /\ Others(i)[j].live <=> requests[At(i, j)].live
              /\ IF j < i THEN Others(i)[j].live => Others(i)[j].late
                 ELSE Others(i)[j] = requests[j + 1]
<1> DEFINE E(j) == IF j < i /\ requests[j].live THEN [requests[j] EXCEPT !.late = TRUE]
                   ELSE requests[j]
           marked == [j \in 1..Len(requests) |-> E(j)]
<1>1. Len(requests) \in Nat /\ DOMAIN requests = 1..Len(requests)
      /\ \A j \in 1..Len(requests) : requests[j] \in RequestType
  BY RequestsAt DEF PagesInv
<1>2. \A j \in 1..Len(requests) :
        /\ E(j) \in RequestType
        /\ E(j).kind = requests[j].kind /\ E(j).for = requests[j].for
        /\ E(j).live <=> requests[j].live
        /\ IF j < i THEN E(j).live => E(j).late ELSE E(j) = requests[j]
  BY <1>1 DEF RequestType, RequestsFor
<1>3. Others(i) = RemoveAt(marked, i)
  BY DEF Others
<1> HIDE DEF E
<1>4. marked \in Seq(RequestType)
  BY <1>1, <1>2, IsASeq
<1>5. DOMAIN marked = 1..Len(requests) /\ \A j \in 1..Len(requests) : marked[j] = E(j)
  OBVIOUS
<1>6. Len(marked) = Len(requests)
  BY <1>1, <1>4, <1>5, LenProperties
<1> HIDE DEF marked
<1>7. /\ Others(i) \in Seq(RequestType) /\ Len(Others(i)) = Len(requests) - 1
      /\ DOMAIN Others(i) = 1..Len(requests) - 1
      /\ \A j \in 1..Len(requests) - 1 :
           Others(i)[j] = IF j < i THEN marked[j] ELSE marked[j + 1]
  <2>1. i \in 1..Len(marked)
    BY <1>1, <1>6
  <2>2. /\ RemoveAt(marked, i) \in Seq(RequestType)
        /\ Len(RemoveAt(marked, i)) = Len(marked) - 1
        /\ DOMAIN RemoveAt(marked, i) = 1..Len(marked) - 1
        /\ \A j \in 1..Len(marked) - 1 :
             RemoveAt(marked, i)[j] = IF j < i THEN marked[j] ELSE marked[j + 1]
    BY <1>4, <2>1, RemoveAtProperties
  <2>3. QED
    BY <1>3, <1>6, <2>2
<1>8. \A j \in 1..Len(requests) - 1 : At(i, j) \in 1..Len(requests)
  BY <1>1 DEF At
<1>9. QED
  BY <1>1, <1>2, <1>5, <1>7, <1>8 DEF At


\* An answer that shows nothing: its request is gone, the rest stays.
LEMMA RemovedKeeps ==
  ASSUME PagesInv, NEW i \in DOMAIN requests, requests' = RemoveAt(requests, i),
         ~pending, ~pending', UNCHANGED <<session, address, view, asked, shown, outOfOrder>>,
         view.name = "detail" => requests[i].kind # "detail" \/ ~requests[i].live,
         view.name \in {"home", "list", "tickets"} =>
           \/ ~requests[i].live /\ (loading => loading') /\ (failed => failed')
           \/ failed'
  PROVE  PagesInv'
<1>1. /\ requests' \in Seq(RequestType) /\ Len(requests') = Len(requests) - 1
      /\ DOMAIN requests' = 1..Len(requests) - 1
      /\ \A j \in DOMAIN requests' : requests'[j] = requests[At(i, j)]
  BY RemovedProperties
<1>2. Len(requests) \in Nat /\ DOMAIN requests = 1..Len(requests)
  BY AtProperties
<1>3. \A j \in DOMAIN requests' : At(i, j) \in DOMAIN requests /\ At(i, j) # i
  BY <1>1, AtProperties
<1>4. \A k \in DOMAIN requests : k # i => \E j \in DOMAIN requests' : At(i, j) = k
  BY <1>1, AtProperties
<1>5. /\ SessionType' /\ PageType' /\ SessionInv' /\ RoomInv' /\ LogoutForgets'
      /\ Dependencies' = Dependencies /\ Wanted' = Wanted
  <2>1. /\ asked' \in Contents \cup DetailAsked /\ shown' \in Contents
        /\ shown' # Nothing => shown'.token \notin loggedOut
    BY DEF PagesInv, PageType, LogoutForgets
  <2>2. \A j \in DOMAIN requests' :
          requests'[j].live => requests'[j].for.token \notin loggedOut
    BY <1>1, <1>3 DEF PagesInv, LogoutForgets
  <2>3. QED
    BY <1>1, <1>2, <2>1, <2>2, PageKeeps
<1>6. SettledInv'
  BY <1>5 DEF PagesInv, SettledInv
<1>7. ListInv'
  <2> SUFFICES ASSUME view.name \in {"home", "list", "tickets"} PROVE ListInv'
    BY DEF ListInv
  <2>1. \A j \in DOMAIN requests' : requests'[j].live =>
          requests'[j].kind = view.name /\ requests'[j].for = asked
    BY <1>1, <1>3 DEF PagesInv, ListInv
  <2>2. ~requests[i].live /\ UnderWay => UnderWay'
    BY <1>1, <1>4 DEF UnderWay
  <2>3. QED
    BY <2>1, <2>2 DEF PagesInv, ListInv
<1>8. DetailInv'
  <2> SUFFICES ASSUME view.name = "detail", view = address, asked = Dependencies
               PROVE  DetailInv'
    BY <1>5 DEF DetailInv, session
  <2>1. Answered => Answered'
    BY <1>1, <1>3, <1>5 DEF Answered
  <2>2. ASSUME NEW k \in DOMAIN requests, LastLoad(k)
        PROVE  \E j \in DOMAIN requests' : LastLoad(j)'
    <3>1. k # i
      BY <2>2 DEF LastLoad
    <3>2. PICK j \in DOMAIN requests' : At(i, j) = k
      BY <1>4, <3>1
    <3>3. \A l \in DOMAIN requests' : l > j => At(i, l) > k
      BY <1>1, <1>2, <3>2 DEF At
    <3>4. LastLoad(j)'
      BY <1>1, <1>3, <1>5, <2>2, <3>2, <3>3 DEF LastLoad
    <3>5. QED
      BY <3>4
  <2>3. QED
    BY <2>1, <2>2 DEF PagesInv, DetailInv
<1>9. QED
  BY <1>5, <1>6, <1>7, <1>8 DEF PagesInv

LEMMA ListFailsKeeps ==
  ASSUME PagesInv, NEW i \in DOMAIN requests, ~pending, ListFails(i) PROVE PagesInv'
<1>1. /\ requests[i].kind # "detail" /\ requests' = RemoveAt(requests, i)
      /\ UNCHANGED <<session, address, pending, view, asked, shown, outOfOrder>>
  BY DEF ListFails
<1>2. requests[i].live => failed'
  BY DEF ListFails
<1>3. ~requests[i].live => (loading => loading') /\ (failed => failed')
  BY DEF ListFails
<1>4. QED
  BY <1>1, <1>2, <1>3, RemovedKeeps

LEMMA ActFailsKeeps ==
  ASSUME PagesInv, NEW i \in DOMAIN requests, ~pending, ActFails(i) PROVE PagesInv'
<1>1. /\ requests[i].kind \in {"act", "escalate"} /\ requests' = RemoveAt(requests, i)
      /\ UNCHANGED <<session, address, pending, view, asked, shown, outOfOrder, loading, failed>>
  BY DEF ActFails, page
<1>2. view.name \in {"home", "list", "tickets"} => ~requests[i].live
  BY <1>1 DEF PagesInv, ListInv
<1>3. QED
  BY <1>1, <1>2, RemovedKeeps

\* An answer that goes to a list without filter, wherever the user is by now.
LEMMA GoesToAList ==
  ASSUME PagesInv, NEW i \in DOMAIN requests, ~pending,
         requests[i].kind \in {"detail", "escalate"},
         NEW a \in {List(NoFilter), Tickets},
         UNCHANGED session, Go(a, RemoveAt(requests, i))
  PROVE  PagesInv'
<1> DEFINE rs == RemoveAt(requests, i)
<1>1. /\ requests[i].kind \in {"detail", "escalate"}
      /\ UNCHANGED session /\ Go(a, rs)
  OBVIOUS
<1>2. /\ rs \in Seq(RequestType) /\ Len(rs) = Len(requests) - 1
      /\ DOMAIN rs = 1..Len(requests) - 1
      /\ \A j \in DOMAIN rs : rs[j] = requests[At(i, j)]
  BY RemovedProperties
<1> HIDE DEF rs
<1>3. a \in Addresses
  BY PagesAssumption DEF Addresses
<1>4. SessionStep
  BY <1>1, SameSession
<1>5. Among(rs)
  <2>1. \A j \in DOMAIN rs : \E k \in DOMAIN requests : rs[j] = requests[k]
    BY <1>2, AtProperties
  <2>2. ASSUME view.name \in {"home", "list", "tickets"}, NEW k \in DOMAIN requests, requests[k].live
        PROVE  \E j \in DOMAIN rs : rs[j] = requests[k]
    <3>1. k # i
      BY <1>1, <2>2 DEF PagesInv, ListInv
    <3>2. PICK j \in DOMAIN rs : At(i, j) = k
      BY <1>2, <3>1, AtProperties
    <3>3. QED
      BY <1>2, <3>2
  <2>3. QED
    BY <1>2, <2>1, <2>2 DEF Among
<1>6. address' = (IF token' = 0 THEN Login ELSE a) /\ address' \in Plain
  BY <1>1 DEF Go, Plain
<1>7. Len(rs) = Len(requests) - 1 /\ Len(requests) \in Nat
  BY <1>2, AtProperties
<1>8. Room(rs)
  <2>1. Len(requests) + Due <= MaxRequests + 2 /\ Due \in 0..2
    BY <1>7, PagesAssumption DEF PagesInv, RoomInv, Due
  <2>2. CASE Len(requests) <= MaxRequests + 1 \/ Due' \in 0..1
    BY <1>6, <1>7, <2>1, <2>2, DueBounds, PagesAssumption DEF Room
  <2>3. CASE ~(Len(requests) <= MaxRequests + 1) /\ view # Login
    <3>1. Due = 0 /\ address \in Plain
      BY <1>7, <2>1, <2>3, PagesAssumption DEF PagesInv, RoomInv
    <3>2. view = Path(address) /\ address \in {List(NoFilter), Tickets} /\ token # 0
      BY <2>3, <3>1, DueBounds DEF Due, Plain, PagesInv, SessionInv
    <3>3. view.name \in {"list", "tickets"} /\ Filter = NoFilter
      BY <3>2 DEF Path, List, Tickets, Filter
    <3>4. address' = a /\ a # Login
      BY <1>1, <1>6, <3>2 DEF session, List, Tickets, Login
    <3>5. view' = view /\ asked' = asked
      BY <1>1, <2>3, <3>2, <3>4 DEF Go, page, session
    <3>6. Filter' = NoFilter
      BY <3>4 DEF Filter, List, Tickets
    <3>7. Dependencies' = Dependencies
      BY <1>1, <3>3, <3>5, <3>6 DEF Dependencies, Wanted, session
    <3>8. Dependencies = asked
      BY DEF PagesInv, SettledInv
    <3>9. Due' \in 0..1
      BY <3>5, <3>7, <3>8 DEF Due
    <3>10. QED
      BY <2>2, <3>9
  <2>4. CASE view = Login
    <3>1. view' = Path(address')
      BY <1>1, <1>6, <2>4 DEF Go, Mount, Show, page, Path, Login, List, Tickets
    <3>2. QED
      BY <2>2, <3>1, DueBounds
  <2>5. QED
    BY <2>2, <2>3, <2>4
<1>9. ~(view.name = "detail" /\ view = address')
  BY <1>6 DEF Plain, Login, List, Tickets
<1>10. QED
  BY <1>1, <1>3, <1>4, <1>5, <1>8, <1>9, GoKeeps

LEMMA DetailFailsKeeps ==
  ASSUME PagesInv, NEW i \in DOMAIN requests, ~pending, DetailFails(i) PROVE PagesInv'
BY GoesToAList DEF DetailFails

LEMMA EscalatedKeeps ==
  ASSUME PagesInv, NEW i \in DOMAIN requests, ~pending, Escalated(i) PROVE PagesInv'
BY GoesToAList DEF Escalated

LEMMA ShowsKeeps ==
  ASSUME PagesInv, NEW i \in DOMAIN requests, ~pending, Shows(i) PROVE PagesInv'
<1> DEFINE r == requests[i]
<1>1. ~pending /\ ~pending' /\ UNCHANGED <<session, address, view, asked, failed>>
  BY DEF Shows
<1>2. CASE ~r.live
  <2>1. requests' = RemoveAt(requests, i) /\ UNCHANGED <<shown, loading, outOfOrder>>
    BY <1>2 DEF Shows
  <2>2. QED
    BY <1>1, <1>2, <2>1, RemovedKeeps
<1>3. CASE r.live
  <2>1. shown' = r.for /\ outOfOrder' = r.late /\ requests' = Others(i)
    BY <1>3 DEF Shows
  <2>2. /\ Others(i) \in Seq(RequestType) /\ Len(Others(i)) = Len(requests) - 1
        /\ DOMAIN Others(i) = 1..Len(requests) - 1
        /\ \A j \in DOMAIN Others(i) :
             /\ Others(i)[j].kind = requests[At(i, j)].kind
             /\ Others(i)[j].for = requests[At(i, j)].for
             /\ Others(i)[j].live <=> requests[At(i, j)].live
             /\ IF j < i THEN Others(i)[j].live => Others(i)[j].late
                ELSE Others(i)[j] = requests[j + 1]
    BY OthersProperties
  <2>3. /\ Len(requests) \in Nat /\ DOMAIN requests = 1..Len(requests)
        /\ \A j \in DOMAIN Others(i) : At(i, j) \in DOMAIN requests
    BY <2>2, AtProperties
  <2>4. r.for \in Contents /\ r.for.token \notin loggedOut
    BY <1>3, RequestsAt DEF PagesInv, RequestType, RequestsFor, LogoutForgets
  <2>5. /\ SessionType' /\ PageType' /\ SessionInv' /\ RoomInv' /\ LogoutForgets'
        /\ Dependencies' = Dependencies /\ Wanted' = Wanted
    <3>1. \A j \in DOMAIN requests' :
            requests'[j].live => requests'[j].for.token \notin loggedOut
      BY <2>1, <2>2, <2>3 DEF PagesInv, LogoutForgets
    <3>2. asked' \in Contents \cup DetailAsked
      BY <1>1 DEF PagesInv, PageType
    <3>3. QED
      BY <1>1, <2>1, <2>2, <2>3, <2>4, <3>1, <3>2, PageKeeps
  <2>6. SettledInv'
    BY <1>1, <2>5 DEF PagesInv, SettledInv
  <2>7. ListInv'
    <3>1. view.name \in {"home", "list", "tickets"} => r.for = asked
      BY <1>3 DEF PagesInv, ListInv
    <3>2. view.name \in {"home", "list", "tickets"} => \A j \in DOMAIN requests' :
            requests'[j].live => requests'[j].kind = view.name /\ requests'[j].for = asked
      BY <2>1, <2>2, <2>3 DEF PagesInv, ListInv
    <3>3. QED
      BY <1>1, <2>1, <3>1, <3>2 DEF ListInv
  <2>8. DetailInv'
    <3> SUFFICES ASSUME view.name = "detail", view = address, asked = Dependencies
                 PROVE  DetailInv'
      BY <1>1, <2>5 DEF DetailInv
    <3> HIDE DEF r
    <3>1. ASSUME r.late \/ r.for = Wanted,
                 \A k \in DOMAIN requests : k > i /\ requests[k].live =>
                   requests[k].late \/ requests[k].for = Wanted
          PROVE  Answered'
      <4>1. outOfOrder' \/ shown' = Wanted'
        BY <2>1, <2>5, <3>1
      <4>2. ASSUME NEW j \in DOMAIN requests', requests'[j].live
            PROVE  requests'[j].late \/ requests'[j].for = Wanted'
        <5>1. CASE j < i
          BY <2>1, <2>2, <4>2, <5>1
        <5>2. CASE ~(j < i)
          <6>1. j + 1 \in DOMAIN requests /\ j + 1 > i /\ requests'[j] = requests[j + 1]
            BY <2>1, <2>2, <2>3, <4>2, <5>2
          <6>2. QED
            BY <2>5, <3>1, <4>2, <6>1
        <5>3. QED
          BY <5>1, <5>2
      <4>3. QED
        BY <4>1, <4>2 DEF Answered
    <3>2. ASSUME Answered PROVE Answered'
      BY <1>3, <3>1, <3>2 DEF Answered, r
    <3>3. ASSUME NEW k \in DOMAIN requests, LastLoad(k), k <= i PROVE Answered'
      <4>1. r.for = Wanted
        BY <1>3, <2>3, <3>3 DEF LastLoad, r
      <4>2. \A l \in DOMAIN requests : l > i => l > k
        BY <2>3, <3>3
      <4>3. QED
        BY <3>1, <3>3, <4>1, <4>2 DEF LastLoad
    <3>4. ASSUME NEW k \in DOMAIN requests, LastLoad(k), k > i
          PROVE  \E j \in DOMAIN requests' : LastLoad(j)'
      <4>1. PICK j \in DOMAIN requests' : j = k - 1
        BY <2>1, <2>2, <2>3, <3>4
      <4>2. \A l \in DOMAIN requests' : l >= j =>
              /\ l + 1 \in DOMAIN requests /\ requests'[l] = requests[l + 1]
              /\ l > j => l + 1 > k
        BY <2>1, <2>2, <2>3, <3>4, <4>1
      <4>3. requests'[j] = requests[k]
        BY <2>1, <2>2, <2>3, <3>4, <4>1
      <4>4. \A l \in DOMAIN requests' : l > j => l >= j
        BY <2>1, <2>2, <2>3
      <4>5. LastLoad(j)'
        BY <2>5, <3>4, <4>2, <4>3, <4>4 DEF LastLoad
      <4>6. QED
        BY <4>5
    <3>5. QED
      BY <2>3, <3>2, <3>3, <3>4 DEF PagesInv, DetailInv
  <2>9. QED
    BY <2>5, <2>6, <2>7, <2>8 DEF PagesInv
<1>4. QED
  BY <1>2, <1>3

-----------------------------------------------------------------------------
(* The theorems *)

LEMMA OutletStays ==
  ASSUME OutletInv, pending' \/ UNCHANGED <<pending, view, address>>, UNCHANGED <<stage, fadingTo>>
  PROVE  OutletInv'
BY DEF OutletInv, Paths

LEMMA ShowOutlet == ASSUME NEW v, Show(v) PROVE OutletInv'
BY DEF Show, OutletInv

LEMMA GoOutlet == ASSUME OutletInv, NEW a, NEW rs, Go(a, rs) PROVE OutletInv'
<1>1. CASE \E v : Show(v)
  BY <1>1, ShowOutlet
<1>2. CASE pending' /\ UNCHANGED <<stage, fadingTo>>
  BY <1>2, OutletStays
<1>3. QED
  BY <1>1, <1>2 DEF Go, Mount

LEMMA RunEffectsOutlet == ASSUME SessionType, OutletInv, RunEffects PROVE OutletInv'
<1>1. UNCHANGED <<address, view>> /\ FadeOut
  BY DEF RunEffects
<1>2. Path(address) \in Paths
  BY DEF SessionType, Paths
<1>3. QED
  BY <1>1, <1>2 DEF FadeOut, OutletInv, Paths

LEMMA NextOutlet == SessionType /\ OutletInv /\ [Next]_vars => OutletInv'
<1> SUFFICES ASSUME SessionType, OutletInv, [Next]_vars PROVE OutletInv'
  OBVIOUS
<1>1. ASSUME UNCHANGED <<address, pending, outlet, view>> PROVE OutletInv'
  BY <1>1, OutletStays DEF outlet
<1>2. ASSUME UNCHANGED <<address, pending, outlet, page>> PROVE OutletInv'
  BY <1>1, <1>2 DEF page
<1>3. CASE \E u \in Users : SubmitLogin(u)
  BY <1>2, <1>3 DEF SubmitLogin
<1>4. CASE LoginAnswered \/ Logout
  BY <1>4, GoOutlet DEF LoginAnswered, Logout
<1>5. CASE LoginFails
  BY <1>2, <1>5 DEF LoginFails
<1>6. CASE \E t \in DOMAIN issued : Expire(t)
  BY <1>2, <1>6 DEF Expire
<1>7. CASE Reload
  BY <1>7, ShowOutlet DEF Reload, Mount
<1>8. CASE \E a \in Addresses : Navigate(a)
  BY <1>8, GoOutlet DEF Navigate
<1>9. CASE Settle
  BY <1>9, ShowOutlet DEF Settle, Mount
<1>10. CASE Translate
  BY <1>10, OutletStays DEF Translate, outlet
<1>11. CASE RunEffects
  BY <1>11, RunEffectsOutlet
<1>12. CASE \E kind \in {"act", "escalate"} : Act(kind)
  BY <1>2, <1>12 DEF Act
<1>13. ASSUME NEW i \in DOMAIN requests, Arrive(i) PROVE OutletInv'
  <2>1. CASE Shows(i)
    BY <1>1, <2>1 DEF Shows
  <2>2. CASE Escalated(i) \/ DetailFails(i)
    BY <2>2, GoOutlet DEF Escalated, DetailFails
  <2>3. CASE ListFails(i)
    BY <1>1, <2>3 DEF ListFails
  <2>4. CASE ActFails(i)
    BY <1>2, <2>4 DEF ActFails
  <2>5. QED
    BY <1>13, <2>1, <2>2, <2>3, <2>4 DEF Arrive, Succeeds, Fails
<1>14. CASE UNCHANGED vars
  BY <1>2, <1>14 DEF vars
<1>15. QED
  BY <1>3, <1>4, <1>5, <1>6, <1>7, <1>8, <1>9, <1>10, <1>11, <1>12, <1>13, <1>14 DEF Next

LEMMA NextPages == PagesInv /\ OutletInv /\ [Next]_vars => PagesInv'
<1> SUFFICES ASSUME PagesInv, OutletInv, [Next]_vars PROVE PagesInv'
  OBVIOUS
<1>1. CASE \E u \in Users : SubmitLogin(u)
  BY <1>1, SubmitLoginKeeps
<1>2. CASE LoginAnswered
  BY <1>2, LoginAnsweredKeeps
<1>3. CASE LoginFails
  BY <1>3, LoginFailsKeeps
<1>4. CASE Logout
  BY <1>4, LogoutKeeps
<1>5. CASE \E t \in DOMAIN issued : Expire(t)
  BY <1>5, ExpireKeeps
<1>6. CASE Reload
  BY <1>6, ReloadKeeps
<1>7. CASE \E a \in Addresses : Navigate(a)
  BY <1>7, NavigateKeeps
<1>8. CASE Settle
  BY <1>8, SettleKeeps
<1>9. CASE Translate
  BY <1>9, TranslateKeeps
<1>10. CASE RunEffects
  BY <1>10, RunEffectsKeeps
<1>11. CASE \E kind \in {"act", "escalate"} : Act(kind)
  BY <1>11, ActKeeps
<1>12. ASSUME NEW i \in DOMAIN requests, Arrive(i) PROVE PagesInv'
  BY <1>12, ShowsKeeps, EscalatedKeeps, ListFailsKeeps, DetailFailsKeeps, ActFailsKeeps
  DEF Arrive, Succeeds, Fails
<1>13. CASE UNCHANGED vars
  <2>1. UNCHANGED <<issued, loggedOut, token, address, pending, page, requests, expired, signingIn>>
    BY <1>13 DEF vars, session
  <2>2. expired' \subseteq Tokens /\ signingIn' \subseteq Users
        /\ (signingIn' # {} => Len(issued) < MaxLogins)
    BY <2>1 DEF PagesInv, SessionType
  <2>3. QED
    BY <2>1, <2>2, OnlySession
<1>14. QED
  BY <1>1, <1>2, <1>3, <1>4, <1>5, <1>6, <1>7, <1>8, <1>9, <1>10, <1>11, <1>12, <1>13 DEF Next

LEMMA PagesInvariance == Spec => [](PagesInv /\ OutletInv)
<1>1. Init => OutletInv
  <2>1. ASSUME Init PROVE view = Path(address)
    BY <2>1 DEF Init, Path, Login
  <2>2. QED
    BY <2>1 DEF Init, OutletInv
<1>2. PagesInv => SessionType
  BY DEF PagesInv
<1>3. QED
  BY <1>1, <1>2, InitPages, NextPages, NextOutlet, PTL DEF Spec

LEMMA ShowFlags == ASSUME NEW v, Show(v) PROVE pending' = TRUE /\ returned' = FALSE
BY DEF Show

LEMMA MountFlags == ASSUME NEW v, NEW rs, Mount(v, rs) PROVE Flags'
<1>1. pending' = TRUE /\ returned' = FALSE
  BY ShowFlags DEF Mount
<1>2. QED
  BY <1>1, Zenon DEF Mount, Flags

LEMMA GoFlags == ASSUME Flags, NEW a, NEW rs, Go(a, rs) PROVE Flags'
<1>1. CASE \E v : Mount(v, rs)
  BY <1>1, MountFlags
<1>2. CASE /\ pending' = TRUE /\ returned' \in BOOLEAN
           /\ UNCHANGED <<view, asked, loading, shown, failed, outOfOrder>>
  BY <1>2, Zenon DEF Flags
<1>3. \A x : (stage = "exit" /\ Path(x) = view) \in BOOLEAN
  OBVIOUS
<1>4. QED
  BY <1>1, <1>2, <1>3, Zenon DEF Go, page

LEMMA NextFlags == PagesInv /\ Flags /\ [Next]_vars => Flags'
<1> SUFFICES ASSUME PagesInv, Flags, [Next]_vars PROVE Flags'
  OBVIOUS
<1>1. ASSUME UNCHANGED <<pending, outlet, page>> PROVE Flags'
  BY <1>1, Zenon DEF outlet, page, Flags
<1>2. ASSUME NEW u \in Users, SubmitLogin(u) PROVE Flags'
  BY <1>1, <1>2, Zenon DEF SubmitLogin
<1>3. ASSUME LoginFails PROVE Flags'
  BY <1>1, <1>3, Zenon DEF LoginFails
<1>4. ASSUME NEW t, Expire(t) PROVE Flags'
  BY <1>1, <1>4, Zenon DEF Expire
<1>5. ASSUME NEW kind, Act(kind) PROVE Flags'
  BY <1>1, <1>5, Zenon DEF Act
<1>6. ASSUME LoginAnswered PROVE Flags'
  BY <1>6, GoFlags, Zenon DEF LoginAnswered
<1>7. ASSUME Logout PROVE Flags'
  BY <1>7, GoFlags, Zenon DEF Logout
<1>8. ASSUME Reload PROVE Flags'
  BY <1>8, MountFlags, Zenon DEF Reload
<1>9. ASSUME NEW a, Navigate(a) PROVE Flags'
  BY <1>9, GoFlags, Zenon DEF Navigate
<1>10. ASSUME Settle PROVE Flags'
  <2>1. \/ Mount(fadingTo, requests)
        \/ Show(fadingTo) /\ UNCHANGED <<loading, failed, outOfOrder>>
    BY <1>10, Zenon DEF Settle
  <2>2. QED
    BY <2>1, MountFlags, ShowFlags, Zenon DEF Flags
<1>11. ASSUME Translate PROVE Flags'
  BY <1>11, Zenon DEF Translate, outlet, Flags
<1>12. ASSUME RunEffects PROVE Flags'
  <2>1. (view.name \in {"list", "tickets"}) \in BOOLEAN
    OBVIOUS
  <2>2. pending' = FALSE /\ UNCHANGED <<returned, outOfOrder>>
    BY <1>12 DEF RunEffects
  <2>3. (UNCHANGED loading \/ loading' = (view.name \in {"list", "tickets"}))
        /\ (UNCHANGED failed \/ failed' = FALSE)
    BY <1>12 DEF RunEffects
  <2>4. QED
    BY <2>1, <2>2, <2>3, Zenon DEF Flags
<1>13. ASSUME NEW i \in DOMAIN requests, Arrive(i) PROVE Flags'
  <2>1. requests[i].late \in BOOLEAN
    BY RequestsAt DEF PagesInv, RequestType, RequestsFor
  <2>2. CASE Shows(i)
    BY <2>1, <2>2, Zenon DEF Shows, outlet, Flags
  <2>3. CASE ListFails(i)
    BY <2>3, Zenon DEF ListFails, outlet, Flags
  <2>4. CASE DetailFails(i) \/ Escalated(i)
    BY <2>4, GoFlags, Zenon DEF DetailFails, Escalated
  <2>5. CASE ActFails(i)
    BY <1>1, <2>5, Zenon DEF ActFails
  <2>6. QED
    BY <1>13, <2>2, <2>3, <2>4, <2>5 DEF Arrive, Succeeds, Fails
<1>14. ASSUME UNCHANGED vars PROVE Flags'
  BY <1>1, <1>14, Zenon DEF vars
<1>15. QED
  BY <1>2, <1>3, <1>4, <1>5, <1>6, <1>7, <1>8, <1>9, <1>10, <1>11, <1>12, <1>13, <1>14 DEF Next

LEMMA FlagsInvariance == Spec => []Flags
<1>1. Init => Flags
  BY Zenon DEF Init, Flags
<1>2. QED
  BY <1>1, NextFlags, PagesInvariance, PTL DEF Spec

\* However the session, the address and the answers interleave, every part of
\* the tab's state keeps its type, and a tab whose user waits at MaxRequests has
\* two more under way at most: renders and answers alone send no others.
THEOREM TypeCorrect == Spec => []TypeOK
<1>1. PagesInv /\ OutletInv /\ Flags => TypeOK
  <2> SUFFICES ASSUME PagesInv, OutletInv, Flags PROVE TypeOK
    OBVIOUS
  <2>1. Len(requests) <= MaxRequests + 2
    BY RequestsAt, PagesAssumption DEF PagesInv, RoomInv, Due
  <2>2. /\ pending \in BOOLEAN /\ loading \in BOOLEAN
        /\ failed \in BOOLEAN /\ outOfOrder \in BOOLEAN /\ returned \in BOOLEAN
    BY Zenon DEF Flags
  <2>3. /\ SessionType /\ PageType
        /\ stage \in {"shown", "exit"} /\ fadingTo \in {NoPage} \cup Paths
    BY DEF PagesInv, OutletInv
  <2>4. QED
    BY <2>1, <2>2, <2>3, Zenon
    DEF TypeOK, SessionType, PageType, Paths, DetailAsked, RequestType, RequestsFor, Kinds
<1>2. QED
  BY <1>1, PagesInvariance, FlagsInvariance, PTL

\* The `cancelled` flag in the cleanup of a list's effect is enough: for any
\* number of filters, users and requests under way, what a list or the dashboard
\* shows when it is done is what it asks for now, unless its load failed.
THEOREM ListsShowWhatIsAsked == Spec => []ListShowsWhatIsAsked
<1>1. PagesInv => ListShowsWhatIsAsked
  <2> SUFFICES ASSUME PagesInv, ~pending, ~failed, view.name \in {"home", "list", "tickets"}
               PROVE  /\ view.name \in {"list", "tickets"} /\ ~loading => shown = Wanted
                      /\ view.name = "home" /\ ~UnderWay => shown = Wanted
    BY DEF ListShowsWhatIsAsked
  <2>1. asked = Wanted
    BY DependenciesOfOthers DEF PagesInv, SettledInv
  <2>2. view # Login
    BY DEF Login
  <2>3. token # 0 /\ Wanted.token = token
    BY <2>2, WantedType DEF PagesInv, SessionType, SessionInv
  <2>4. asked # Nothing
    BY <2>1, <2>3 DEF Nothing
  <2>5. QED
    BY <2>1, <2>4 DEF PagesInv, ListInv
<1>2. QED
  BY <1>1, PagesInvariance, PTL

\* The detail page cancels nothing and keeps its state from one record to the
\* next, and still shows the record of its address when all its requests are
\* answered, for any number of records and requests: only an answer that comes
\* after that to a newer request can leave another record on the screen.
THEOREM OnlyAnOvertakingMisleads == Spec => []WrongDetailNeedsAnOvertaking
<1>1. PagesInv => WrongDetailNeedsAnOvertaking
  <2> SUFFICES ASSUME PagesInv, ~pending, view.name = "detail", view = address,
                      ~UnderWay, ~outOfOrder
               PROVE  shown = Wanted
    BY DEF WrongDetailNeedsAnOvertaking
  <2>1. Answered \/ \E i \in DOMAIN requests : LastLoad(i)
    BY DEF PagesInv, SettledInv, DetailInv
  <2>2. QED
    BY <2>1 DEF Answered, LastLoad, UnderWay
<1>2. QED
  BY <1>1, PagesInvariance, PTL

\* Logging out unmounts every page, so that nothing asked for with the session's
\* token is shown, or will be when its answer comes, whatever was under way and
\* whoever signs in next.
THEOREM LogoutForgotten == Spec => []LogoutForgets
<1>1. PagesInv => LogoutForgets
  BY DEF PagesInv
<1>2. QED
  BY <1>1, PagesInvariance, PTL

\* The cleanup of AnimatedOutlet's effect is enough: for any number of pages and
\* changes of the address during a fade, a page that is swapped in is the one of
\* the address, and can be seen.
THEOREM SwapsAreToTheAddress == Spec => SwapsToTheAddress
<1>1. ASSUME PagesInv, OutletInv, [Next]_vars
      PROVE  [view' # view => view' = Path(address') /\ stage' = "shown"]_vars
  <2> SUFFICES ASSUME Next, view' # view
               PROVE  view' = Path(address') /\ stage' = "shown"
    BY <1>1
  <2>1. ASSUME UNCHANGED page PROVE FALSE
    BY <2>1 DEF page
  <2>2. ASSUME NEW a, NEW rs, Go(a, rs) PROVE view' = Path(address') /\ stage' = "shown"
    BY <2>1, <2>2 DEF Go, Mount, Show
  <2>3. CASE \E u \in Users : SubmitLogin(u)
    BY <2>1, <2>3 DEF SubmitLogin
  <2>4. CASE LoginAnswered \/ Logout \/ \E a \in Addresses : Navigate(a)
    BY <2>2, <2>4 DEF LoginAnswered, Logout, Navigate
  <2>5. CASE LoginFails
    BY <2>1, <2>5 DEF LoginFails
  <2>6. CASE \E t \in DOMAIN issued : Expire(t)
    BY <2>1, <2>6 DEF Expire
  <2>7. CASE Reload
    BY <2>7 DEF Reload, Mount, Show
  <2>8. CASE Settle
    <3>1. fadingTo = Path(address) /\ address' = address
      BY <1>1, <2>8, SettleTarget DEF Settle
    <3>2. Show(fadingTo)
      BY <2>8 DEF Settle, Mount
    <3>3. QED
      BY <3>1, <3>2 DEF Show
  <2>9. CASE Translate \/ RunEffects
    BY <2>9 DEF Translate, RunEffects
  <2>10. CASE \E kind \in {"act", "escalate"} : Act(kind)
    BY <2>1, <2>10 DEF Act
  <2>11. ASSUME NEW i \in DOMAIN requests, Arrive(i)
         PROVE  view' = Path(address') /\ stage' = "shown"
    <3>1. CASE Shows(i) \/ ListFails(i)
      BY <3>1 DEF Shows, ListFails
    <3>2. CASE Escalated(i) \/ DetailFails(i)
      BY <2>2, <3>2 DEF Escalated, DetailFails
    <3>3. CASE ActFails(i)
      BY <2>1, <3>3 DEF ActFails
    <3>4. QED
      BY <2>11, <3>1, <3>2, <3>3 DEF Arrive, Succeeds, Fails
  <2>12. QED
    BY <2>3, <2>4, <2>5, <2>6, <2>7, <2>8, <2>9, <2>10, <2>11 DEF Next
<1>2. QED
  BY <1>1, PagesInvariance, PTL DEF Spec, SwapsToTheAddress

=============================================================================
