-------------------------- MODULE WebSessionProofs --------------------------
(***************************************************************************)
(* Proofs about the creation of users at a login, for any browsers,        *)
(* accounts, rows that were there before, and bounds.  A row whose flag is *)
(* gone stays for good, so a reason that is such a row does; and a login   *)
(* that goes on to the insert has seen no row of its account that has the  *)
(* flag, nor does one come: only the first rows have it.                   *)
(***************************************************************************)
EXTENDS WebSession, SequenceTheorems, TLAPS

PageForm ==
  /\ DOMAIN page = Browser
  /\ \A b \in Browser :
       page[b] = At(page[b].status, page[b].url, page[b].account)

NoneToMove ==
  \A b \in Browser : page[b].status = "insert" =>
    \A u \in users : u.allow => u.sub # page[b].account.sub

LastingReason ==
  \A a \in refused :
    \E u \in users : ~ u.allow /\ (u.sub = a.sub \/ u.email = a.email)

Inv == PageForm /\ NoneToMove /\ LastingReason

LEMMA InitHolds == Init => Inv
  BY DEF Init, Inv, PageForm, NoneToMove, LastingReason, At

(* Steps that leave the rows alone and start no insert.                    *)
LEMMA PageMoves ==
  ASSUME Inv, NEW b \in Browser, UNCHANGED <<users, refused>>,
         NEW s, NEW u, NEW a, s # "insert", page' = Set(page, b, At(s, u, a))
  PROVE  Inv'
<1>1. PageForm'
  BY DEF Inv, PageForm, Set, At
<1>2. \A c \in Browser : page'[c].status = "insert" => page'[c] = page[c]
  BY DEF Inv, PageForm, Set, At
<1> QED BY <1>1, <1>2 DEF Inv, NoneToMove, LastingReason

LEMMA PageStays ==
  ASSUME Inv, UNCHANGED <<page, users, refused>>
  PROVE  Inv'
  BY DEF Inv, PageForm, NoneToMove, LastingReason

LEMMA GoesOn ==
  ASSUME PageForm, NEW b \in Browser, NEW s, GoOn(b, s)
  PROVE  page' = Set(page, b, At(s, page[b].url, page[b].account))
<1>1. page[b] = At(page[b].status, page[b].url, page[b].account)
  BY DEF PageForm
<1>2. [page[b] EXCEPT !.status = s] = At(s, page[b].url, page[b].account)
  <2> DEFINE x == At(page[b].status, page[b].url, page[b].account)
  <2>1. [x EXCEPT !.status = s] = At(s, page[b].url, page[b].account)
    BY DEF At
  <2> QED BY <1>1, <2>1
<1>3. page' = [page EXCEPT ![b] = [page[b] EXCEPT !.status = s]]
  BY DEF GoOn
<1> QED BY <1>2, <1>3 DEF Set

(* The end of a login asks for a page, whether it succeeded or not.        *)
LEMMA LoginEnds ==
  ASSUME NEW b \in Browser, LoggedIn(b) \/ Failed(b)
  PROVE  \E u : page' = Set(page, b, At("asked", u, NoAccount))
  BY DEF LoggedIn, Failed

LEMMA CountKeeps ==
  ASSUME Inv, NEW b \in Browser, CountUsers(b)
  PROVE  Inv'
<1>1. UNCHANGED <<users, refused>>
  BY DEF CountUsers
<1>2. CASE \E u \in users : u.sub = page[b].account.sub
  BY <1>1, <1>2, LoginEnds, PageMoves DEF CountUsers
<1>3. CASE ~ \E u \in users : u.sub = page[b].account.sub
  <2>1. page' = Set(page, b, At("insert", page[b].url, page[b].account))
    BY <1>3, GoesOn DEF CountUsers, Inv
  <2>2. PageForm'
    BY <2>1 DEF Inv, PageForm, Set, At
  <2>3. /\ page'[b].account = page[b].account
        /\ \A c \in Browser : c # b => page'[c] = page[c]
    BY <2>1 DEF Inv, PageForm, Set, At
  <2> QED BY <1>1, <1>3, <2>2, <2>3 DEF Inv, NoneToMove, LastingReason
<1> QED BY <1>2, <1>3

(* The upsert takes away only rows with the flag, and makes none.          *)
LEMMA UpsertKeeps ==
  ASSUME NEW a, MayInsert(users, a), users' = upsert(users, a)
  PROVE  /\ \A u \in users : ~ u.allow => u \in users'
         /\ \A u \in users' : u.allow => u \in users
  BY DEF MayInsert, upsert

LEMMA InsertKeeps ==
  ASSUME Inv, NEW b \in Browser, InsertUser(b)
  PROVE  Inv'
<1> DEFINE a == page[b].account
<1>1. PICK url : page' = Set(page, b, At("asked", url, NoAccount))
  BY LoginEnds DEF InsertUser
<1>2. PageForm'
  BY <1>1 DEF Inv, PageForm, Set, At
<1>3. \A c \in Browser : page'[c].status = "insert" => page'[c] = page[c]
  BY <1>1 DEF Inv, PageForm, Set, At
<1>4. CASE MayInsert(users, a)
  <2>1. users' = upsert(users, a) /\ refused' = refused
    BY <1>4 DEF InsertUser
  <2>2. /\ \A u \in users : ~ u.allow => u \in users'
        /\ \A u \in users' : u.allow => u \in users
    BY <1>4, <2>1, UpsertKeeps
  <2>3. NoneToMove'
    BY <1>3, <2>2 DEF Inv, NoneToMove
  <2>4. LastingReason'
    BY <2>1, <2>2 DEF Inv, LastingReason
  <2> QED BY <1>2, <2>3, <2>4 DEF Inv
<1>5. CASE ~ MayInsert(users, a)
  <2>1. users' = users /\ refused' = refused \cup {a}
    BY <1>5 DEF InsertUser
  <2>2. \A u \in users : u.allow => u.sub # a.sub
    BY DEF InsertUser, Inv, NoneToMove
  <2>3. \E u \in users : ~ u.allow /\ (u.sub = a.sub \/ u.email = a.email)
    BY <1>5, <2>2 DEF MayInsert
  <2>4. NoneToMove'
    BY <1>3, <2>1 DEF Inv, NoneToMove
  <2>5. LastingReason'
    BY <2>1, <2>3 DEF Inv, LastingReason
  <2> QED BY <1>2, <2>4, <2>5 DEF Inv
<1> QED BY <1>4, <1>5

LEMMA StepKeeps ==
  ASSUME Inv, [Next]_vars
  PROVE  Inv'
<1> SUFFICES ASSUME NEW b \in Browser,
                    \/ \E p \in Target : OpenPage(b, p)
                    \/ Render(b)
                    \/ createServerEnvironment(b)
                    \/ \E p \in Path : FollowLink(b, p)
                    \/ LoginButton(b)
                    \/ \E a \in Account : Callback(b, a)
                    \/ performQuery(b)
                    \/ postgraphileSchema(b)
                    \/ CountUsers(b)
                    \/ InsertUser(b)
                    \/ Expire(b)
                    \/ checkSessionAndGroups(b)
                    \/ handleSessionExpired(b)
                    \/ LogoutForm(b)
                    \/ ecccApiRouter(b)
                    \/ FileAnswers(b)
                    \/ LogDownload(b)
                    \/ SendFile(b)
             PROVE  Inv'
  BY PageStays DEF Next, vars
<1>1. ASSUME NEW p \in Target, OpenPage(b, p) PROVE Inv'
  BY <1>1, PageMoves DEF OpenPage
<1>2. CASE Render(b)
  <2>1. /\ UNCHANGED <<users, refused>>
        /\ \E s \in {"checked", "asked"} : \E u, a : page' = Set(page, b, At(s, u, a))
    BY <1>2 DEF Render
  <2> QED BY <2>1, PageMoves
<1>3. CASE LoginButton(b)
  BY <1>3, PageMoves DEF LoginButton
<1>4. ASSUME NEW a \in Account, Callback(b, a) PROVE Inv'
  BY <1>4, PageMoves DEF Callback
<1>5. CASE performQuery(b)
  <2>1. \E s \in {"count", "build"} : GoOn(b, s)
    BY <1>5 DEF performQuery
  <2> QED BY <1>5, <2>1, GoesOn, PageMoves DEF performQuery, Inv
<1>6. CASE postgraphileSchema(b)
  <2>1. UNCHANGED <<users, refused>> /\ (GoOn(b, "count") \/ Failed(b))
    BY <1>6 DEF postgraphileSchema
  <2>2. CASE GoOn(b, "count")
    BY <2>1, <2>2, GoesOn, PageMoves DEF Inv
  <2>3. CASE Failed(b)
    BY <2>1, <2>3, LoginEnds, PageMoves
  <2> QED BY <2>1, <2>2, <2>3
<1>7. CASE CountUsers(b)
  BY <1>7, CountKeeps
<1>8. CASE InsertUser(b)
  BY <1>8, InsertKeeps
<1>9. CASE Expire(b)
  BY <1>9, PageStays DEF Expire, pageVars
<1>10. CASE handleSessionExpired(b)
  BY <1>10, PageMoves DEF handleSessionExpired
<1>11. CASE LogoutForm(b)
  BY <1>11, PageMoves DEF LogoutForm
<1>12. CASE ecccApiRouter(b) \/ FileAnswers(b) \/ LogDownload(b) \/ SendFile(b)
  BY <1>12, PageStays
     DEF ecccApiRouter, FileAnswers, LogDownload, SendFile, DownloadOnly, pageVars
<1>13. CASE createServerEnvironment(b)
  BY <1>13, PageMoves DEF createServerEnvironment
<1>14. ASSUME NEW p \in Path, FollowLink(b, p) PROVE Inv'
  BY <1>14, PageMoves DEF FollowLink
<1>15. CASE checkSessionAndGroups(b)
  BY <1>15, PageStays DEF checkSessionAndGroups
<1> QED BY <1>1, <1>2, <1>3, <1>4, <1>5, <1>6, <1>7, <1>8, <1>9, <1>10, <1>11, <1>12,
           <1>13, <1>14, <1>15

(* For any accounts and rows, and logins that interleave in any way: a     *)
(* user is refused only while their row is there, or their email is that   *)
(* of a row that may not move (create_ggircs_user_from_session 15-27).     *)
THEOREM RefusalsHaveReasons == Spec => []RefusedForAReason
<1>1. Inv /\ [Next]_vars => Inv'
  BY StepKeeps
<1>2. Inv => RefusedForAReason
  BY DEF Inv, LastingReason, RefusedForAReason
<1> QED BY InitHolds, <1>1, <1>2, PTL DEF Spec

-----------------------------------------------------------------------------
(* The way back from the login.  While a user wants a page of the          *)
(* application, the URL of their browser is that page or the page of the   *)
(* login with it as its redirectTo; on the way of the login it is the      *)
(* page.  The first is shown only to someone, the second only to guests:   *)
(* between the check and the query of a page a session may end, but no     *)
(* other comes.                                                            *)
LoginPage(url) == <<"/login-redirect">> \o url
Pages == {"asked", "checked", "shown"}

Urls ==
  /\ DOMAIN wanted = Browser
  /\ \A b \in Browser :
       /\ page[b].url \in Seq(Path) /\ wanted[b] \in Seq(Path)
       /\ page[b].status \in Pages => page[b].url # <<>>

Leads(status, url, account, w) ==
  w # <<>> /\ Head(w) \in Protected =>
    /\ status \in Pages => url \in {w, LoginPage(w)}
    /\ status \notin Pages => url = w
    /\ status = "shown" /\ url = w => account # NoAccount
    /\ status = "shown" /\ url = LoginPage(w) => isGuest(getUserGroups(account))

Follows(b) == Leads(page[b].status, page[b].url, page[b].account, wanted[b])

GuestChecked(b) ==
  page[b].status = "checked" /\ Head(page[b].url) = "/login-redirect" =>
    isGuest(getUserGroups(session[b].account))

ReturnInv ==
  /\ PageForm /\ Urls
  /\ \A b \in Browser : Follows(b) /\ GuestChecked(b)

LEMMA LoginPageForm ==
  ASSUME NEW url \in Seq(Path)
  PROVE  /\ LoginPage(url) \in Seq(Path) /\ LoginPage(url) # <<>>
         /\ Head(LoginPage(url)) = "/login-redirect"
         /\ Tail(LoginPage(url)) = url
<1> DEFINE first == <<"/login-redirect">>
<1>1. first \in Seq(Path) /\ Len(first) = 1 /\ first[1] = "/login-redirect"
  BY DEF Path, Open
<1> HIDE DEF first
<1>2. /\ first \o url \in Seq(Path)
      /\ Len(first \o url) = 1 + Len(url)
      /\ \A i \in 1 .. 1 + Len(url) :
           (first \o url)[i] = IF i <= 1 THEN first[i] ELSE url[i - 1]
  <2>1. /\ first \o url \in Seq(Path)
        /\ Len(first \o url) = Len(first) + Len(url)
        /\ \A i \in 1 .. Len(first) + Len(url) :
             (first \o url)[i] = IF i <= Len(first) THEN first[i] ELSE url[i - Len(first)]
    BY <1>1, ConcatProperties, Zenon
  <2> QED BY <1>1, <2>1
<1>3. Len(url) \in Nat
  OBVIOUS
<1>4. first \o url # <<>> /\ Head(first \o url) = "/login-redirect"
  BY <1>1, <1>2, <1>3
<1>5. Tail(first \o url) = url
  <2>1. /\ Tail(first \o url) \in Seq(Path)
        /\ Len(Tail(first \o url)) = Len(url)
        /\ \A i \in 1 .. Len(url) : Tail(first \o url)[i] = (first \o url)[i + 1]
    BY <1>2, <1>3, <1>4, HeadTailProperties
  <2>2. \A i \in 1 .. Len(url) : Tail(first \o url)[i] = url[i]
    BY <2>1, <1>2, <1>3
  <2> QED BY <2>1, <2>2, SeqEqual
<1> QED BY <1>2, <1>4, <1>5 DEF LoginPage, first

(* The groups of a session are groups of GROUP_META, and at least one.     *)
LEMMA GroupsAreKnown ==
  ASSUME NEW a \in Account \cup {NoAccount}
  PROVE  getUserGroups(a) \in Seq(DOMAIN GROUP_META) /\ getUserGroups(a) # <<>>
<1> DEFINE G == DOMAIN GROUP_META
<1>1. "Guest" \in G /\ "Pending_GGIRCS_User" \in G
  BY DEF GROUP_META
<1> HIDE DEF G
<1> SUFFICES getUserGroups(a) \in Seq(G) /\ getUserGroups(a) # <<>>
  BY DEF G
<1>2. CASE a = NoAccount
  BY <1>1, <1>2 DEF getUserGroups
<1>3. CASE a # NoAccount
  <2>1. compactGroups(a.groups) \in Seq(G)
    BY <1>3, PathAssumption DEF G
  <2> QED BY <1>1, <1>3, <2>1 DEF getUserGroups
<1> QED BY <1>2, <1>3

LEMMA LandingIsAPath ==
  ASSUME NEW groups \in Seq(DOMAIN GROUP_META), groups # <<>>
  PROVE  getUserGroupLandingRoute(groups) \in Seq(Path) \ {<<>>}
<1> DEFINE S == ToSet(groups)
           Prio(g) == GROUP_META[g].priority
           First(g) == \A h \in S : Prio(g) <= Prio(h)
<1>1. S \subseteq DOMAIN GROUP_META /\ groups[1] \in S
  BY DEF ToSet
<1>2. DOMAIN GROUP_META =
        {"Guest", "GGIRCS_User", "Realm_Administrator", "Pending_GGIRCS_User"}
  BY DEF GROUP_META
<1>3. /\ Prio("Guest") = 100 /\ Prio("GGIRCS_User") = 2
      /\ Prio("Realm_Administrator") = 0 /\ Prio("Pending_GGIRCS_User") = 3
  BY DEF GROUP_META
<1>4. \E g \in S : First(g)
  <2> HIDE DEF S, Prio
  <2>1. CASE "Realm_Administrator" \in S
    <3>1. First("Realm_Administrator")
      BY <1>1, <1>2, <1>3
    <3> QED BY <2>1, <3>1
  <2>2. CASE "Realm_Administrator" \notin S /\ "GGIRCS_User" \in S
    <3>1. First("GGIRCS_User")
      BY <1>1, <1>2, <1>3, <2>2
    <3> QED BY <2>2, <3>1
  <2>3. CASE "Realm_Administrator" \notin S /\ "GGIRCS_User" \notin S
             /\ "Pending_GGIRCS_User" \in S
    <3>1. First("Pending_GGIRCS_User")
      BY <1>1, <1>2, <1>3, <2>3
    <3> QED BY <2>3, <3>1
  <2>4. CASE S \subseteq {"Guest"}
    <3>1. First("Guest") /\ "Guest" \in S
      BY <1>1, <1>3, <2>4
    <3> QED BY <3>1
  <2> QED BY <1>1, <1>2, <2>1, <2>2, <2>3, <2>4
<1> DEFINE first == CHOOSE g \in S : First(g)
<1>5. first \in DOMAIN GROUP_META
  BY <1>1, <1>4
<1>6. getUserGroupLandingRoute(groups) = GROUP_META[first].path
  BY DEF getUserGroupLandingRoute, getPriorityGroupData
<1>7. \A g \in DOMAIN GROUP_META :
        GROUP_META[g].path \in {GuestLanding, <<"/ggircs">>, <<"/request-access-notice">>}
  BY DEF GROUP_META
<1>8. {GuestLanding, <<"/ggircs">>, <<"/request-access-notice">>} \subseteq Seq(Path) \ {<<>>}
  BY DEF GuestLanding, Path, Open, Protected
<1> HIDE DEF first
<1> QED BY <1>5, <1>6, <1>7, <1>8

(* What a guest may see, and where the others are sent.                    *)
LEMMA Redirects ==
  ASSUME NEW url \in Seq(Path) \ {<<>>}, NEW a \in Account \cup {NoAccount},
         NEW groups, groups = getUserGroups(a)
  PROVE  /\ Redirect(url, groups) \in Seq(Path)
         /\ Head(url) = "/login-redirect" =>
              Redirect(url, groups) =
                IF isGuest(groups) THEN <<>>
                ELSE IF Tail(url) # <<>> THEN Tail(url) ELSE <<"/">>
         /\ Head(url) \in Protected =>
              Redirect(url, groups) =
                IF isRouteAuthorized(url, groups) THEN <<>>
                ELSE IF isGuest(groups) THEN LoginPage(url)
                ELSE getUserGroupLandingRoute(groups)
<1>1. getUserGroupLandingRoute(groups) \in Seq(Path)
  BY GroupsAreKnown, LandingIsAPath
<1>2. LoginPage(url) \in Seq(Path) /\ Tail(url) \in Seq(Path)
  BY LoginPageForm
<1>3. <<>> \in Seq(Path) /\ <<"/">> \in Seq(Path)
  BY DEF Path, Open
<1>4. Index(url, groups) \in Seq(Path)
  BY <1>1, <1>3 DEF Index
<1>5. LoginRedirect(url, groups) \in Seq(Path)
  BY <1>2, <1>3 DEF LoginRedirect
<1>6. withRelayOptions(url, groups) \in Seq(Path)
  BY <1>1, <1>2, <1>3 DEF withRelayOptions, LoginPage
<1>7. Redirect(url, groups) \in Seq(Path)
  BY <1>3, <1>4, <1>5, <1>6 DEF Redirect
<1>8. Head(url) = "/login-redirect" => Redirect(url, groups) = LoginRedirect(url, groups)
  BY DEF Redirect, NoPage
<1>9. Head(url) \in Protected => Redirect(url, groups) = withRelayOptions(url, groups)
  BY DEF Redirect, Protected, NoPage
<1> QED BY <1>7, <1>8, <1>9 DEF LoginRedirect, withRelayOptions, LoginPage

(* A URL that is wanted is not the page of the login.                      *)
LEMMA WantedIsNotLogin ==
  ASSUME NEW url \in Seq(Path), Head(url) \in Protected
  PROVE  url # LoginPage(url)
  BY LoginPageForm DEF Protected

-----------------------------------------------------------------------------
(* A step of the browser b that sets its page, and perhaps what is wanted, *)
(* and the session only of b.                                              *)
LEMMA ReturnsWhenSet ==
  ASSUME ReturnInv, NEW b \in Browser,
         NEW s, NEW u \in Seq(Path), NEW a, page' = Set(page, b, At(s, u, a)),
         s \in Pages => u # <<>>,
         NEW w \in Seq(Path), (wanted' = wanted /\ w = wanted[b]) \/ wanted' = Set(wanted, b, w),
         Leads(s, u, a, w),
         \A c \in Browser : c # b => session'[c] = session[c],
         GuestChecked(b)'
  PROVE  ReturnInv'
<1>1. PageForm'
  BY DEF ReturnInv, PageForm, Set, At
<1>2. /\ page'[b] = At(s, u, a) /\ wanted'[b] = w
      /\ \A c \in Browser : c # b => page'[c] = page[c] /\ wanted'[c] = wanted[c]
      /\ DOMAIN wanted' = Browser
  BY DEF ReturnInv, PageForm, Urls, Set
<1>3. Urls'
  BY <1>2 DEF ReturnInv, Urls, At
<1>4. ASSUME NEW c \in Browser PROVE Follows(c)' /\ GuestChecked(c)'
  <2>1. CASE c = b
    BY <1>2, <2>1 DEF Follows, At
  <2>2. CASE c # b
    BY <1>2, <2>2 DEF ReturnInv, Follows, GuestChecked
  <2> QED BY <2>1, <2>2
<1> QED BY <1>1, <1>3, <1>4 DEF ReturnInv

(* What is checked is not set by this step.                                *)
LEMMA NotChecked ==
  ASSUME PageForm, NEW b \in Browser, NEW s, s # "checked", NEW u, NEW a,
         page' = Set(page, b, At(s, u, a))
  PROVE  GuestChecked(b)'
  BY DEF GuestChecked, PageForm, Set, At

LEMMA NobodyIsAGuest == isGuest(getUserGroups(NoAccount))
  BY DEF isGuest, getUserGroups

LEMMA ReturnsWhenLeft ==
  ASSUME ReturnInv, UNCHANGED <<page, wanted>>, NEW b \in Browser, DOMAIN session = Browser,
         session' = session \/ session' = Set(session, b, Nobody)
  PROVE  ReturnInv'
<1>1. PageForm' /\ Urls' /\ \A c \in Browser : Follows(c)'
  BY DEF ReturnInv, PageForm, Urls, Follows
<1>2. ASSUME NEW c \in Browser PROVE GuestChecked(c)'
  <2>1. session'[c] = session[c] \/ session'[c] = Nobody
    BY DEF Set
  <2> QED BY <2>1, NobodyIsAGuest DEF ReturnInv, GuestChecked, Nobody
<1> QED BY <1>1, <1>2 DEF ReturnInv

(* The accounts of sessions, and of those on the way of a login.           *)
OnTheWay == {"schema", "build", "count", "insert"}

Accounts ==
  /\ DOMAIN session = Browser
  /\ \A b \in Browser :
       /\ session[b] \in Signed
       /\ page[b].status \in OnTheWay => page[b].account \in Account

LEMMA AccountsStay ==
  ASSUME Accounts, PageForm, NEW b \in Browser,
         NEW s \in Signed, session' = session \/ session' = Set(session, b, s),
         NEW t, NEW u, NEW a, page' = page \/ page' = Set(page, b, At(t, u, a)),
         t \in OnTheWay => a \in Account
  PROVE  Accounts'
<1>1. DOMAIN session' = Browser /\ \A c \in Browser : session'[c] \in Signed
  BY DEF Accounts, Set
<1>2. \A c \in Browser : page'[c].status \in OnTheWay => page'[c].account \in Account
  BY DEF Accounts, PageForm, Set, At
<1> QED BY <1>1, <1>2 DEF Accounts

LEMMA LoginAccounts ==
  ASSUME Accounts, NEW b \in Browser, page[b].status \in OnTheWay,
         LoggedIn(b) \/ Failed(b)
  PROVE  \E s \in Signed : session' = Set(session, b, s)
  BY DEF Accounts, LoggedIn, Failed, Signed

LEMMA AccountsStep ==
  ASSUME Accounts, PageForm, [Next]_vars
  PROVE  Accounts'
<1> SUFFICES ASSUME NEW b \in Browser,
                    \/ \E p \in Target : OpenPage(b, p)
                    \/ Render(b)
                    \/ createServerEnvironment(b)
                    \/ \E p \in Path : FollowLink(b, p)
                    \/ LoginButton(b)
                    \/ \E a \in Account : Callback(b, a)
                    \/ performQuery(b)
                    \/ postgraphileSchema(b)
                    \/ CountUsers(b)
                    \/ InsertUser(b)
                    \/ Expire(b)
                    \/ checkSessionAndGroups(b)
                    \/ handleSessionExpired(b)
                    \/ LogoutForm(b)
                    \/ ecccApiRouter(b)
                    \/ FileAnswers(b)
                    \/ LogDownload(b)
                    \/ SendFile(b)
             PROVE  Accounts'
  BY DEF Next, vars, pageVars, Accounts
<1>1. Nobody \in Signed
  BY DEF Nobody, Signed
<1>2. ASSUME NEW p \in Target, OpenPage(b, p) PROVE Accounts'
  BY <1>1, <1>2, AccountsStay DEF OpenPage, OnTheWay
<1>3. CASE Render(b)
  <2>1. \E t \in {"checked", "asked"} : \E u, a : page' = Set(page, b, At(t, u, a))
    BY <1>3 DEF Render
  <2>2. session' = session
    BY <1>3 DEF Render
  <2>3. "checked" \notin OnTheWay /\ "asked" \notin OnTheWay
    BY DEF OnTheWay
  <2> QED BY <1>1, <2>1, <2>2, <2>3, AccountsStay
<1>4. CASE LoginButton(b)
  BY <1>1, <1>4, AccountsStay DEF LoginButton, OnTheWay
<1>5. ASSUME NEW a \in Account, Callback(b, a) PROVE Accounts'
  BY <1>1, <1>5, AccountsStay DEF Callback
<1>6. ASSUME NEW t, GoOn(b, t), page[b].status \in OnTheWay PROVE Accounts'
  <2>1. page[b].account \in Account /\ session' = session
    BY <1>6 DEF Accounts, GoOn
  <2> QED BY <1>1, <1>6, <2>1, GoesOn, AccountsStay
<1>7. ASSUME LoggedIn(b) \/ Failed(b), page[b].status \in OnTheWay PROVE Accounts'
  <2>1. \E u : page' = Set(page, b, At("asked", u, NoAccount))
    BY <1>7, LoginEnds
  <2>2. \E x \in Signed : session' = Set(session, b, x)
    BY <1>7, LoginAccounts
  <2>3. "asked" \notin OnTheWay
    BY DEF OnTheWay
  <2> QED BY <2>1, <2>2, <2>3, AccountsStay
<1>8. CASE performQuery(b) \/ postgraphileSchema(b) \/ CountUsers(b) \/ InsertUser(b)
  <2>1. \/ \E t : GoOn(b, t)
        \/ LoggedIn(b) \/ Failed(b)
    BY <1>8 DEF performQuery, postgraphileSchema, CountUsers, InsertUser
  <2>2. page[b].status \in OnTheWay
    BY <1>8 DEF performQuery, postgraphileSchema, CountUsers, InsertUser, OnTheWay
  <2> QED BY <1>6, <1>7, <2>1, <2>2
<1>9. CASE Expire(b)
  <2>1. session' = Set(session, b, Nobody) /\ page' = page
    BY <1>9 DEF Expire, pageVars
  <2>2. "asked" \notin OnTheWay
    BY DEF OnTheWay
  <2> QED BY <1>1, <2>1, <2>2, AccountsStay
<1>10. CASE handleSessionExpired(b)
  BY <1>1, <1>10, AccountsStay DEF handleSessionExpired, OnTheWay
<1>11. CASE LogoutForm(b)
  BY <1>1, <1>11, AccountsStay DEF LogoutForm, OnTheWay
<1>12. CASE ecccApiRouter(b) \/ FileAnswers(b) \/ LogDownload(b) \/ SendFile(b)
  BY <1>12 DEF ecccApiRouter, FileAnswers, LogDownload, SendFile, DownloadOnly, pageVars,
               Accounts
<1>13. CASE createServerEnvironment(b)
  BY <1>1, <1>13, AccountsStay DEF createServerEnvironment, OnTheWay
<1>14. ASSUME NEW p \in Path, FollowLink(b, p) PROVE Accounts'
  BY <1>1, <1>14, AccountsStay DEF FollowLink, OnTheWay
<1>15. CASE checkSessionAndGroups(b)
  BY <1>15 DEF checkSessionAndGroups, Accounts
<1> QED BY <1>2, <1>3, <1>4, <1>5, <1>8, <1>9, <1>10, <1>11, <1>12, <1>13, <1>14, <1>15

LEMMA RenderReturns ==
  ASSUME ReturnInv, Accounts, NEW b \in Browser, Render(b)
  PROVE  ReturnInv'
<1> DEFINE a == session[b].account
           groups == getUserGroups(a)
           url == page[b].url
           to == Redirect(url, groups)
           kept == isGuest(groups) \/ wanted[b] = <<>> \/ isRouteAuthorized(wanted[b], groups)
           s == IF to = <<>> THEN "checked" ELSE "asked"
           u == IF to = <<>> THEN url ELSE to
           w == IF kept THEN wanted[b] ELSE <<>>
<1>1. a \in Account \cup {NoAccount}
  BY DEF Accounts, Signed
<1>2. url \in Seq(Path) \ {<<>>} /\ wanted[b] \in Seq(Path)
  BY DEF Render, ReturnInv, Urls, Pages
<1>3. to \in Seq(Path)
  BY <1>1, <1>2, Redirects
<1>4. /\ page' = Set(page, b, At(s, u, NoAccount))
      /\ (wanted' = wanted /\ w = wanted[b]) \/ wanted' = Set(wanted, b, w)
      /\ session' = session
  BY DEF Render
<1>5. /\ u \in Seq(Path) /\ u # <<>> /\ w \in Seq(Path)
      /\ s \in {"asked", "checked"}
  BY <1>2, <1>3
<1>6. ASSUME w # <<>>, Head(w) \in Protected
      PROVE  u \in {w, LoginPage(w)}
  <2>1. w = wanted[b] /\ kept
    BY <1>6
  <2>2. w \in Seq(Path) /\ url \in {w, LoginPage(w)}
    BY <1>2, <1>6, <2>1 DEF ReturnInv, Follows, Leads, Render, Pages
  <2>3. CASE url = w
    <3>1. to = IF isRouteAuthorized(w, groups) THEN <<>>
               ELSE IF isGuest(groups) THEN LoginPage(w)
               ELSE getUserGroupLandingRoute(groups)
      BY <1>1, <1>2, <1>6, <2>3, Redirects
    <3> HIDE DEF to, groups, a, kept, w
    <3>2. CASE isRouteAuthorized(w, groups)
      BY <3>1, <3>2, <2>3 DEF groups
    <3>3. CASE ~ isRouteAuthorized(w, groups)
      <4>1. isGuest(groups)
        BY <1>6, <2>1, <3>3 DEF kept
      <4>2. LoginPage(w) # <<>>
        BY <2>2, LoginPageForm
      <4> QED BY <3>1, <3>3, <4>1, <4>2
    <3> QED BY <3>2, <3>3
  <2>4. CASE url = LoginPage(w)
    <3>1. Head(url) = "/login-redirect" /\ Tail(url) = w
      BY <2>2, <2>4, LoginPageForm
    <3>2. to = IF isGuest(groups) THEN <<>> ELSE w
      BY <1>1, <1>2, <1>6, <3>1, Redirects
    <3> HIDE DEF to, groups, a, kept, w
    <3> QED BY <1>6, <3>2, <2>4
  <2> QED BY <2>2, <2>3, <2>4
<1>7. GuestChecked(b)'
  <2>1. PageForm /\ (s # "checked" => GuestChecked(b)')
    BY <1>4, NotChecked DEF ReturnInv
  <2>2. ASSUME to = <<>>, Head(url) = "/login-redirect" PROVE isGuest(groups)
    <3>1. to = IF isGuest(groups) THEN <<>>
               ELSE IF Tail(url) # <<>> THEN Tail(url) ELSE <<"/">>
      BY <1>1, <1>2, <2>2, Redirects
    <3> HIDE DEF to, groups, a, url
    <3> QED BY <2>2, <3>1
  <2>3. CASE to = <<>>
    <3>1. page'[b].url = url /\ session'[b].account = a
      BY <1>4, <2>1, <2>3 DEF PageForm, Set, At
    <3> HIDE DEF a, url
    <3> QED BY <2>2, <2>3, <3>1 DEF GuestChecked, groups
  <2> QED BY <2>1, <2>3
<1> HIDE DEF a, groups, url, to, kept, s, u, w
<1>8. Leads(s, u, NoAccount, w)
  BY <1>5, <1>6 DEF Leads, Pages
<1> QED BY <1>4, <1>5, <1>7, <1>8, ReturnsWhenSet

(* The query of the page: what is wanted stays only where the page is      *)
(* shown for someone, or is the page of the login.                         *)
LEMMA QueryReturns ==
  ASSUME ReturnInv, NEW b \in Browser, createServerEnvironment(b)
  PROVE  ReturnInv'
<1> DEFINE url == page[b].url
           a == IF Head(url) = NoPage THEN NoAccount ELSE session[b].account
           lost == a = NoAccount /\ Head(url) # "/login-redirect"
           w == IF lost THEN <<>> ELSE wanted[b]
<1>1. /\ page[b].status = "checked"
      /\ page' = Set(page, b, At("shown", url, a))
      /\ (wanted' = wanted /\ w = wanted[b]) \/ wanted' = Set(wanted, b, w)
      /\ session' = session
  BY DEF createServerEnvironment
<1>2. url \in Seq(Path) /\ url # <<>> /\ wanted[b] \in Seq(Path) /\ w \in Seq(Path)
  BY <1>1 DEF ReturnInv, Urls, Pages
<1>3. GuestChecked(b)'
  BY <1>1, NotChecked DEF ReturnInv
<1>4. ASSUME w # <<>>, Head(w) \in Protected
      PROVE  /\ url \in {w, LoginPage(w)}
             /\ url = w => a # NoAccount
             /\ url = LoginPage(w) => isGuest(getUserGroups(a))
  <2>1. w = wanted[b] /\ ~ lost
    BY <1>4
  <2>2. url \in {w, LoginPage(w)}
    BY <1>1, <1>4, <2>1 DEF ReturnInv, Follows, Leads, Pages
  <2>3. url = w => a # NoAccount
    BY <1>4, <2>1 DEF Protected
  <2>4. ASSUME url = LoginPage(w) PROVE isGuest(getUserGroups(a))
    <3>1. Head(url) = "/login-redirect"
      BY <1>2, <2>1, <2>4, LoginPageForm
    <3>2. isGuest(getUserGroups(session[b].account))
      BY <1>1, <3>1 DEF ReturnInv, GuestChecked
    <3> QED BY <3>1, <3>2 DEF NoPage
  <2> QED BY <2>2, <2>3, <2>4
<1> HIDE DEF url, a, lost, w
<1>5. Leads("shown", url, a, w)
  BY <1>4 DEF Leads, Pages
<1> QED BY <1>1, <1>2, <1>3, <1>5, ReturnsWhenSet

(* The button of a page leads to the login with what is wanted: a page     *)
(* without an account that shows something wanted is the page of the login.*)
LEMMA ButtonReturns ==
  ASSUME ReturnInv, NEW b \in Browser, LoginButton(b)
  PROVE  ReturnInv'
<1> DEFINE url == page[b].url
           w == wanted[b]
<1>1. /\ page' = Set(page, b, At("login", Tail(url), NoAccount)) /\ wanted' = wanted
      /\ page[b].status = "shown" /\ page[b].account = NoAccount
      /\ session' = session
  BY DEF LoginButton, getRedirectUri
<1>2. url \in Seq(Path) /\ url # <<>> /\ w \in Seq(Path)
  BY <1>1 DEF ReturnInv, Urls, Pages
<1>3. Tail(url) \in Seq(Path)
  BY <1>2
<1>4. ASSUME w # <<>>, Head(w) \in Protected PROVE Tail(url) = w
  <2>1. url = LoginPage(w)
    BY <1>1, <1>4 DEF ReturnInv, Follows, Leads, Pages
  <2> QED BY <1>2, <2>1, LoginPageForm
<1>5. GuestChecked(b)'
  BY <1>1, NotChecked DEF ReturnInv
<1> HIDE DEF url
<1>6. Leads("login", Tail(url), NoAccount, w)
  BY <1>4 DEF Leads, Pages
<1> QED BY <1>1, <1>2, <1>3, <1>5, <1>6, ReturnsWhenSet DEF Pages

(* On the way of a login the URL of the browser stays the same.            *)
LEMMA GoingOnReturns ==
  ASSUME ReturnInv, NEW b \in Browser, page[b].status \notin Pages,
         NEW s, s \notin Pages, NEW a,
         page' = Set(page, b, At(s, page[b].url, a)), UNCHANGED <<wanted, session>>
  PROVE  ReturnInv'
<1> DEFINE url == page[b].url
           w == wanted[b]
<1>1. url \in Seq(Path) /\ w \in Seq(Path)
  BY DEF ReturnInv, Urls
<1>2. w # <<>> /\ Head(w) \in Protected => url = w
  BY DEF ReturnInv, Follows, Leads
<1>3. GuestChecked(b)'
  BY NotChecked DEF ReturnInv, Pages
<1> HIDE DEF url
<1>4. page' = Set(page, b, At(s, url, a))
  BY DEF url
<1>5. Leads(s, url, a, w)
  BY <1>2 DEF Leads, Pages
<1> QED BY <1>1, <1>3, <1>4, <1>5, ReturnsWhenSet

LEMMA LoggedInReturns ==
  ASSUME ReturnInv, Accounts, NEW b \in Browser, page[b].status \in OnTheWay, LoggedIn(b)
  PROVE  ReturnInv'
<1> DEFINE url == page[b].url
           w == wanted[b]
           landing == getUserGroupLandingRoute(getUserGroups(page[b].account))
           u == IF url # <<>> THEN url ELSE landing
<1>1. landing \in Seq(Path) \ {<<>>}
  BY GroupsAreKnown, LandingIsAPath DEF Accounts
<1>2. url \in Seq(Path) /\ w \in Seq(Path)
  BY DEF ReturnInv, Urls
<1>3. w # <<>> /\ Head(w) \in Protected => url = w
  BY DEF ReturnInv, Follows, Leads, OnTheWay, Pages
<1>4. /\ page' = Set(page, b, At("asked", u, NoAccount)) /\ wanted' = wanted
      /\ \A c \in Browser : c # b => session'[c] = session[c]
  BY DEF LoggedIn, Set, Accounts
<1>5. GuestChecked(b)'
  BY <1>4, NotChecked DEF ReturnInv
<1> HIDE DEF url, landing
<1>6. u \in Seq(Path) /\ u # <<>>
  BY <1>1, <1>2
<1>7. w # <<>> /\ Head(w) \in Protected => u = w
  BY <1>3
<1>8. Leads("asked", u, NoAccount, w)
  BY <1>7 DEF Leads, Pages
<1> HIDE DEF u
<1> QED BY <1>2, <1>4, <1>5, <1>6, <1>8, ReturnsWhenSet

(* A step that forgets what was wanted.                                    *)
LEMMA ForgettingReturns ==
  ASSUME ReturnInv, NEW b \in Browser, NEW s \in {"asked", "shown"}, NEW p \in Path, NEW a,
         page' = Set(page, b, At(s, <<p>>, a)), wanted' = Set(wanted, b, <<>>),
         \A c \in Browser : c # b => session'[c] = session[c]
  PROVE  ReturnInv'
<1> DEFINE u == <<p>>
           w == <<>>
<1>1. u \in Seq(Path) /\ u # <<>> /\ w \in Seq(Path)
  OBVIOUS
<1>2. GuestChecked(b)'
  BY NotChecked DEF ReturnInv
<1>3. page' = Set(page, b, At(s, u, a)) /\ wanted' = Set(wanted, b, w)
  OBVIOUS
<1>4. Leads(s, u, a, w)
  BY DEF Leads
<1> HIDE DEF u, w
<1> QED BY <1>1, <1>2, <1>3, <1>4, ReturnsWhenSet

LEMMA OpenReturns ==
  ASSUME ReturnInv, NEW b \in Browser, NEW p \in Target, OpenPage(b, p)
  PROVE  ReturnInv'
<1> DEFINE u == <<p>>
<1>1. u \in Seq(Path) /\ u # <<>>
  BY PathAssumption
<1>2. /\ page' = Set(page, b, At("asked", u, NoAccount)) /\ wanted' = Set(wanted, b, u)
      /\ session' = session
  BY DEF OpenPage
<1>3. GuestChecked(b)'
  BY <1>2, NotChecked DEF ReturnInv
<1>4. Leads("asked", u, NoAccount, u)
  BY DEF Leads, Pages
<1> HIDE DEF u
<1> QED BY <1>1, <1>2, <1>3, <1>4, ReturnsWhenSet

LEMMA ExpiredReturns ==
  ASSUME ReturnInv, NEW b \in Browser, handleSessionExpired(b)
  PROVE  ReturnInv'
<1> DEFINE w == page[b].url
           u == LoginPage(w)
<1>1. w \in Seq(Path) /\ w # <<>>
  BY DEF ReturnInv, Urls, handleSessionExpired, Pages
<1>2. u \in Seq(Path) /\ u # <<>>
  BY <1>1, LoginPageForm
<1>3. /\ page' = Set(page, b, At("shown", u, NoAccount)) /\ wanted' = Set(wanted, b, w)
      /\ session' = session
  BY DEF handleSessionExpired, LoginPage
<1>4. Head(w) \in Protected => u # w
  BY <1>1, WantedIsNotLogin
<1>5. GuestChecked(b)'
  BY <1>3, NotChecked DEF ReturnInv
<1>6. Leads("shown", u, NoAccount, w)
  BY <1>4, NobodyIsAGuest DEF Leads, Pages
<1> HIDE DEF w, u
<1> QED BY <1>1, <1>2, <1>3, <1>5, <1>6, ReturnsWhenSet

LEMMA ReturnStep ==
  ASSUME ReturnInv, Accounts, [Next]_vars
  PROVE  ReturnInv'
<1>1. Nobody \in Signed /\ DOMAIN session = Browser
  BY DEF Nobody, Signed, Accounts
<1>2. ASSUME NEW b \in Browser, UNCHANGED <<page, wanted>>,
             session' = session \/ session' = Set(session, b, Nobody)
      PROVE  ReturnInv'
  BY <1>1, <1>2, ReturnsWhenLeft
<1>3. ASSUME UNCHANGED <<page, wanted, session>> PROVE ReturnInv'
  BY <1>3 DEF ReturnInv, PageForm, Urls, Follows, GuestChecked
<1> SUFFICES ASSUME NEW b \in Browser,
                    \/ \E p \in Target : OpenPage(b, p)
                    \/ Render(b)
                    \/ createServerEnvironment(b)
                    \/ \E p \in Path : FollowLink(b, p)
                    \/ LoginButton(b)
                    \/ \E a \in Account : Callback(b, a)
                    \/ performQuery(b)
                    \/ postgraphileSchema(b)
                    \/ CountUsers(b)
                    \/ InsertUser(b)
                    \/ Expire(b)
                    \/ checkSessionAndGroups(b)
                    \/ handleSessionExpired(b)
                    \/ LogoutForm(b)
                    \/ ecccApiRouter(b)
                    \/ FileAnswers(b)
                    \/ LogDownload(b)
                    \/ SendFile(b)
             PROVE  ReturnInv'
  BY <1>3 DEF Next, vars
<1>4. ASSUME NEW p \in Target, OpenPage(b, p) PROVE ReturnInv'
  BY <1>4, OpenReturns
<1>5. CASE Render(b)
  BY <1>5, RenderReturns
<1>6. CASE createServerEnvironment(b)
  BY <1>6, QueryReturns
<1>7. ASSUME NEW p \in Path, FollowLink(b, p) PROVE ReturnInv'
  <2>1. PICK a : page' = Set(page, b, At("shown", <<p>>, a))
    BY <1>7 DEF FollowLink
  <2> QED BY <1>7, <2>1, ForgettingReturns DEF FollowLink
<1>8. CASE LoginButton(b)
  BY <1>8, ButtonReturns
<1>9. ASSUME NEW a \in Account, Callback(b, a) PROVE ReturnInv'
  <2>1. /\ page[b].status = "login" /\ UNCHANGED <<wanted, session>>
        /\ page' = Set(page, b, At("schema", page[b].url, a))
    BY <1>9 DEF Callback
  <2> QED BY <2>1, GoingOnReturns DEF Pages
<1>10. ASSUME NEW t, GoOn(b, t), t \in OnTheWay, page[b].status \in OnTheWay
       PROVE  ReturnInv'
  <2>1. /\ page' = Set(page, b, At(t, page[b].url, page[b].account))
        /\ UNCHANGED <<wanted, session>>
    BY <1>10, GoesOn DEF ReturnInv, GoOn
  <2>2. OnTheWay \cap Pages = {}
    BY DEF OnTheWay, Pages
  <2> QED BY <1>10, <2>1, <2>2, GoingOnReturns
<1>11. "/" \in Path
  BY DEF Path, Open
<1>12. ASSUME Failed(b) \/ LogoutForm(b) PROVE ReturnInv'
  <2>1. /\ page' = Set(page, b, At("asked", <<"/">>, NoAccount))
        /\ wanted' = Set(wanted, b, <<>>)
        /\ \A c \in Browser : c # b => session'[c] = session[c]
    BY <1>1, <1>12 DEF Failed, LogoutForm, Set
  <2> QED BY <1>11, <2>1, ForgettingReturns
<1>13. CASE performQuery(b) \/ postgraphileSchema(b) \/ CountUsers(b) \/ InsertUser(b)
  <2>1. \/ \E t \in OnTheWay : GoOn(b, t)
        \/ LoggedIn(b) \/ Failed(b)
    BY <1>13 DEF performQuery, postgraphileSchema, CountUsers, InsertUser, OnTheWay
  <2>2. page[b].status \in OnTheWay
    BY <1>13 DEF performQuery, postgraphileSchema, CountUsers, InsertUser, OnTheWay
  <2> QED BY <1>10, <1>12, <2>1, <2>2, LoggedInReturns
<1>14. CASE Expire(b)
  BY <1>2, <1>14 DEF Expire, pageVars
<1>15. CASE checkSessionAndGroups(b)
  BY <1>3, <1>15 DEF checkSessionAndGroups
<1>16. CASE handleSessionExpired(b)
  BY <1>16, ExpiredReturns
<1>17. CASE ecccApiRouter(b) \/ FileAnswers(b) \/ LogDownload(b) \/ SendFile(b)
  BY <1>3, <1>17
     DEF ecccApiRouter, FileAnswers, LogDownload, SendFile, DownloadOnly, pageVars
<1> QED BY <1>4, <1>5, <1>6, <1>7, <1>8, <1>9, <1>12, <1>13, <1>14, <1>15, <1>16, <1>17

LEMMA ReturnInit == Init => ReturnInv /\ Accounts
<1> SUFFICES ASSUME Init PROVE ReturnInv /\ Accounts
  OBVIOUS
<1>1. PageForm /\ \A b \in Browser : page[b] = At("shown", <<NoPage>>, NoAccount)
  BY DEF Init, PageForm, At
<1>2. <<NoPage>> \in Seq(Path) /\ <<NoPage>> # <<>> /\ <<>> \in Seq(Path)
  BY DEF Path
<1>3. Urls
  BY <1>1, <1>2 DEF Init, Urls, At
<1>4. \A b \in Browser : Follows(b) /\ GuestChecked(b)
  BY <1>1 DEF Init, Follows, Leads, GuestChecked, At
<1>5. Accounts
  BY <1>1 DEF Init, Accounts, Nobody, Signed, At, OnTheWay
<1> QED BY <1>1, <1>3, <1>4, <1>5 DEF ReturnInv

(* However often the session ends on the way and whoever signs in: someone *)
(* who asked the server for a page of the application, or was taken to the *)
(* page of the login from one, and may see it, is at that page when one is *)
(* shown to them signed in, unless a page was shown for nobody, a link was *)
(* followed or a login failed meanwhile (login-redirect 30-34,             *)
(* getRedirectUri).                                                        *)
THEOREM LoginsReturn == Spec => []LoginReturns
<1>1. ReturnInv /\ Accounts /\ [Next]_vars => ReturnInv' /\ Accounts'
  BY ReturnStep, AccountsStep DEF ReturnInv
<1>2. ReturnInv => LoginReturns
  BY DEF ReturnInv, Follows, Leads, LoginReturns, Pages
<1> QED BY ReturnInit, <1>1, <1>2, PTL DEF Spec

-----------------------------------------------------------------------------
(* The log of the downloads, for accounts with subs of their own.          *)
(* A row with the sub of an account is its row, and stays.                 *)
RowsMatch ==
  \A u \in users, a \in Account : u.sub = a.sub => u.email = a.email /\ ~ u.allow

HasRow(a) == \E u \in users : u.sub = a.sub

LoginsHaveRows ==
  \A b \in Browser : session[b].complete =>
    session[b].account \in Account /\ HasRow(session[b].account)

RowOK(r) ==
  ~ r.transfer.ended =>
    /\ r.downloaded_by \subseteq {r.transfer.account.email}
    /\ r.transfer.complete => r.downloaded_by # {}

DownloadOK(b, d) ==
  /\ d = [no |-> d.no, account |-> d.account, complete |-> d.complete,
          ended |-> d.ended, state |-> d.state]
  /\ d.account \in Account
  /\ ~ d.ended => session[b].account = d.account /\ session[b].complete = d.complete

LogInv ==
  /\ RowsMatch /\ LoginsHaveRows
  /\ DOMAIN download = Browser
  /\ \A b \in Browser : \A d \in download[b] : DownloadOK(b, d)
  /\ \A r \in log : RowOK(r)

(* The rows of accounts stay, and so do those who have one.                *)
LEMMA RowsStay ==
  ASSUME SubsAreOwn, RowsMatch, NEW b \in Browser, page[b].account \in Account, InsertUser(b)
  PROVE  /\ RowsMatch'
         /\ \A a \in Account : HasRow(a) => HasRow(a)'
         /\ MayInsert(users, page[b].account) =>
              \E u \in users' : u.sub = page[b].account.sub
<1> DEFINE x == page[b].account
<1>1. CASE MayInsert(users, x)
  <2>1. users' = upsert(users, x)
    BY <1>1 DEF InsertUser
  <2>2. RowsMatch'
    BY <2>1 DEF RowsMatch, SubsAreOwn, upsert
  <2>3. ASSUME NEW a \in Account, HasRow(a) PROVE HasRow(a)'
    <3>1. PICK u \in users : u.sub = a.sub
      BY <2>3 DEF HasRow
    <3>2. ~ u.allow
      BY <3>1 DEF RowsMatch
    <3>3. u \in users'
      BY <1>1, <2>1, <3>2, UpsertKeeps
    <3> QED BY <3>1, <3>3 DEF HasRow
  <2>4. \E u \in users' : u.sub = x.sub
    <3>1. [sub |-> x.sub, email |-> x.email, allow |-> FALSE] \in users'
      BY <2>1 DEF upsert
    <3> QED BY <3>1
  <2> QED BY <2>2, <2>3, <2>4
<1>2. CASE ~ MayInsert(users, x)
  <2>1. users' = users
    BY <1>2 DEF InsertUser
  <2> QED BY <1>2, <2>1 DEF RowsMatch, HasRow
<1> QED BY <1>1, <1>2

(* When the session of b changes, or rows come, the downloads are ended or *)
(* those of other browsers.                                                *)
LEMMA LogKeeps ==
  ASSUME LogInv, Accounts, NEW b \in Browser,
         RowsMatch', \A a \in Account : HasRow(a) => HasRow(a)',
         NEW s \in Signed,
         \/ UNCHANGED <<session, download>>
         \/ session' = Set(session, b, s) /\ Ended(b),
         s.complete => s.account \in Account /\ HasRow(s.account)',
         UNCHANGED log
  PROVE  LogInv'
<1>1. LoginsHaveRows'
  BY DEF LogInv, LoginsHaveRows, Accounts, Set
<1>2. \A r \in log' : RowOK(r)
  BY DEF LogInv
<1>3. CASE UNCHANGED <<session, download>>
  <2>1. \A c \in Browser : \A d \in download'[c] : DownloadOK(c, d)'
    BY <1>3 DEF LogInv, DownloadOK
  <2> QED BY <1>1, <1>2, <1>3, <2>1 DEF LogInv
<1>4. CASE session' = Set(session, b, s) /\ Ended(b)
  <2>1. /\ DOMAIN download' = Browser
        /\ \A c \in Browser : c # b => download'[c] = download[c] /\ session'[c] = session[c]
        /\ download'[b] = {[d EXCEPT !.ended = TRUE] : d \in download[b]}
    BY <1>4 DEF LogInv, Accounts, Ended, Set
  <2>2. ASSUME NEW c \in Browser, NEW d \in download'[c] PROVE DownloadOK(c, d)'
    <3>1. CASE c = b
      <4>1. PICK e \in download[b] : d = [e EXCEPT !.ended = TRUE]
        BY <2>1, <2>2, <3>1
      <4>2. e = [no |-> e.no, account |-> e.account, complete |-> e.complete,
                 ended |-> e.ended, state |-> e.state]
        BY DEF LogInv, DownloadOK
      <4>3. d = [no |-> e.no, account |-> e.account, complete |-> e.complete,
                 ended |-> TRUE, state |-> e.state]
        BY <4>1, <4>2
      <4> QED BY <4>2, <4>3 DEF LogInv, DownloadOK
    <3>2. CASE c # b
      BY <2>1, <2>2, <3>2 DEF LogInv, DownloadOK
    <3> QED BY <3>1, <3>2
  <2> QED BY <1>1, <1>2, <2>1, <2>2 DEF LogInv
<1> QED BY <1>3, <1>4

(* A step of a download.                                                   *)
LEMMA DownloadStep ==
  ASSUME LogInv, NEW b \in Browser, NEW D, download' = Set(download, b, D),
         UNCHANGED <<session, users>>,
         \A d \in D : DownloadOK(b, d)', \A r \in log' : RowOK(r)
  PROVE  LogInv'
<1>1. /\ DOMAIN download' = Browser /\ download'[b] = D
      /\ \A c \in Browser : c # b => download'[c] = download[c]
  BY DEF LogInv, Set
<1>2. RowsMatch' /\ LoginsHaveRows'
  BY DEF LogInv, RowsMatch, LoginsHaveRows, HasRow
<1>3. ASSUME NEW c \in Browser, NEW d \in download'[c] PROVE DownloadOK(c, d)'
  <2>1. CASE c = b
    BY <1>1, <1>3, <2>1
  <2>2. CASE c # b
    BY <1>1, <1>3, <2>2 DEF LogInv, DownloadOK
  <2> QED BY <2>1, <2>2
<1> QED BY <1>1, <1>2, <1>3 DEF LogInv

LEMMA RouterLogs ==
  ASSUME LogInv, Accounts, NEW b \in Browser, ecccApiRouter(b)
  PROVE  LogInv'
<1> PICK d : d = [no |-> counters.downloads + 1, account |-> session[b].account,
                 complete |-> session[b].complete, ended |-> FALSE, state |-> "fetch"]
  OBVIOUS
<1>1. /\ download' = Set(download, b, {d})
      /\ UNCHANGED <<session, users, log>>
  BY DEF ecccApiRouter, DownloadOnly
<1>2. session[b].account \in Account
  BY DEF Accounts, Signed, ecccApiRouter
<1>3. DownloadOK(b, d)'
  BY <1>1, <1>2 DEF DownloadOK
<1>4. \A r \in log' : RowOK(r)
  BY <1>1 DEF LogInv
<1> DEFINE D == {d}
<1>5. download' = Set(download, b, D) /\ \A e \in D : DownloadOK(b, e)'
  BY <1>1, <1>3
<1> HIDE DEF D
<1> QED BY <1>1, <1>4, <1>5, DownloadStep

LEMMA AnswerLogs ==
  ASSUME LogInv, NEW b \in Browser, FileAnswers(b)
  PROVE  LogInv'
<1>1. PICK d \in download[b] :
        \E next \in {{}, {[d EXCEPT !.state = "log"]}} : download' = Set(download, b, next)
  BY DEF FileAnswers
<1> DEFINE n == [d EXCEPT !.state = "log"]
<1>2. UNCHANGED <<session, users, log>>
  BY DEF FileAnswers, DownloadOnly
<1>3. DownloadOK(b, d)
  BY DEF LogInv
<1>4. n = [no |-> d.no, account |-> d.account, complete |-> d.complete,
           ended |-> d.ended, state |-> "log"]
  BY <1>3 DEF DownloadOK
<1>5. DownloadOK(b, n)'
  BY <1>2, <1>3, <1>4 DEF DownloadOK
<1>6. \A r \in log' : RowOK(r)
  BY <1>2 DEF LogInv
<1>7. download' = Set(download, b, {}) \/ download' = Set(download, b, {n})
  BY <1>1
<1> HIDE DEF n
<1> QED BY <1>2, <1>5, <1>6, <1>7, DownloadStep

(* The row that is written is that of the account of the download.         *)
LEMMA RowIsOfTheAccount ==
  ASSUME LogInv, NEW b \in Browser, NEW d \in download[b]
  PROVE  RowOK(LogRow(d, session[b].account))
<1> DEFINE named == {u.email : u \in {v \in users : v.sub = session[b].account.sub}}
           row == [transfer |-> d, downloaded_by |-> named]
<1>1. DownloadOK(b, d)
  BY DEF LogInv
<1>2. ASSUME ~ d.ended
      PROVE  /\ named \subseteq {d.account.email}
             /\ d.complete => named # {}
  <2>1. d.account \in Account /\ session[b].account = d.account
    BY <1>1, <1>2 DEF DownloadOK
  <2>2. d.complete => HasRow(d.account)
    BY <1>1, <1>2 DEF DownloadOK, LogInv, LoginsHaveRows
  <2>3. \A u \in users : u.sub = d.account.sub => u.email = d.account.email
    BY <2>1 DEF LogInv, RowsMatch
  <2> QED BY <2>1, <2>2, <2>3 DEF HasRow
<1> HIDE DEF named
<1>3. RowOK(row)
  BY <1>2 DEF RowOK
<1> QED BY <1>3 DEF LogRow, named

LEMMA LogLogs ==
  ASSUME LogInv, NEW b \in Browser, LogDownload(b)
  PROVE  LogInv'
<1> DEFINE a == session[b].account
<1>1. PICK d \in download[b] :
        /\ \/ download' = Set(download, b, {[d EXCEPT !.state = "send"]})
           \/ download' = Set(download, b, {})
        /\ log' \in {log, log \cup {LogRow(d, a)}}
  BY DEF LogDownload
<1> DEFINE n == [d EXCEPT !.state = "send"]
<1>2. UNCHANGED <<session, users>>
  BY DEF LogDownload, DownloadOnly
<1>3. DownloadOK(b, d)
  BY DEF LogInv
<1>4. n = [no |-> d.no, account |-> d.account, complete |-> d.complete,
           ended |-> d.ended, state |-> "send"]
  BY <1>3 DEF DownloadOK
<1>5. DownloadOK(b, n)'
  BY <1>2, <1>3, <1>4 DEF DownloadOK
<1>6. RowOK(LogRow(d, a))
  BY RowIsOfTheAccount
<1>7. \A r \in log' : RowOK(r)
  BY <1>1, <1>6 DEF LogInv
<1>8. download' = Set(download, b, {n}) \/ download' = Set(download, b, {})
  BY <1>1
<1> HIDE DEF n
<1> QED BY <1>2, <1>5, <1>7, <1>8, DownloadStep

LEMMA SendLogs ==
  ASSUME LogInv, NEW b \in Browser, SendFile(b)
  PROVE  LogInv'
<1>1. download' = Set(download, b, {}) /\ UNCHANGED <<session, users, log>>
  BY DEF SendFile, DownloadOnly
<1>2. \A r \in log' : RowOK(r)
  BY <1>1 DEF LogInv
<1> QED BY <1>1, <1>2, DownloadStep

LEMMA LogStays ==
  ASSUME LogInv, UNCHANGED <<users, session, download, log>>
  PROVE  LogInv'
<1>1. RowsMatch' /\ LoginsHaveRows'
  BY DEF LogInv, RowsMatch, LoginsHaveRows, HasRow
<1>2. \A b \in Browser : \A d \in download'[b] : DownloadOK(b, d)'
  BY DEF LogInv, DownloadOK
<1> QED BY <1>1, <1>2 DEF LogInv

LEMMA LogStep ==
  ASSUME SubsAreOwn, LogInv, Accounts, [Next]_vars
  PROVE  LogInv'
<1> SUFFICES ASSUME NEW b \in Browser,
                    \/ \E p \in Target : OpenPage(b, p)
                    \/ Render(b)
                    \/ createServerEnvironment(b)
                    \/ \E p \in Path : FollowLink(b, p)
                    \/ LoginButton(b)
                    \/ \E a \in Account : Callback(b, a)
                    \/ performQuery(b)
                    \/ postgraphileSchema(b)
                    \/ CountUsers(b)
                    \/ InsertUser(b)
                    \/ Expire(b)
                    \/ checkSessionAndGroups(b)
                    \/ handleSessionExpired(b)
                    \/ LogoutForm(b)
                    \/ ecccApiRouter(b)
                    \/ FileAnswers(b)
                    \/ LogDownload(b)
                    \/ SendFile(b)
             PROVE  LogInv'
  BY LogStays DEF Next, vars, downloadVars
<1>1. Nobody \in Signed /\ ~ Nobody.complete
  BY DEF Nobody, Signed
<1>2. UNCHANGED users => RowsMatch' /\ \A a \in Account : HasRow(a) => HasRow(a)'
  BY DEF LogInv, RowsMatch, HasRow
<1>3. ASSUME UNCHANGED <<users, session, download, log>> PROVE LogInv'
  BY <1>3, LogStays
<1>4. CASE \/ \E p \in Target : OpenPage(b, p)
           \/ Render(b) \/ createServerEnvironment(b)
           \/ \E p \in Path : FollowLink(b, p)
           \/ LoginButton(b)
           \/ \E a \in Account : Callback(b, a)
           \/ performQuery(b) \/ checkSessionAndGroups(b) \/ handleSessionExpired(b)
  BY <1>3, <1>4 DEF OpenPage, Render, createServerEnvironment, FollowLink, LoginButton,
                    Callback, performQuery, GoOn, LoginOnly, checkSessionAndGroups,
                    handleSessionExpired, downloadVars
<1>5. CASE Expire(b) \/ LogoutForm(b)
  <2>1. /\ UNCHANGED <<users, log>>
        /\ session' = Set(session, b, Nobody) /\ Ended(b)
    BY <1>5 DEF Expire, LogoutForm
  <2> QED BY <1>1, <1>2, <2>1, LogKeeps
<1>6. ASSUME Failed(b), UNCHANGED log, page[b].status \in OnTheWay,
             RowsMatch', \A a \in Account : HasRow(a) => HasRow(a)'
      PROVE  LogInv'
  <2>1. PICK a \in Account \cup {NoAccount} :
          session' = Set(session, b, [account |-> a, complete |-> FALSE]) /\ Ended(b)
    BY <1>6 DEF Failed, Accounts
  <2>2. [account |-> a, complete |-> FALSE] \in Signed
    BY DEF Signed
  <2> QED BY <1>6, <2>1, <2>2, LogKeeps
<1>7. ASSUME LoggedIn(b), UNCHANGED log, page[b].status \in OnTheWay,
             RowsMatch', \A a \in Account : HasRow(a) => HasRow(a)',
             \E u \in users' : u.sub = page[b].account.sub
      PROVE  LogInv'
  <2>1. PICK a \in Account :
          /\ a = page[b].account
          /\ session' = Set(session, b, [account |-> a, complete |-> TRUE]) /\ Ended(b)
    BY <1>7 DEF LoggedIn, Accounts
  <2>2. [account |-> a, complete |-> TRUE] \in Signed
    BY DEF Signed
  <2>3. HasRow(a)'
    BY <1>7, <2>1 DEF HasRow
  <2> QED BY <1>7, <2>1, <2>2, <2>3, LogKeeps
<1>8. CASE postgraphileSchema(b)
  <2>1. /\ UNCHANGED <<users, log>> /\ page[b].status \in OnTheWay
        /\ GoOn(b, "count") \/ Failed(b)
    BY <1>8 DEF postgraphileSchema, LoginOnly, OnTheWay
  <2>2. GoOn(b, "count") => UNCHANGED <<session, download>>
    BY DEF GoOn
  <2> QED BY <1>2, <1>3, <1>6, <2>1, <2>2
<1>9. CASE CountUsers(b)
  <2>1. UNCHANGED <<users, log>> /\ page[b].status \in OnTheWay
    BY <1>9 DEF CountUsers, LoginOnly, OnTheWay
  <2>2. CASE \E u \in users : u.sub = page[b].account.sub
    BY <1>2, <1>7, <1>9, <2>1, <2>2 DEF CountUsers
  <2>3. CASE ~ \E u \in users : u.sub = page[b].account.sub
    BY <1>3, <1>9, <2>1, <2>3 DEF CountUsers, GoOn
  <2> QED BY <2>2, <2>3
<1>10. CASE InsertUser(b)
  <2>1. /\ UNCHANGED log /\ page[b].status \in OnTheWay
        /\ IF MayInsert(users, page[b].account) THEN LoggedIn(b) ELSE Failed(b)
    BY <1>10 DEF InsertUser, LoginOnly, OnTheWay
  <2>2. page[b].account \in Account
    BY <2>1 DEF Accounts
  <2>3. /\ RowsMatch' /\ \A a \in Account : HasRow(a) => HasRow(a)'
        /\ MayInsert(users, page[b].account) =>
             \E u \in users' : u.sub = page[b].account.sub
    BY <1>10, <2>2, RowsStay DEF LogInv
  <2> QED BY <1>6, <1>7, <2>1, <2>3
<1> QED BY <1>4, <1>5, <1>8, <1>9, <1>10, RouterLogs, AnswerLogs, LogLogs, SendLogs

LEMMA LogInit == SubsAreOwn /\ Init => LogInv
  BY DEF SubsAreOwn, Init, LogInv, RowsMatch, LoginsHaveRows, Nobody

(* For any accounts with subs of their own, whatever logins, ends of       *)
(* sessions and failures come between: a row of the log of the downloads   *)
(* names the user of the session that asked for the file and no other, if  *)
(* that session lasted, and it names one, if its login had not failed      *)
(* (eccc_file_download_log_insert 8).                                      *)
THEOREM RowsNameTheDownloader ==
  ASSUME SubsAreOwn PROVE Spec => []LogNamesTheDownloader
<1> DEFINE I == PageForm /\ Accounts /\ LogInv
<1>1. Init => I
  BY LogInit, ReturnInit DEF ReturnInv
<1>2. ReturnInv /\ I /\ [Next]_vars => ReturnInv' /\ I'
  BY ReturnStep, AccountsStep, LogStep DEF ReturnInv
<1>3. I => LogNamesTheDownloader
  BY DEF LogInv, RowOK, LogNamesTheDownloader
<1> QED BY ReturnInit, <1>1, <1>2, <1>3, PTL DEF Spec
=============================================================================
