----------------------------- MODULE WebSession -----------------------------
(***************************************************************************)
(* Who a browser is to the web server, and which page it gets: the         *)
(* redirects of the pages, the login with its way through the single       *)
(* sign-on service and back, the row of ggircs_user that the callback of   *)
(* the login makes, the end of a session, and the downloads that the       *)
(* server passes on and logs.                                              *)
(*                                                                         *)
(* The sign-on library is external: its callback calls onAuthCallback with *)
(* the claims of the account, and sends the browser to the landing route.  *)
(* When onAuthCallback fails, the browser goes to the base URL, with or    *)
(* without a session.                                                      *)
(***************************************************************************)
EXTENDS Naturals, Sequences, SequencesExt

CONSTANTS
  Browser,
  Account,       \* what the sign-on service knows of its accounts
  NoAccount,     \* not signed in
  Legacy,        \* the rows of ggircs_user at first
  Target,        \* the paths that users open
  MaxOpens,      \* bound: paths opened and links followed
  MaxLogins,     \* bound: logins
  MaxEnds,       \* bound: sessions that expire or are logged out
  MaxDownloads,  \* bound: downloads
  MaxFaults      \* bound: failures of the schema build or of a mutation

ASSUME SessionAssumption ==
  /\ NoAccount \notin Account
  /\ {MaxOpens, MaxLogins, MaxEnds, MaxDownloads, MaxFaults} \subseteq Nat

VARIABLES
  session,  \* the session of each browser
  page,     \* what each browser shows or waits for
  client,   \* what the client of a browser keeps since it was loaded
  users,    \* ggircs_user
  postgraphileSchemaSingleton,  \* whether the schema was built
  download, \* the download of each browser that is under way
  log,      \* eccc_file_download_log, with the number of the download
  wanted,   \* history: the page each user is to come to
  refused,  \* history: accounts whose row the database refused to make
  counters  \* history: what the bounds count

vars == <<session, page, client, users, postgraphileSchemaSingleton, download,
          log, wanted, refused, counters>>
pageVars == <<page, client, wanted>>
downloadVars == <<download, log>>

-----------------------------------------------------------------------------
(* Groups, and where they lead (groups.json and pagesAuthorization.json);  *)
(* the names of the groups have _ where the code has a space.              *)

GuestLanding == <<"/login-redirect", "/">>

GROUP_META ==
  [g \in {"Guest", "GGIRCS_User", "Realm_Administrator", "Pending_GGIRCS_User"} |->
    CASE g = "Guest" ->
           [pgRole |-> "ggircs_guest", priority |-> 100, path |-> GuestLanding]
      [] g = "GGIRCS_User" ->
           [pgRole |-> "ggircs_user", priority |-> 2, path |-> <<"/ggircs">>]
      [] g = "Realm_Administrator" ->
           [pgRole |-> "ggircs_user", priority |-> 0, path |-> <<"/ggircs">>]
      [] g = "Pending_GGIRCS_User" ->
           [pgRole |-> "ggircs_guest", priority |-> 3,
            path |-> <<"/request-access-notice">>]]

compactGroups(groups) == SelectSeq(groups, LAMBDA g : g \in DOMAIN GROUP_META)

getUserGroups(a) ==
  IF a = NoAccount THEN <<"Guest">>
  ELSE LET valid == compactGroups(a.groups) IN
       IF valid # <<>> THEN valid
       ELSE IF a.idir THEN <<"Pending_GGIRCS_User">> ELSE <<"Guest">>

(* The group with the least number gives the path; the name is that of the *)
(* last group.                                                             *)
getPriorityGroupData(groups) ==
  LET first == CHOOSE g \in ToSet(groups) : \A h \in ToSet(groups) :
                 GROUP_META[g].priority <= GROUP_META[h].priority
  IN  [path |-> GROUP_META[first].path, name |-> Last(groups)]

getUserGroupLandingRoute(groups) == getPriorityGroupData(groups).path
getPriorityGroup(groups) == getPriorityGroupData(groups).name

(* The role with which a request of the account reads and writes.          *)
authenticationPgSettings(a) == GROUP_META[getPriorityGroup(getUserGroups(a))].pgRole

(* A URL is its path, followed by the URL in its redirectTo if it has one. *)
Open == {"/", "/login-redirect", "/request-access-notice"}
Protected == {"/ggircs", "/ggircs/swrs-browser"}
NoPage == "/user/profile"
Path == Open \cup Protected \cup {NoPage}

(* What the log of the downloads rests on: the sub of an account is its    *)
(* own, with one email; and the rows that may still move are those of      *)
(* users of the realm that was there before (tables/ggircs_user.sql        *)
(* 34-42), with other subs.                                                *)
SubsAreOwn ==
  /\ \A a, x \in Account : a.sub = x.sub => a.email = x.email
  /\ \A l \in Legacy, a \in Account : l.sub = a.sub => l.email = a.email /\ ~ l.allow

(* Users open paths of the application.  The second assumption is what it  *)
(* means to select the groups that GROUP_META has; it is stated here for   *)
(* the proofs, as the provers know nothing of SelectSeq.                   *)
ASSUME PathAssumption ==
  /\ Target \subseteq Path
  /\ \A a \in Account : compactGroups(a.groups) \in Seq(DOMAIN GROUP_META)

isRouteAuthorized(url, groups) ==
  \/ Head(url) \in Open
  \/ /\ Head(url) \in Protected
     /\ \E g \in ToSet(groups) : g \in {"GGIRCS_User", "Realm_Administrator"}

isGuest(groups) == groups = <<>> \/ Head(groups) = "Guest"

-----------------------------------------------------------------------------
(* serverSideProps of the pages: the URL to redirect to, or <<>>.          *)

withRelayOptions(url, groups) ==
  IF isRouteAuthorized(url, groups) THEN <<>>
  ELSE IF isGuest(groups) THEN <<"/login-redirect">> \o url
  ELSE getUserGroupLandingRoute(groups)

Index(url, groups) ==
  IF isGuest(groups) THEN <<>> ELSE getUserGroupLandingRoute(groups)

\* Mutant of LoginRedirect: guests go on to the page they asked for, too.
ReturnsGuests(url, groups) == IF Tail(url) # <<>> THEN Tail(url) ELSE <<"/">>

LoginRedirect(url, groups) ==
  IF isGuest(groups) THEN <<>>
  ELSE IF Tail(url) # <<>> THEN Tail(url) ELSE <<"/">>

Redirect(url, groups) ==
  CASE Head(url) = NoPage -> <<>>
    [] Head(url) = "/" -> Index(url, groups)
    [] Head(url) = "/login-redirect" -> LoginRedirect(url, groups)
    [] OTHER -> withRelayOptions(url, groups)

(* A browser waits for a page, before or after the check of the groups, or *)
(* shows one (with the account that the query of the page found), or is on *)
(* the way of a login; its URL is then what is in the redirectTo of the    *)
(* redirect URI.                                                           *)
Status ==
  {"asked", "checked", "shown", "login", "schema", "build", "count", "insert"}
At(status, url, a) == [status |-> status, url |-> url, account |-> a]
Set(f, b, x) == [f EXCEPT ![b] = x]

Counter == {"opens", "logins", "ends", "downloads", "faults"}
Bound == [opens |-> MaxOpens, logins |-> MaxLogins, ends |-> MaxEnds,
          downloads |-> MaxDownloads, faults |-> MaxFaults]
CountOne(c) ==
  counters[c] < Bound[c] /\ counters' = [counters EXCEPT ![c] = @ + 1]

(* SessionExpiryHandler asks once, when the client is loaded, whether      *)
(* there is a session.  The answers are those that its Relay store and the *)
(* cache of its network layer may hold.                                    *)
Client == [hasSession : {"asked", "yes", "no"},
           answers : SUBSET (Account \cup {NoAccount})]
Loaded(answers) == [hasSession |-> "asked", answers |-> answers]

Signed == [account : Account \cup {NoAccount}, complete : BOOLEAN]
Nobody == [account |-> NoAccount, complete |-> FALSE]
Row == [sub : {a.sub : a \in Account} \cup {l.sub : l \in Legacy},
        email : {a.email : a \in Account}, allow : BOOLEAN]
Transfer == [no : 1 .. MaxDownloads, account : Account, complete : BOOLEAN,
             ended : BOOLEAN, state : {"fetch", "log", "send"}]

TypeOK ==
  /\ session \in [Browser -> Signed]
  /\ \A b \in Browser :
       /\ page[b].status \in Status
       /\ page[b].url \in Seq(Path) /\ wanted[b] \in Seq(Path)
       /\ page[b].account \in Account \cup {NoAccount}
       /\ client[b] \in Client
       /\ download[b] \subseteq Transfer
  /\ users \subseteq Row
  /\ postgraphileSchemaSingleton \in BOOLEAN
  /\ \A r \in log : r.transfer \in Transfer
  /\ refused \subseteq Account
  /\ \A c \in Counter : counters[c] \in 0 .. Bound[c]

Init ==
  /\ session = [b \in Browser |-> Nobody]
  /\ page = [b \in Browser |-> At("shown", <<NoPage>>, NoAccount)]
  /\ client = [b \in Browser |-> Loaded({})]
  /\ users = Legacy
  /\ postgraphileSchemaSingleton = FALSE
  /\ download = [b \in Browser |-> {}]
  /\ log = {} /\ refused = {}
  /\ wanted = [b \in Browser |-> <<>>]
  /\ counters = [c \in Counter |-> 0]

-----------------------------------------------------------------------------
(* Pages *)

(* A path is opened in the browser, or a link to a page that the client    *)
(* does not have: the server is asked for it.                              *)
OpenPage(b, p) ==
  /\ page[b].status = "shown"
  /\ CountOne("opens")
  /\ page' = Set(page, b, At("asked", <<p>>, NoAccount))
  /\ wanted' = Set(wanted, b, <<p>>)
  /\ UNCHANGED <<session, client, users, postgraphileSchemaSingleton, downloadVars,
                 refused>>

(* serverSideProps: the server redirects, or goes on to the query of the   *)
(* page.  Where a user has no access, what they wanted is forgotten.       *)
Render(b) ==
  LET groups == getUserGroups(session[b].account)
      to == Redirect(page[b].url, groups)
      kept == isGuest(groups) \/ wanted[b] = <<>> \/ isRouteAuthorized(wanted[b], groups)
  IN
  /\ page[b].status = "asked"
  /\ page' = Set(page, b, IF to = <<>> THEN At("checked", page[b].url, NoAccount)
                          ELSE At("asked", to, NoAccount))
  /\ wanted' = IF kept THEN wanted ELSE Set(wanted, b, <<>>)
  /\ UNCHANGED <<session, client, users, postgraphileSchemaSingleton, downloadVars,
                 refused, counters>>

(* The query of the page is a request of its own with the same cookie: it  *)
(* reads the session again.  The page that says that there is no such page *)
(* makes none, and is always that of nobody.  The button of a page that is *)
(* shown for nobody does not lead back to it, unless it is the page of the *)
(* login: what was wanted is then lost.                                    *)
createServerEnvironment(b) ==
  LET url == page[b].url
      a == IF Head(url) = NoPage THEN NoAccount ELSE session[b].account
      lost == a = NoAccount /\ Head(url) # "/login-redirect"
  IN
  /\ page[b].status = "checked"
  /\ page' = Set(page, b, At("shown", url, a))
  /\ client' = Set(client, b, Loaded(IF Head(url) = NoPage THEN {} ELSE {a}))
  /\ wanted' = IF lost THEN Set(wanted, b, <<>>) ELSE wanted
  /\ UNCHANGED <<session, users, postgraphileSchemaSingleton, downloadVars, refused,
                 counters>>

(* The links that the client follows without asking the server: those of   *)
(* the header of someone signed in, of the dashboard, and of the page that *)
(* says that there is no such page.                                        *)
Header(a) == IF a = NoAccount THEN {} ELSE {"/ggircs"}
SwrsDataAccessCard == {"/ggircs/swrs-browser"}
NotFoundPage == {"/"}

links(url, a) ==
  Header(a)
    \cup (IF url = <<"/ggircs">> THEN SwrsDataAccessCard ELSE {})
    \cup (IF url = <<NoPage>> THEN NotFoundPage ELSE {})

(* A link is followed in the client: serverSideProps is not run, and the   *)
(* query of the page is answered for whoever has the session now, or from  *)
(* what the client holds.  Nothing brings the user back to that page.      *)
FollowLink(b, p) ==
  /\ page[b].status = "shown"
  /\ p \in links(page[b].url, page[b].account)
  /\ CountOne("opens")
  /\ \E a \in {session[b].account} \cup client[b].answers :
       /\ page' = Set(page, b, At("shown", <<p>>, a))
       /\ client' = [client EXCEPT ![b].answers = @ \cup {a}]
  /\ wanted' = Set(wanted, b, <<>>)
  /\ UNCHANGED <<session, users, postgraphileSchemaSingleton, downloadVars, refused>>

-----------------------------------------------------------------------------
(* Login *)

\* Mutant of getRedirectUri: the redirect URI has no redirectTo.
BaseUri(url) == <<>>

(* The redirectTo of the page goes into the redirect URI.                  *)
getRedirectUri(url) == Tail(url)

(* The header of a page that is shown for nobody has a button, which leads *)
(* to the single sign-on service.                                          *)
LoginButton(b) ==
  /\ page[b].status = "shown"
  /\ page[b].account = NoAccount
  /\ CountOne("logins")
  /\ page' = Set(page, b, At("login", getRedirectUri(page[b].url), NoAccount))
  /\ UNCHANGED <<session, client, users, postgraphileSchemaSingleton, downloadVars,
                 refused, wanted>>

(* The user signs in, and the callback calls onAuthCallback.               *)
Callback(b, a) ==
  /\ page[b].status = "login"
  /\ page' = Set(page, b, At("schema", page[b].url, a))
  /\ UNCHANGED <<session, client, users, postgraphileSchemaSingleton, downloadVars,
                 refused, wanted, counters>>

LoginOnly == UNCHANGED <<client, log>>

(* A download that is under way finds another session, or none.            *)
Ended(b) == download' = [download EXCEPT ![b] = {[d EXCEPT !.ended = TRUE] : d \in @}]

(* getLandingRoute, when onAuthCallback is done.                           *)
LoggedIn(b) ==
  LET a == page[b].account IN
  /\ session' = Set(session, b, [account |-> a, complete |-> TRUE])
  /\ page' = Set(page, b, At("asked",
       IF page[b].url # <<>> THEN page[b].url
       ELSE getUserGroupLandingRoute(getUserGroups(a)), NoAccount))
  /\ Ended(b)
  /\ UNCHANGED wanted

(* onAuthCallback throws.                                                  *)
Failed(b) ==
  /\ \E a \in {page[b].account, NoAccount} :
       session' = Set(session, b, [account |-> a, complete |-> FALSE])
  /\ page' = Set(page, b, At("asked", <<"/">>, NoAccount))
  /\ wanted' = Set(wanted, b, <<>>)
  /\ Ended(b)

GoOn(b, status) ==
  /\ page' = [page EXCEPT ![b].status = status]
  /\ UNCHANGED <<session, wanted, download>>

(* performQuery: the schema is built by each request that finds it unset.  *)
performQuery(b) ==
  /\ page[b].status = "schema"
  /\ GoOn(b, IF postgraphileSchemaSingleton THEN "count" ELSE "build")
  /\ UNCHANGED <<users, postgraphileSchemaSingleton, refused, counters>>
  /\ LoginOnly

postgraphileSchema(b) ==
  /\ page[b].status = "build"
  /\ \/ /\ postgraphileSchemaSingleton' = TRUE
        /\ GoOn(b, "count")
        /\ UNCHANGED counters
     \/ /\ CountOne("faults")
        /\ Failed(b)
        /\ UNCHANGED postgraphileSchemaSingleton
  /\ UNCHANGED <<users, refused>>
  /\ LoginOnly

(* create_ggircs_user_from_session: first the count, then the insert, each *)
(* with what is committed at that time.                                    *)
CountUsers(b) ==
  /\ page[b].status = "count"
  /\ IF \E u \in users : u.sub = page[b].account.sub
       THEN LoggedIn(b) ELSE GoOn(b, "insert")
  /\ UNCHANGED <<users, postgraphileSchemaSingleton, refused, counters>>
  /\ LoginOnly

\* Mutant of upsert: on conflict do nothing.
LeavesTheRow(us, a) ==
  IF \E u \in us : u.email = a.email THEN us
  ELSE us \cup {[sub |-> a.sub, email |-> a.email, allow |-> FALSE]}

\* Mutant of MayInsert: the trigger does not look at the flag.
NeverMoves(us, a) == \A u \in us : u.email # a.email /\ u.sub # a.sub

(* On a conflict of the email the row is updated, which the trigger        *)
(* user_session_sub_immutable_with_flag allows once; no two rows may have  *)
(* the same sub.                                                           *)
upsert(us, a) ==
  {u \in us : u.email # a.email}
    \cup {[sub |-> a.sub, email |-> a.email, allow |-> FALSE]}

MayInsert(us, a) ==
  /\ \A u \in us : u.email = a.email => u.allow
  /\ \A u \in us : u.email # a.email => u.sub # a.sub

InsertUser(b) ==
  LET a == page[b].account IN
  /\ page[b].status = "insert"
  /\ IF MayInsert(users, a)
       THEN users' = upsert(users, a) /\ LoggedIn(b) /\ UNCHANGED refused
       ELSE Failed(b) /\ refused' = refused \cup {a} /\ UNCHANGED users
  /\ UNCHANGED <<postgraphileSchemaSingleton, counters>>
  /\ LoginOnly

-----------------------------------------------------------------------------
(* The end of a session *)

Expire(b) ==
  /\ session[b].account # NoAccount
  /\ CountOne("ends")
  /\ session' = Set(session, b, Nobody)
  /\ Ended(b)
  /\ UNCHANGED <<pageVars, users, postgraphileSchemaSingleton, log, refused>>

(* The one question of SessionExpiryHandler is answered.                   *)
checkSessionAndGroups(b) ==
  /\ page[b].status = "shown"
  /\ client[b].hasSession = "asked"
  /\ client' = [client EXCEPT ![b].hasSession =
                   IF session[b].account # NoAccount THEN "yes" ELSE "no"]
  /\ UNCHANGED <<session, page, wanted, users, postgraphileSchemaSingleton,
                 downloadVars, refused, counters>>

(* A client that had a session learns, some time later, that it has ended: *)
(* it goes to the page of the login by itself, without asking the server   *)
(* for it, and asks about the session no more.                             *)
handleSessionExpired(b) ==
  /\ page[b].status = "shown"
  /\ client[b].hasSession = "yes"
  /\ session[b].account = NoAccount
  /\ page' = Set(page, b, At("shown", <<"/login-redirect">> \o page[b].url, NoAccount))
  /\ client' = [client EXCEPT ![b].hasSession = "no",
                              ![b].answers = @ \cup {NoAccount}]
  /\ wanted' = Set(wanted, b, page[b].url)
  /\ UNCHANGED <<session, users, postgraphileSchemaSingleton, downloadVars, refused,
                 counters>>

LogoutForm(b) ==
  /\ page[b].status = "shown"
  /\ page[b].account # NoAccount
  /\ CountOne("ends")
  /\ session' = Set(session, b, Nobody)
  /\ page' = Set(page, b, At("asked", <<"/">>, NoAccount))
  /\ wanted' = Set(wanted, b, <<>>)
  /\ Ended(b)
  /\ UNCHANGED <<client, users, postgraphileSchemaSingleton, log, refused>>

-----------------------------------------------------------------------------
(* Downloads (ecccApiRouter) *)

DownloadOnly == UNCHANGED <<session, pageVars, users, postgraphileSchemaSingleton,
                            refused>>

(* A link of the browser page is followed.  Without a session the answer   *)
(* is a redirect to the landing route, which opens it in the new tab: that *)
(* is a page like any other, and left out.                                 *)
ecccApiRouter(b) ==
  /\ page[b].status = "shown" /\ page[b].url = <<"/ggircs/swrs-browser">>
  /\ download[b] = {}
  /\ session[b].account # NoAccount
  /\ CountOne("downloads")
  /\ download' = Set(download, b,
       {[no |-> counters.downloads + 1, account |-> session[b].account,
         complete |-> session[b].complete, ended |-> FALSE, state |-> "fetch"]})
  /\ UNCHANGED log
  /\ DownloadOnly

(* The file server answers: with the file, which is logged before it is    *)
(* sent, or with something else, which is sent as it is.                   *)
FileAnswers(b) ==
  \E d \in download[b] :
    /\ d.state = "fetch"
    /\ \E next \in {{}, {[d EXCEPT !.state = "log"]}} :
         download' = Set(download, b, next)
    /\ UNCHANGED <<log, counters>>
    /\ DownloadOnly

(* eccc_file_download_log_insert sets the user whose sub is the session's. *)
LogRow(d, a) ==
  [transfer |-> d,
   downloaded_by |-> {u.email : u \in {v \in users : v.sub = a.sub}}]

MayLog(a) == authenticationPgSettings(a) = "ggircs_user"

(* The mutation is sent with the cookie of the request, so that it is made *)
(* by whoever the session belongs to now.  Only a connection that fails    *)
(* stops the download, whether the row was written or not.  The answer is  *)
(* not looked at: when it is an error, because the role may not log or     *)
(* because the mutation fails, the download goes on without a row.         *)
LogDownload(b) ==
  LET a == session[b].account IN
  \E d \in download[b], written \in BOOLEAN :
    /\ d.state = "log"
    /\ written => MayLog(a)
    /\ log' = IF written THEN log \cup {LogRow(d, a)} ELSE log
    /\ \/ /\ download' = Set(download, b, {[d EXCEPT !.state = "send"]})
          /\ IF written = MayLog(a) THEN UNCHANGED counters ELSE CountOne("faults")
       \/ /\ download' = Set(download, b, {})
          /\ CountOne("faults")
    /\ DownloadOnly

SendFile(b) ==
  \E d \in download[b] :
    /\ d.state = "send"
    /\ download' = Set(download, b, {})
    /\ UNCHANGED <<log, counters>>
    /\ DownloadOnly

-----------------------------------------------------------------------------
ServerStep(b) ==
  Render(b) \/ createServerEnvironment(b) \/ performQuery(b)
    \/ postgraphileSchema(b) \/ CountUsers(b) \/ InsertUser(b)

Next ==
  \E b \in Browser :
    \/ \E p \in Target : OpenPage(b, p)
    \/ Render(b)
    \/ createServerEnvironment(b)
    \/ \E p \in Path : FollowLink(b, p)
    \/ LoginButton(b)
    \/ \E a \in Account : Callback(b, a)
    \/ performQuery(b)
    \/ postgraphileSchema(b)
    \/ CountUsers(b)
    \/ InsertUser(b)
    \/ Expire(b)
    \/ checkSessionAndGroups(b)
    \/ handleSessionExpired(b)
    \/ LogoutForm(b)
    \/ ecccApiRouter(b)
    \/ FileAnswers(b)
    \/ LogDownload(b)
    \/ SendFile(b)

(* The server and the database answer.                                     *)
Fairness == \A b \in Browser : WF_vars(ServerStep(b))

Spec == Init /\ [][Next]_vars /\ Fairness

-----------------------------------------------------------------------------
(* A page that is asked for is shown, after however many redirects, and so *)
(* is one at the end of a login: the rules of the pages (index,            *)
(* login-redirect, withRelayOptions) and the paths of the groups never     *)
(* send a user in a circle, and no login waits for ever.                   *)
RequestsAreAnswered ==
  \A b \in Browser :
    page[b].status \notin {"shown", "login"} ~> page[b].status = "shown"

(* "You will be redirected to the requested page after doing so", says the *)
(* page of the login (login-redirect 30-34).  A user who asked the server  *)
(* for a page of the application, or was taken to the page of the login    *)
(* from one when the session ended, comes to that page and to no other     *)
(* when they are signed in and their groups allow it, through the          *)
(* redirects, the login, and sessions that end on the way.  It ends when   *)
(* the page is shown for nobody, a link is followed, or a login fails: a   *)
(* login from there leads to the landing route.                            *)
LoginReturns ==
  \A b \in Browser :
    LET groups == getUserGroups(page[b].account) IN
    page[b].status = "shown" /\ page[b].account # NoAccount /\ ~ isGuest(groups) =>
      (wanted[b] # <<>> /\ Head(wanted[b]) \in Protected
         /\ isRouteAuthorized(wanted[b], groups)
       => page[b].url = wanted[b])

(* When the database refuses to make the row of a user at the login, then  *)
(* the row is there, made by a login of the same account that overtook     *)
(* this one, so that the next login gets in; or its email belongs to       *)
(* another account, for good (create_ggircs_user_from_session 15-27).      *)
RefusedForAReason ==
  \A a \in refused :
    \E u \in users : u.sub = a.sub \/ (u.email = a.email /\ ~ u.allow)

(* A row of the log of downloads names the user who downloaded, and no     *)
(* other, as long as the session did not end between the check and the     *)
(* log; and it names one, if the login had not failed: the callback of the *)
(* login has made the row of the user or moved it to the new sub, and no   *)
(* later login moves it away (eccc_file_download_log_insert 8).            *)
LogNamesTheDownloader ==
  \A r \in log :
    ~ r.transfer.ended =>
      /\ r.downloaded_by \subseteq {r.transfer.account.email}
      /\ r.transfer.complete => r.downloaded_by # {}
=============================================================================
