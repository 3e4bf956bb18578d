---------------------------- MODULE BrowserSession ----------------------------
(***************************************************************************)
(* A page of the web frontend: its REST requests (api/index.js), its       *)
(* socket (composables/useWebSocket.js), and the tokens that they share in *)
(* localStorage.                                                           *)
(*                                                                         *)
(* An access token expires after two hours and a refresh token after seven *)
(* days.  Requests renew the access token when it is about to expire, or   *)
(* when the server has answered 401; the socket renews it when the server  *)
(* has closed it with 4001.  JavaScript runs one callback at a time: the   *)
(* actions are the stretches between two awaits.                           *)
(***************************************************************************)
EXTENDS Naturals

CONSTANTS
  BsRequests,
  BsMaxExpiries, BsMaxOutages,  \* bounds on expired tokens and lost servers
  BsTries                       \* renewals in a row of a socket that is refused (2)

ASSUME SessionAssumption ==
  BsMaxExpiries \in Nat /\ BsMaxOutages \in Nat /\ BsTries \in Nat \ {0}

VARIABLES
  bsAccess, bsRefresh,  \* the tokens in localStorage, and whether they are still good
  bsExpiries,
  bsServer,             \* whether the server answers, and how often it stopped
  bsPage,               \* "view", "login" for the login route of the same page, or
                        \* "left" when the browser was told to load the login page
  bsReq,                \* the requests
  bsShared,             \* proactiveRefreshing: the refresh token it went with, or "off"
  bsRefreshing,         \* isRefreshing, in the same way
  bsQueue,              \* pendingRequests
  bsBehind,             \* those in it whose refresh has failed
  bsWs                  \* the socket of the page

bsTokens == <<bsAccess, bsRefresh, bsExpiries>>
bsWait   == <<bsQueue, bsBehind>>
bsRest   == <<bsReq, bsShared, bsRefreshing, bsWait>>
bsVars   == <<bsTokens, bsServer, bsPage, bsRest, bsWs>>

BsTokens == {"none", "good", "expired"}

BsTypeOK ==
  /\ bsAccess \in BsTokens /\ bsRefresh \in BsTokens
  /\ bsExpiries \in 0 .. BsMaxExpiries
  /\ bsServer \in [up : BOOLEAN, outages : 0 .. BsMaxOutages]
  /\ bsPage \in {"view", "login", "left"}
  /\ bsReq \in [BsRequests ->
       [phase : {"idle", "renewing", "sent", "refreshing", "queued"},
        retried : BOOLEAN, good : BOOLEAN]]
  /\ bsShared \in BsTokens \cup {"off"} /\ bsRefreshing \in BsTokens \cup {"off"}
  /\ bsQueue \subseteq BsRequests /\ bsBehind \subseteq bsQueue
  /\ bsWs \in [used : BOOLEAN, awaits : BOOLEAN, sock : {"none", "connecting", "open"},
               timer : BOOLEAN, manual : BOOLEAN, tries : 0 .. BsTries,
               refreshing : BsTokens \cup {"off"}, unauthorized : BOOLEAN]

BsNew == [phase |-> "idle", retried |-> FALSE, good |-> FALSE]
BsNoSocket == [used |-> FALSE, awaits |-> FALSE, sock |-> "none", timer |-> FALSE,
               manual |-> FALSE, tries |-> 0, refreshing |-> "off", unauthorized |-> FALSE]

BsInit ==
  /\ bsAccess = "good" /\ bsRefresh = "good" /\ bsExpiries = 0
  /\ bsServer = [up |-> TRUE, outages |-> 0]
  /\ bsPage = "view"
  /\ bsReq = [q \in BsRequests |-> BsNew]
  /\ bsShared = "off" /\ bsRefreshing = "off" /\ bsQueue = {}
  /\ bsBehind = {}
  /\ bsWs = BsNoSocket

-----------------------------------------------------------------------------
(* Tokens and the server.                                                  *)

BsExpire ==
  /\ bsExpiries < BsMaxExpiries /\ bsExpiries' = bsExpiries + 1
  /\ \/ bsAccess = "good" /\ bsAccess' = "expired" /\ UNCHANGED bsRefresh
     \/ bsRefresh = "good" /\ bsRefresh' = "expired" /\ UNCHANGED bsAccess
  /\ UNCHANGED <<bsServer, bsPage, bsRest, bsWs>>

BsOutage ==
  /\ bsServer.up /\ bsServer.outages < BsMaxOutages
  /\ bsServer' = [up |-> FALSE, outages |-> bsServer.outages + 1]
  /\ UNCHANGED <<bsTokens, bsPage, bsRest, bsWs>>

BsRecover ==
  /\ ~bsServer.up /\ bsServer' = [bsServer EXCEPT !.up = TRUE]
  /\ UNCHANGED <<bsTokens, bsPage, bsRest, bsWs>>

\* The server takes a refresh token and hands out both tokens anew, whatever
\* has become of those in localStorage meanwhile; it may also refuse.
BsRenewed(token) ==
  bsServer.up /\ token = "good" /\ bsAccess' = "good" /\ bsRefresh' = "good"

BsDisposed == [bsWs EXCEPT !.used = FALSE, !.manual = TRUE, !.timer = FALSE, !.sock = "none"]

\* Logging out takes the tokens away and goes to the login route: the view and
\* its socket go, the requests, the refreshes and the queue live on.
BsLogout ==
  /\ bsPage = "view" /\ bsAccess # "none"
  /\ bsAccess' = "none" /\ bsRefresh' = "none"
  /\ bsPage' = "login"
  /\ bsWs' = BsDisposed
  /\ UNCHANGED <<bsExpiries, bsServer, bsRest>>

BsLogin ==
  /\ bsPage = "login" /\ bsServer.up
  /\ bsAccess' = "good" /\ bsRefresh' = "good"
  /\ bsPage' = "view"
  /\ UNCHANGED <<bsExpiries, bsServer, bsRest, bsWs>>

-----------------------------------------------------------------------------
(* Requests.                                                               *)

BsGo(q, p) == bsReq' = [bsReq EXCEPT ![q].phase = p]

\* They go, with the token that is good or not.
BsSent(qs, good) ==
  [q \in BsRequests |-> IF q \in qs THEN [bsReq[q] EXCEPT !.phase = "sent", !.good = good]
                                   ELSE bsReq[q]]

\* The request interceptor: a token that is about to expire, or has expired, is
\* renewed first, by one refresh for all.
BsSend(q) ==
  /\ bsPage = "view" /\ bsReq[q].phase = "idle"
  /\ \/ /\ bsAccess # "expired" /\ bsReq' = BsSent({q}, bsAccess = "good")
        /\ UNCHANGED bsShared
     \/ /\ bsAccess # "none" /\ BsGo(q, "renewing")
        /\ bsShared' = IF bsShared = "off" THEN bsRefresh ELSE bsShared
  /\ UNCHANGED <<bsTokens, bsServer, bsPage, bsRefreshing, bsWait, bsWs>>

\* refreshAccessToken; without success the requests go with the old token.
BsSharedEnds ==
  LET waiting == {q \in BsRequests : bsReq[q].phase = "renewing"} IN
  /\ bsShared # "off" /\ bsShared' = "off"
  /\ \/ BsRenewed(bsShared) /\ bsReq' = BsSent(waiting, TRUE)
     \/ UNCHANGED <<bsAccess, bsRefresh>> /\ bsReq' = BsSent(waiting, bsAccess = "good")
  /\ UNCHANGED <<bsExpiries, bsServer, bsPage, bsRefreshing, bsWait, bsWs>>

\* An answer, an error, or no answer within 30 seconds.
BsAnswer(q) ==
  /\ bsReq[q].phase = "sent" /\ (bsReq[q].good \/ ~bsServer.up)
  /\ bsReq' = [bsReq EXCEPT ![q] = BsNew]
  /\ UNCHANGED <<bsTokens, bsServer, bsPage, bsShared, bsRefreshing, bsWait, bsWs>>

\* redirectToLogin: on the login route only the tokens go.
BsToLogin ==
  /\ bsAccess' = "none" /\ bsRefresh' = "none"
  /\ bsPage' = IF bsPage = "view" THEN "left" ELSE bsPage

\* 401: the token was not good, or has expired on the way.
BsDenied(q) ==
  /\ bsReq[q].phase = "sent" /\ bsServer.up
  /\ bsReq[q].good => bsAccess = "expired"

\* There is nothing to renew with, or it was renewed already.
BsReject(q) ==
  /\ BsDenied(q) /\ (bsReq[q].retried \/ bsRefresh = "none")
  /\ bsReq' = [bsReq EXCEPT ![q] = BsNew]
  /\ IF bsReq[q].retried THEN UNCHANGED <<bsAccess, bsRefresh, bsPage>> ELSE BsToLogin
  /\ UNCHANGED <<bsExpiries, bsServer, bsShared, bsRefreshing, bsWait, bsWs>>

\* The first one starts the refresh, the others wait for it.
BsRefreshOrWait(q) ==
  /\ BsDenied(q) /\ ~bsReq[q].retried /\ bsRefresh # "none"
  /\ IF bsRefreshing # "off"
     THEN /\ BsGo(q, "queued") /\ bsQueue' = bsQueue \cup {q}
          /\ UNCHANGED bsRefreshing
     ELSE /\ bsReq' = [bsReq EXCEPT ![q].phase = "refreshing", ![q].retried = TRUE]
          /\ bsRefreshing' = bsRefresh /\ UNCHANGED bsQueue
  /\ UNCHANGED <<bsTokens, bsServer, bsPage, bsShared, bsBehind, bsWs>>

\* Mutant: only the request that started the refresh is sent again.
BsRefreshForgets(q) ==
  /\ bsReq[q].phase = "refreshing" /\ bsRefreshing' = "off"
  /\ BsRenewed(bsRefreshing) /\ bsReq' = BsSent({q}, TRUE)
  /\ UNCHANGED <<bsPage, bsWait, bsExpiries, bsServer, bsShared, bsWs>>

\* Those that wait are sent again, also those of an earlier refresh; or the
\* refresh has failed and they are left behind: with the page, unless that shows
\* the login route already.
BsRefreshEnds(q) ==
  /\ bsReq[q].phase = "refreshing" /\ bsRefreshing' = "off"
  /\ \/ /\ BsRenewed(bsRefreshing) /\ UNCHANGED bsPage
        /\ bsReq' = BsSent(bsQueue \cup {q}, TRUE) /\ bsQueue' = {} /\ bsBehind' = {}
     \/ /\ BsToLogin /\ UNCHANGED bsQueue /\ bsBehind' = bsQueue
        /\ bsReq' = [bsReq EXCEPT ![q] = BsNew]
  /\ UNCHANGED <<bsExpiries, bsServer, bsShared, bsWs>>

-----------------------------------------------------------------------------
(* The socket.                                                             *)

\* start: nothing is left of an earlier socket.
BsStarted == [bsWs EXCEPT !.sock = "connecting", !.timer = FALSE, !.manual = FALSE,
                !.refreshing = "off", !.unauthorized = FALSE, !.awaits = FALSE]

\* Mutant: there is no retry once the token has been renewed.
BsRetryMuted ==
  IF bsWs.manual \/ bsWs.tries > 0 THEN [bsWs EXCEPT !.sock = "none"]
                                   ELSE [bsWs EXCEPT !.sock = "none", !.timer = TRUE]

\* _scheduleRetry, after an error.
BsScheduleRetry ==
  IF bsWs.manual THEN [bsWs EXCEPT !.sock = "none"]
                 ELSE [bsWs EXCEPT !.sock = "none", !.timer = TRUE]

\* A page opens its socket at once, or when the answer to its first request
\* has come.
BsMount ==
  /\ bsPage = "view" /\ ~bsWs.used /\ ~bsWs.awaits
  /\ bsWs.sock = "none" /\ bsWs.refreshing = "off" /\ ~bsWs.timer
  /\ \/ bsWs' = [BsStarted EXCEPT !.used = TRUE, !.tries = 0]
     \/ bsWs' = [BsNoSocket EXCEPT !.used = TRUE, !.awaits = TRUE]
  /\ UNCHANGED <<bsTokens, bsServer, bsPage, bsRest>>

\* start() follows also when the page has been left meanwhile; without the
\* answer the page has no socket.
BsFetched ==
  /\ bsWs.awaits
  /\ \/ bsWs' = BsStarted
     \/ bsWs' = [bsWs EXCEPT !.awaits = FALSE, !.used = FALSE]
  /\ UNCHANGED <<bsTokens, bsServer, bsPage, bsRest>>

\* onScopeDispose.
BsStop ==
  /\ bsWs.used
  /\ bsWs' = BsDisposed
  /\ UNCHANGED <<bsTokens, bsServer, bsPage, bsRest>>

BsOpened ==
  /\ bsWs.sock = "connecting" /\ bsServer.up /\ bsAccess = "good"
  /\ bsWs' = [bsWs EXCEPT !.sock = "open", !.tries = 0]
  /\ UNCHANGED <<bsTokens, bsServer, bsPage, bsRest>>

\* 4001: the token is not good.  Twice it is renewed, by a refresh that nobody
\* else knows of.
BsRefused ==
  /\ bsWs.sock = "connecting" /\ bsServer.up /\ bsAccess # "good"
  /\ bsWs' = IF bsWs.tries < BsTries
             THEN [bsWs EXCEPT !.sock = "none", !.tries = @ + 1, !.refreshing = bsRefresh]
             ELSE [bsWs EXCEPT !.sock = "none", !.unauthorized = TRUE]
  /\ UNCHANGED <<bsTokens, bsServer, bsPage, bsRest>>

\* Any other end, and also a refusal whose code does not reach the browser.
BsClosed ==
  /\ \/ bsWs.sock = "open"
     \/ bsWs.sock = "connecting" /\ ~(bsServer.up /\ bsAccess = "good")
  /\ bsWs.sock = "open" => ~bsServer.up
  /\ bsWs' = BsScheduleRetry
  /\ UNCHANGED <<bsTokens, bsServer, bsPage, bsRest>>

BsRetry ==
  /\ bsWs.timer /\ bsWs' = BsStarted
  /\ UNCHANGED <<bsTokens, bsServer, bsPage, bsRest>>

\* start() follows also when stop() has come in between.
BsWsRefreshEnds ==
  /\ bsWs.refreshing # "off"
  /\ \/ BsRenewed(bsWs.refreshing) /\ bsWs' = BsStarted
     \/ /\ bsWs' = [bsWs EXCEPT !.refreshing = "off", !.unauthorized = TRUE]
        /\ UNCHANGED <<bsAccess, bsRefresh>>
  /\ UNCHANGED <<bsExpiries, bsServer, bsPage, bsRest>>

\* The steps of a request and of the socket that a time limit, an event or a
\* timer brings about; the refreshes and the first request of a page may wait.
BsRequestStep(q) == BsAnswer(q) \/ BsReject(q) \/ BsRefreshOrWait(q)

BsSocketStep == BsOpened \/ BsRefused \/ BsClosed \/ BsRetry

BsNext ==
  \/ BsExpire \/ BsOutage \/ BsRecover \/ BsLogout \/ BsLogin
  \/ \E q \in BsRequests : BsSend(q) \/ BsRequestStep(q) \/ BsRefreshEnds(q)
  \/ BsSharedEnds \/ BsMount \/ BsStop
  \/ BsFetched \/ BsSocketStep \/ BsWsRefreshEnds

\* A request that was sent ends, if only by its time limit; a socket opens or
\* closes; timers fire, and an outage is over some day.  A refresh has no time
\* limit, nor have the requests that wait for one: nothing is assumed of them.
BsFairness ==
  /\ WF_bsVars(BsRecover) /\ WF_bsVars(BsSocketStep)
  /\ \A q \in BsRequests : WF_bsVars(BsRequestStep(q))

BsSpec == BsInit /\ [][BsNext]_bsVars /\ BsFairness

-----------------------------------------------------------------------------
\* What the client does not see to: a refresh that hangs keeps all that wait
\* for it (axios.post and fetch without a time limit).
BsRefreshesEnd == []<>(bsShared = "off") /\ []<>(bsRefreshing = "off")

BsSocketWaitsEnd == []<>(bsWs.refreshing = "off") /\ []<>(~bsWs.awaits)

(* As long as no refresh hangs, every request gets an answer or an error,  *)
(* also when it waits for a refresh that another request or a third has    *)
(* started, unless the page is left, or the refresh it waits for fails     *)
(* after a logout: such a request is left behind in the page, until a      *)
(* later refresh succeeds (api/index.js: the interceptors).                *)
RequestsSettle ==
  BsRefreshesEnd =>
    \A q \in BsRequests :
      bsReq[q].phase # "idle" ~>
        bsReq[q].phase = "idle" \/ bsPage = "left" \/ q \in bsBehind

(* As long as neither its refresh nor the first request of its page hangs, *)
(* a socket opens again after every loss, or the page is told that it is   *)
(* not authorized, while the token in localStorage is good                 *)
(* (useWebSocket.js: _scheduleRetry, onclose).                             *)
Reconnects ==
  BsSocketWaitsEnd =>
    (bsWs.used ~>
       (bsWs.sock = "open" \/ bsWs.unauthorized \/ ~bsWs.used \/ bsAccess # "good"))
=============================================================================
