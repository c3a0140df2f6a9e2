--------------------------- MODULE SessionRefresh ---------------------------
(***************************************************************************)
(* The session of a signed-in browser: API calls of several tabs that are   *)
(* refused, the refresh they share (lib/auth-client.ts), the proxy it goes  *)
(* through (app/api/rp-auth), the one-time refresh token at the backend     *)
(* (auth_service.rotate_refresh_token) and the logout (lib/logoutClient.ts). *)
(* Tokens are numbered as they are minted, a refresh token and the access   *)
(* token that came with it alike.                                           *)
(***************************************************************************)
EXTENDS Naturals

CONSTANTS
  Tabs, NoTab,
  Callers,       \* calls of apiCall, at most one of each at a time
  Home,          \* the tab of a caller
  Exchanges,     \* refresh requests that may be at the server at once (a bound)
  Sessions,      \* the logins of the history (a bound): 1 .. Sessions
  MaxToken,      \* the tokens of the history (a bound)
  HasLocks       \* the browser has Web Locks

ASSUME HomeAssumption == Home \in [Callers -> Tabs]
ASSUME NoTabAssumption == NoTab \notin Tabs
ASSUME BoundAssumption == Sessions \in Nat \ {0} /\ MaxToken \in Nat \ {0}

VARIABLES
  store,     \* Redis: the refresh token of each session, 0 without a record
  minted,    \* the tokens so far
  logins,    \* the sessions so far
  jar,       \* the browser's rsends_sid and rsends_refresh cookies
  signedIn,  \* the NextAuth session, which all the tabs share
  holder,    \* the tab that holds the Web Lock
  flight,    \* refreshInFlight of each tab: its step, the stale token it was
             \* given, then the session that was refused
  remote,    \* remoteToken of each tab, 0 once it is older than 10 s
  mail,      \* tokens broadcast to a tab that it has not heard yet
  exchange,  \* the refresh requests: where each one is, and whose
  waiting,   \* the calls that were refused and await the refresh of their tab
  leaving,   \* the logout button's revocation, and the session it names
  lost       \* history, what was lost since the last login: an answer (a refresh or a
             \* revocation abandoned before it, or answered to other cookies), the
             \* session (the backend ended it, or refused its user, for another reason
             \* than a token used twice) or the cookie that names it

server  == <<store, minted, logins>>
browser == <<jar, signedIn>>
tabs    == <<holder, flight, remote, mail>>
vars    == <<server, browser, tabs, exchange, waiting, leaving, lost>>

SessionIds == 1 .. Sessions
Tokens     == 1 .. MaxToken
Flight(step, k, s) == [at |-> step, stale |-> k, sid |-> s]
NoFlight   == Flight("none", 0, 0)
Request(step, t, s, k) == [at |-> step, tab |-> t, sid |-> s, token |-> k]
NoExchange == Request("free", NoTab, 0, 0)
NotLeaving == [at |-> "no", sid |-> 0]

Flights  == [at : {"none", "queued", "asking", "leaving"}, stale : 0 .. MaxToken,
             sid : 0 .. Sessions]
Requests == [at : {"free", "sent", "matched", "granted", "denied"},
             tab : Tabs \cup {NoTab}, sid : 0 .. Sessions, token : 0 .. MaxToken]

ServerTypes ==
  /\ store \in [SessionIds -> 0 .. MaxToken]
  /\ minted \in 0 .. MaxToken
  /\ logins \in SessionIds

BrowserTypes ==
  /\ jar \in [sid : 0 .. Sessions, token : 0 .. MaxToken]
  /\ signedIn \in BOOLEAN
  /\ leaving \in [at : {"no", "asked", "revoked"}, sid : 0 .. Sessions]
  /\ lost \in BOOLEAN

TabTypes ==
  /\ holder \in Tabs \cup {NoTab}
  /\ flight \in [Tabs -> Flights]
  /\ remote \in [Tabs -> 0 .. MaxToken]
  /\ mail \in [Tabs -> SUBSET Tokens]
  /\ waiting \in SUBSET Callers

\* An answer is on its way to a tab, and a grant has a token.
RequestTypes ==
  /\ exchange \in [Exchanges -> Requests]
  /\ \A e \in Exchanges :
       /\ exchange[e].at \in {"granted", "denied"} => exchange[e].tab # NoTab
       /\ exchange[e].at = "granted" => exchange[e].token # 0

TypeOK == ServerTypes /\ BrowserTypes /\ TabTypes /\ RequestTypes

\* The browser has just signed in: create_session, and the cookies it set.
Init ==
  /\ store = [s \in SessionIds |-> IF s = 1 THEN 1 ELSE 0]
  /\ minted = 1 /\ logins = 1
  /\ jar = [sid |-> 1, token |-> 1] /\ signedIn = TRUE
  /\ holder = NoTab
  /\ flight = [t \in Tabs |-> NoFlight]
  /\ remote = [t \in Tabs |-> 0]
  /\ mail = [t \in Tabs |-> {}]
  /\ exchange = [e \in Exchanges |-> NoExchange]
  /\ waiting = {}
  /\ leaving = NotLeaving
  /\ lost = FALSE

\* create_session and rotate_refresh_token write a new pair for session s.
Mint(s) ==
  /\ minted < MaxToken
  /\ minted' = minted + 1
  /\ store' = [store EXCEPT ![s] = minted + 1]

\* A flight settles: its callers end or replay once, which is the end of them too.
Settle(t) == waiting' = {c \in waiting : Home[c] # t}

\* A faulty variant: the lock outlives the flight.
LandHolding(t) == flight' = [flight EXCEPT ![t] = NoFlight] /\ UNCHANGED holder

Land(t) ==
  /\ flight' = [flight EXCEPT ![t] = NoFlight]
  /\ holder' = IF holder = t THEN NoTab ELSE holder

-----------------------------------------------------------------------------
\* apiCall: a call that carried token k (any one so far) is answered 401, because
\* the token is past its lifetime or the session is gone.  It joins the refresh of
\* its tab, or starts one.  Calls that are answered otherwise leave no trace.
Refused(c, k) ==
  LET t == Home[c] IN
  /\ c \notin waiting /\ k <= minted
  /\ waiting' = waiting \cup {c}
  /\ flight' = IF flight[t].at # "none" THEN flight
               ELSE [flight EXCEPT ![t] = Flight("queued", k, 0)]
  /\ UNCHANGED <<server, browser, holder, remote, mail, exchange, leaving, lost>>

-----------------------------------------------------------------------------
\* refreshUnderCrossTabLock.
MayRefresh(t) == flight[t].at = "queued" /\ (HasLocks => holder = NoTab)

Reusable(t) == HasLocks /\ remote[t] \notin {0, flight[t].stale}

ReuseRemote(t) ==
  /\ MayRefresh(t) /\ Reusable(t)
  /\ Settle(t) /\ Land(t)
  /\ UNCHANGED <<server, browser, remote, mail, exchange, leaving, lost>>

\* doRefresh: the cookies of the moment go with the request.
Ask(t) ==
  /\ MayRefresh(t) /\ ~Reusable(t)
  /\ \E e \in Exchanges :
       /\ exchange[e].at = "free"
       /\ exchange' = [exchange EXCEPT ![e] = Request("sent", t, jar.sid, jar.token)]
  /\ flight' = [flight EXCEPT ![t] = Flight("asking", 0, 0)]
  /\ holder' = IF HasLocks THEN t ELSE holder
  /\ UNCHANGED <<server, browser, remote, mail, waiting, leaving, lost>>

-----------------------------------------------------------------------------
\* The backend reads the record and compares; a token that was rotated away
\* takes the session with it.  (A 401 clears no cookie: the headers of the
\* response are dropped with the exception.)
Read(e) ==
  LET x == exchange[e] IN
  /\ x.at = "sent"
  /\ IF x.sid # 0 /\ x.token # 0 /\ store[x.sid] = x.token
       THEN exchange' = [exchange EXCEPT ![e].at = "matched"] /\ UNCHANGED store
       ELSE /\ exchange' = [exchange EXCEPT ![e] =
                 IF x.tab = NoTab THEN NoExchange ELSE [x EXCEPT !.at = "denied"]]
            /\ store' = IF x.sid = 0 \/ x.token = 0 THEN store
                        ELSE [store EXCEPT ![x.sid] = 0]
  /\ UNCHANGED <<minted, logins, browser, tabs, waiting, leaving, lost>>

\* ... and writes the new hash, whatever has become of the record since.
Rotate(e) ==
  LET x == exchange[e] IN
  /\ x.at = "matched"
  /\ Mint(x.sid)
  /\ exchange' = [exchange EXCEPT ![e] =
       IF x.tab = NoTab THEN NoExchange
       ELSE Request("granted", x.tab, x.sid, minted + 1)]
  /\ UNCHANGED <<logins, browser, tabs, waiting, leaving, lost>>

\* The user turns out to be gone or not active once the hash is written: a 401,
\* and the exception drops the cookie that was set for the answer.
RefuseUser(e) ==
  LET x == exchange[e] IN
  /\ x.at = "matched"
  /\ Mint(x.sid)
  /\ exchange' = [exchange EXCEPT ![e] =
       IF x.tab = NoTab THEN NoExchange ELSE [x EXCEPT !.at = "denied"]]
  /\ lost' = (lost \/ x.sid = logins)
  /\ UNCHANGED <<logins, browser, tabs, waiting, leaving>>

\* A session ends at the backend with no word to its browser: revoked from another
\* one, by a new password, with the account, or not refreshed for seven days.
SessionEnds(s) ==
  /\ store[s] # 0
  /\ store' = [store EXCEPT ![s] = 0]
  /\ lost' = (lost \/ s = logins)
  /\ UNCHANGED <<minted, logins, browser, tabs, exchange, waiting, leaving>>

\* A faulty variant: the cookie is set for the backend's path, and never stored.
GrantedElsewhere(e) ==
  LET x == exchange[e] IN
  /\ x.at = "granted" /\ x.tab # NoTab
  /\ mail' = [u \in Tabs |-> IF u = x.tab THEN mail[u] ELSE mail[u] \cup {x.token}]
  /\ Settle(x.tab) /\ Land(x.tab)
  /\ exchange' = [exchange EXCEPT ![e] = NoExchange]
  /\ UNCHANGED <<server, browser, remote, leaving, lost>>

\* A grant: the cookie is stored, the callers replay, the other tabs are told.
Granted(e) ==
  LET x == exchange[e] IN
  /\ x.at = "granted" /\ x.tab # NoTab
  /\ jar' = [sid |-> jar.sid, token |-> x.token]
  /\ lost' = (lost \/ jar.sid # x.sid)
  /\ mail' = [u \in Tabs |-> IF u = x.tab THEN mail[u] ELSE mail[u] \cup {x.token}]
  /\ Settle(x.tab) /\ Land(x.tab)
  /\ exchange' = [exchange EXCEPT ![e] = NoExchange]
  /\ UNCHANGED <<server, signedIn, remote, leaving>>

\* A 401: performLogout without the backend, with the lock still held.
Denied(e) ==
  LET x == exchange[e] IN
  /\ x.at = "denied" /\ x.tab # NoTab
  /\ flight' = [flight EXCEPT ![x.tab] = Flight("leaving", 0, x.sid)]
  /\ exchange' = [exchange EXCEPT ![e] = NoExchange]
  /\ UNCHANGED <<server, browser, holder, remote, mail, waiting,
                 leaving, lost>>

SignOut(t) ==
  /\ flight[t].at = "leaving"
  /\ signedIn' = FALSE
  /\ Settle(t) /\ Land(t)
  /\ UNCHANGED <<server, jar, remote, mail, exchange, leaving, lost>>

\* A request that no tab waits for any more: the server may still act on it, and
\* its answer reaches nobody.
OrphanWithAnswer(x) == [x EXCEPT !.tab = NoTab]   \* a faulty variant
Orphan(x) == IF x.at \in {"sent", "matched"} THEN [x EXCEPT !.tab = NoTab] ELSE NoExchange

\* A faulty variant: a 5xx is taken for a refusal.
FailureIsRefusal(e) ==
  LET x == exchange[e] IN
  /\ x.at = "sent" /\ x.tab # NoTab
  /\ flight' = [flight EXCEPT ![x.tab] = Flight("leaving", 0, x.sid)]
  /\ exchange' = [exchange EXCEPT ![e] = NoExchange]
  /\ UNCHANGED <<server, browser, holder, remote, mail, waiting, leaving, lost>>

\* The backend cannot reach its store (503), or refuses for another moment: the
\* tab gives up with "refresh_unavailable", and nothing was written.
ServerFails(e) ==
  LET x == exchange[e] IN
  /\ x.at \in {"sent", "matched"} /\ x.tab # NoTab
  /\ Settle(x.tab) /\ Land(x.tab)
  /\ exchange' = [exchange EXCEPT ![e] = NoExchange]
  /\ UNCHANGED <<server, browser, remote, mail, leaving, lost>>

\* The tab gives up in the same way on a lost connection, a backend that goes
\* away or fails once the hash is written, the 25 s of the proxy.
Unavailable(e) ==
  LET x == exchange[e] IN
  /\ x.at # "free" /\ x.tab # NoTab
  /\ Settle(x.tab) /\ Land(x.tab)
  /\ exchange' = [exchange EXCEPT ![e] = Orphan(x)]
  /\ lost' = TRUE
  /\ UNCHANGED <<server, browser, remote, mail, leaving>>

\* The request of such a tab fails before it changes anything.
Dropped(e) ==
  /\ exchange[e].at # "free" /\ exchange[e].tab = NoTab
  /\ exchange' = [exchange EXCEPT ![e] = NoExchange]
  /\ UNCHANGED <<server, browser, tabs, waiting, leaving, lost>>

-----------------------------------------------------------------------------
\* The other tabs and time.
Hear(t) ==
  /\ \E k \in mail[t] :
       /\ mail' = [mail EXCEPT ![t] = @ \ {k}]
       /\ remote' = [remote EXCEPT ![t] = k]
       /\ UNCHANGED <<server, browser, holder, flight, exchange, waiting,
                 leaving, lost>>

RemoteAges(t) ==
  /\ remote[t] # 0
  /\ remote' = [remote EXCEPT ![t] = 0]
  /\ UNCHANGED <<server, browser, holder, flight, mail, exchange,
                 waiting, leaving, lost>>

\* A tab is closed or navigates: the browser releases its lock and drops its
\* requests, and the page that comes starts afresh with the NextAuth token.
Reload(t) ==
  /\ flight[t].at # "none"
  /\ Land(t)
  /\ remote' = [remote EXCEPT ![t] = 0]
  /\ mail' = [mail EXCEPT ![t] = {}]
  /\ exchange' = [e \in Exchanges |->
       IF exchange[e].tab = t THEN Orphan(exchange[e]) ELSE exchange[e]]
  /\ lost' = (lost \/ \E e \in Exchanges : exchange[e].tab = t)
  /\ Settle(t)
  /\ UNCHANGED <<server, browser, leaving>>

-----------------------------------------------------------------------------
\* The logout button: performLogout, which asks the backend first, twice at most.
Logout ==
  /\ signedIn /\ leaving.at = "no"
  /\ leaving' = [at |-> "asked", sid |-> jar.sid]
  /\ UNCHANGED <<server, browser, tabs, exchange, waiting, lost>>

Revoke ==
  /\ leaving.at = "asked"
  /\ store' = [s \in SessionIds |-> IF s = leaving.sid THEN 0 ELSE store[s]]
  /\ leaving' = [leaving EXCEPT !.at = "revoked"]
  /\ UNCHANGED <<minted, logins, browser, tabs, exchange, waiting, lost>>

\* The answer clears the cookies, and the browser signs out.
Leave ==
  /\ leaving.at = "revoked"
  /\ jar' = [sid |-> 0, token |-> 0] /\ signedIn' = FALSE
  /\ leaving' = NotLeaving
  /\ UNCHANGED <<server, tabs, exchange, waiting, lost>>

\* No answer: once more with the cookies of the moment (the count of attempts is
\* left out), or give up and stay signed in.
RevokeFails ==
  /\ leaving.at \in {"asked", "revoked"}
  /\ leaving' \in {NotLeaving, [at |-> "asked", sid |-> jar.sid]}
  /\ lost' = TRUE
  /\ UNCHANGED <<server, browser, tabs, exchange, waiting>>

\* Seven days after the login the browser drops rsends_sid, which no refresh
\* renews; the NextAuth session rolls on.
CookieAges ==
  /\ jar.sid # 0
  /\ jar' = [jar EXCEPT !.sid = 0]
  /\ lost' = TRUE
  /\ UNCHANGED <<server, signedIn, tabs, exchange, waiting, leaving>>

\* The user signs in again, in a new session.
Login ==
  /\ ~signedIn /\ leaving.at = "no"
  /\ logins < Sessions /\ logins' = logins + 1
  /\ Mint(logins + 1)
  /\ jar' = [sid |-> logins + 1, token |-> minted + 1]
  /\ signedIn' = TRUE /\ lost' = FALSE
  /\ UNCHANGED <<holder, flight, remote, mail, exchange, waiting, leaving>>

-----------------------------------------------------------------------------
Next ==
  \/ \E c \in Callers, k \in Tokens : Refused(c, k)
  \/ \E t \in Tabs : ReuseRemote(t) \/ Ask(t) \/ SignOut(t) \/ Hear(t)
                     \/ RemoteAges(t) \/ Reload(t)
  \/ \E e \in Exchanges : Read(e) \/ Rotate(e) \/ RefuseUser(e) \/ Granted(e) \/ Denied(e)
                          \/ ServerFails(e) \/ Unavailable(e) \/ Dropped(e)
  \/ \E s \in SessionIds : SessionEnds(s)
  \/ Logout \/ Revoke \/ Leave \/ RevokeFails \/ CookieAges \/ Login

Spec == Init /\ [][Next]_vars
-----------------------------------------------------------------------------
(***************************************************************************)
(* "The benign multi-tab rotation race is prevented on the client"           *)
(* (rotate_refresh_token): however many tabs refresh, reload and log in and  *)
(* out, a signed-in browser holds the refresh token that the backend         *)
(* expects, or the answer with it is under way.  Excepted, all in `lost`:    *)
(* since the login an answer was lost, the backend ended the session for     *)
(* another reason than reuse (revoked elsewhere, new password, account,      *)
(* expiry) or refused its user after the rotation, or the cookie that names  *)
(* the session ran out.  The tabs alone never use a token twice.             *)
(***************************************************************************)
RefreshableUnlessLost ==
  signedIn /\ leaving.at = "no" /\ ~lost =>
    \/ jar.sid # 0 /\ jar.token # 0 /\ store[jar.sid] = jar.token
    \/ \E e \in Exchanges :
         /\ exchange[e].at = "granted"
         /\ exchange[e].sid = jar.sid /\ store[jar.sid] = exchange[e].token

(***************************************************************************)
(* Nobody waits for what cannot come: a call that waits has the refresh of   *)
(* its tab, a refresh that asks has its request, and the lock that the other *)
(* tabs queue for is with the one tab that uses it, through reloads, lost    *)
(* answers and sign-outs.                                                   *)
(***************************************************************************)
NobodyWaitsInVain ==
  /\ \A c \in waiting : flight[Home[c]].at # "none"
  /\ \A t \in Tabs : flight[t].at = "asking" => \E e \in Exchanges : exchange[e].tab = t
  /\ holder # NoTab => flight[holder].at \in {"asking", "leaving"}
  /\ HasLocks => \A t \in Tabs : flight[t].at \in {"asking", "leaving"} => holder = t

(***************************************************************************)
(* "Treating a transient failure as terminal is what killed live sessions"   *)
(* (auth-client.ts:18): a tab whose refresh was refused never signs the      *)
(* browser out of that session while its cookies would still be accepted.    *)
(***************************************************************************)
SignsOutOnlyTheDead ==
  [][\A t \in Tabs :
       flight[t].at = "leaving" /\ signedIn /\ ~signedIn' /\ flight'[t].at = "none" =>
         jar.sid # flight[t].sid \/ jar.sid = 0 \/ store[jar.sid] # jar.token]_vars
=============================================================================
