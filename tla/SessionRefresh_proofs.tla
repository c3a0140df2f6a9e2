----------------------- MODULE SessionRefresh_proofs -----------------------
(***************************************************************************)
(* Theorems about SessionRefresh, for any number of tabs, calls, requests,  *)
(* logins and tokens.  The two about the cookies assume Web Locks.           *)
(***************************************************************************)
EXTENDS SessionRefresh, TLAPS

\* Who owns what: a request of a tab is the one its flight asks with, and a
\* flight that asks or signs out has the lock.
Owners ==
  /\ \A e \in Exchanges :
       /\ exchange[e].at = "free" => exchange[e] = NoExchange
       /\ exchange[e].tab # NoTab => flight[exchange[e].tab].at = "asking"
  /\ \A e, f \in Exchanges :
       exchange[e].tab = exchange[f].tab /\ exchange[e].tab # NoTab => e = f
  /\ \A t \in Tabs : flight[t].at = "asking" => \E e \in Exchanges : exchange[e].tab = t
  /\ \A c \in waiting : flight[Home[c]].at # "none"
  /\ holder # NoTab => flight[holder].at \in {"asking", "leaving"}
  /\ HasLocks => \A t \in Tabs : flight[t].at \in {"asking", "leaving"} => holder = t

\* What is numbered so far, and which session the browser is in.
Numbers ==
  /\ \A s \in SessionIds : store[s] <= minted
  /\ jar.token <= minted
  /\ signedIn => jar.sid \in {0, logins} /\ jar.token # 0
  /\ signedIn /\ ~lost => jar.sid = logins
  /\ jar.sid <= logins
  /\ jar.sid # 0 => jar.token # 0
  /\ \A e \in Exchanges :
       /\ exchange[e].sid <= logins /\ exchange[e].token <= minted
       /\ exchange[e].sid # 0 => exchange[e].token # 0
  /\ \A t \in Tabs : flight[t].sid <= logins

Settled == HasLocks /\ signedIn /\ leaving.at = "no" /\ ~lost

\* The requests about the session of a settled browser have a tab, and are at one
\* with the cookies and the backend.
Agrees(e) ==
  /\ exchange[e].tab # NoTab
  /\ exchange[e].at # "denied"
  /\ exchange[e].token = store[logins]
  /\ exchange[e].at \in {"sent", "matched"} => exchange[e].token = jar.token

Agreement ==
  Settled =>
    /\ \A e \in Exchanges :
         exchange[e].at # "free" /\ exchange[e].sid = logins => Agrees(e)
    /\ store[logins] # 0 /\ jar.token # 0
    /\ \/ store[logins] = jar.token
       \/ \E e \in Exchanges : exchange[e].at = "granted" /\ exchange[e].sid = logins

\* What was refused stays refused.
Refusals ==
  HasLocks /\ signedIn =>
    /\ \A e \in Exchanges :
         exchange[e].at = "denied" /\ exchange[e].sid = logins => store[logins] # jar.token
    /\ \A t \in Tabs :
         flight[t].at = "leaving" /\ flight[t].sid = logins => store[logins] # jar.token

IInv == TypeOK /\ Owners /\ Numbers /\ Agreement /\ Refusals

-----------------------------------------------------------------------------
(***************************************************************************)
(* Records of a flight and of a request, built and changed.                  *)
(***************************************************************************)
LEMMA FlightRecords ==
  /\ \A x \in Flights :
       /\ x.at \in {"none", "queued", "asking", "leaving"}
       /\ x.stale \in 0 .. MaxToken /\ x.sid \in 0 .. Sessions
  /\ \A a \in {"none", "queued", "asking", "leaving"}, k \in 0 .. MaxToken, s \in 0 .. Sessions :
       /\ Flight(a, k, s) \in Flights
       /\ Flight(a, k, s).at = a /\ Flight(a, k, s).stale = k /\ Flight(a, k, s).sid = s
  /\ NoFlight \in Flights /\ NoFlight.at = "none" /\ NoFlight.sid = 0
BY BoundAssumption DEF Flights, Flight, NoFlight

LEMMA RequestMade ==
  ASSUME NEW a \in {"sent", "matched", "granted"}, NEW t \in Tabs \cup {NoTab},
         NEW s \in 0 .. Sessions, NEW k \in 0 .. MaxToken
  PROVE  /\ Request(a, t, s, k) \in Requests
         /\ Request(a, t, s, k).at = a /\ Request(a, t, s, k).tab = t
         /\ Request(a, t, s, k).sid = s /\ Request(a, t, s, k).token = k
BY DEF Requests, Request

LEMMA RequestRecords ==
  /\ NoExchange \in Requests
  /\ \A x \in Requests :
       /\ x.at \in {"free", "sent", "matched", "granted", "denied"}
       /\ x.tab \in Tabs \cup {NoTab}
       /\ x.sid \in 0 .. Sessions /\ x.token \in 0 .. MaxToken
BY BoundAssumption DEF Requests, Request, NoExchange

\* The fields of a request that is gone, and of one that has come a step further.
LEMMA RequestFields ==
  /\ NoExchange.at = "free" /\ NoExchange.tab = NoTab
  /\ NoExchange.sid = 0 /\ NoExchange.token = 0
  /\ \A x \in Requests, a \in {"matched", "denied"} :
       /\ [x EXCEPT !.at = a].at = a /\ [x EXCEPT !.at = a].tab = x.tab
       /\ [x EXCEPT !.at = a].sid = x.sid /\ [x EXCEPT !.at = a].token = x.token
BY DEF Requests, Request, NoExchange

LEMMA RequestChanges ==
  /\ \A x \in Requests, a \in {"matched", "denied"} : [x EXCEPT !.at = a] \in Requests
  /\ \A x \in Requests : [x EXCEPT !.tab = NoTab] \in Requests
BY DEF Requests

LEMMA Orphans ==
  ASSUME NEW x \in Requests
  PROVE  /\ Orphan(x) \in Requests /\ Orphan(x).tab = NoTab
         /\ Orphan(x).at \in {"free", "sent", "matched"}
         /\ Orphan(x).at = "free" => Orphan(x) = NoExchange \/ x.at = "free"
         /\ Orphan(x).at # "free" => Orphan(x).sid = x.sid /\ Orphan(x).token = x.token
BY BoundAssumption DEF Requests, Request, Orphan, NoExchange

LEMMA OrphanFields ==
  ASSUME NEW x \in Requests
  PROVE  \/ Orphan(x).sid = x.sid /\ Orphan(x).token = x.token
         \/ Orphan(x).sid = 0 /\ Orphan(x).token = 0
BY RequestFields DEF Requests, Orphan

LEMMA InitTypes ==
  ASSUME Init
  PROVE  TypeOK
<1> USE BoundAssumption DEF Init
<1>1. ServerTypes
  BY DEF SessionIds, ServerTypes
<1>2. jar \in [sid : 0 .. Sessions, token : 0 .. MaxToken] /\ signedIn \in BOOLEAN
  OBVIOUS
<1>3. leaving \in [at : {"no", "asked", "revoked"}, sid : 0 .. Sessions]
  BY DEF NotLeaving
<1>8. lost \in BOOLEAN
  OBVIOUS
<1>4. flight \in [Tabs -> Flights] /\ holder \in Tabs \cup {NoTab}
  BY FlightRecords
<1>5. remote \in [Tabs -> 0 .. MaxToken] /\ mail \in [Tabs -> SUBSET Tokens]
  OBVIOUS
<1>6. waiting \in SUBSET Callers
  OBVIOUS
<1>7. exchange \in [Exchanges -> Requests] /\ \A e \in Exchanges : exchange[e].at = "free"
  BY RequestRecords, RequestFields
<1> QED
  BY <1>1, <1>2, <1>3, <1>4, <1>5, <1>6, <1>7, <1>8 DEF TypeOK, BrowserTypes, TabTypes, RequestTypes

LEMMA LandTypes ==
  ASSUME TabTypes, NEW t \in Tabs, Land(t)
  PROVE  flight' \in [Tabs -> Flights] /\ holder' \in Tabs \cup {NoTab}
<1>1. flight \in [Tabs -> Flights] /\ holder \in Tabs \cup {NoTab}
  BY DEF TabTypes
<1>2. NoFlight \in Flights
  BY FlightRecords
<1> QED
  BY <1>1, <1>2 DEF Land

LEMMA LandSettles ==
  ASSUME TabTypes, NEW t \in Tabs, Land(t), Settle(t), UNCHANGED remote,
         mail' \in [Tabs -> SUBSET Tokens]
  PROVE  TabTypes'
BY LandTypes DEF TabTypes, Settle

LEMMA MintTypes ==
  ASSUME ServerTypes, NEW s \in 0 .. Sessions, Mint(s)
  PROVE  minted' \in 0 .. MaxToken /\ minted' = minted + 1
         /\ minted' \in Tokens /\ store' \in [SessionIds -> 0 .. MaxToken]
<1>1. store \in [SessionIds -> 0 .. MaxToken] /\ minted \in 0 .. MaxToken
  BY DEF ServerTypes
<1>2. minted + 1 \in 0 .. MaxToken /\ minted + 1 \in Tokens
  BY <1>1, BoundAssumption DEF Mint, Tokens
<1>3. store' = [store EXCEPT ![s] = minted + 1] /\ minted' = minted + 1
  BY DEF Mint
<1> QED
  BY <1>1, <1>2, <1>3

\* One request changes, to one that has a tab when it carries an answer.
LEMMA OneRequest ==
  ASSUME RequestTypes, NEW e \in Exchanges, NEW r \in Requests,
         exchange' = [exchange EXCEPT ![e] = r],
         r.at \in {"granted", "denied"} => r.tab # NoTab,
         r.at = "granted" => r.token # 0
  PROVE  RequestTypes'
BY DEF RequestTypes

LEMMA Kept ==
  /\ ServerTypes /\ UNCHANGED server => ServerTypes'
  /\ BrowserTypes /\ UNCHANGED <<browser, leaving, lost>> => BrowserTypes'
  /\ TabTypes /\ UNCHANGED <<tabs, waiting>> => TabTypes'
  /\ RequestTypes /\ UNCHANGED exchange => RequestTypes'
BY DEF ServerTypes, BrowserTypes, TabTypes, RequestTypes, server, browser, tabs

\* The steps of a request.
LEMMA RequestSteps ==
  ASSUME TypeOK, NEW e \in Exchanges
  PROVE  /\ exchange[e] \in Requests
         /\ exchange[e].sid \in 0 .. Sessions /\ exchange[e].token \in 0 .. MaxToken
         /\ exchange[e].tab \in Tabs \cup {NoTab}
         /\ jar.sid \in 0 .. Sessions /\ jar.token \in 0 .. MaxToken
<1>1. exchange[e] \in Requests /\ jar.sid \in 0 .. Sessions /\ jar.token \in 0 .. MaxToken
  BY DEF TypeOK, RequestTypes, BrowserTypes
<1> QED
  BY <1>1, RequestRecords

LEMMA RequestGone ==
  ASSUME TypeOK, NEW e \in Exchanges, exchange' = [exchange EXCEPT ![e] = NoExchange]
  PROVE  RequestTypes'
BY OneRequest, RequestRecords, RequestFields DEF TypeOK

LEMMA CallTypes ==
  ASSUME TypeOK, NEW c \in Callers, NEW k \in Tokens, Refused(c, k)
  PROVE  TypeOK'
<1>1. Home[c] \in Tabs /\ k \in 0 .. MaxToken
  BY HomeAssumption, BoundAssumption DEF Tokens
<1>2. Flight("queued", k, 0) \in Flights
  BY <1>1, FlightRecords, BoundAssumption
<1>3. TabTypes'
  BY <1>1, <1>2 DEF Refused, TypeOK, TabTypes
<1> QED
  BY <1>3, Kept DEF TypeOK, Refused

LEMMA TabSteps ==
  ASSUME TypeOK, NEW t \in Tabs,
         ReuseRemote(t) \/ Ask(t) \/ SignOut(t) \/ Hear(t) \/ RemoteAges(t) \/ Reload(t)
  PROVE  TypeOK'
<1> USE DEF TypeOK
<1>1. CASE ReuseRemote(t)
  <2>1. mail' \in [Tabs -> SUBSET Tokens]
    BY <1>1 DEF ReuseRemote, TabTypes
  <2>2. TabTypes'
    BY <1>1, <2>1, LandSettles DEF ReuseRemote
  <2> QED
    BY <1>1, <2>2, Kept DEF ReuseRemote
<1>2. CASE Ask(t)
  <2>1. PICK e \in Exchanges : exchange' =
          [exchange EXCEPT ![e] = Request("sent", t, jar.sid, jar.token)]
    BY <1>2 DEF Ask
  <2>2. /\ Request("sent", t, jar.sid, jar.token) \in Requests
        /\ Request("sent", t, jar.sid, jar.token).at = "sent"
    BY RequestMade, RequestSteps
  <2>3. RequestTypes'
    BY <2>1, <2>2, OneRequest
  <2>4. Flight("asking", 0, 0) \in Flights
    BY FlightRecords, BoundAssumption
  <2>5. TabTypes'
    BY <1>2, <2>4 DEF Ask, TabTypes
  <2> QED
    BY <1>2, <2>3, <2>5, Kept DEF Ask
<1>3. CASE SignOut(t)
  <2>1. mail' \in [Tabs -> SUBSET Tokens]
    BY <1>3 DEF SignOut, TabTypes
  <2>2. TabTypes'
    BY <1>3, <2>1, LandSettles DEF SignOut
  <2>3. BrowserTypes'
    BY <1>3 DEF SignOut, BrowserTypes
  <2> QED
    BY <1>3, <2>2, <2>3, Kept DEF SignOut
<1>4. CASE Hear(t)
  <2>1. PICK k \in mail[t] : mail' = [mail EXCEPT ![t] = @ \ {k}] /\ remote' = [remote EXCEPT ![t] = k]
    BY <1>4 DEF Hear
  <2>2. k \in 0 .. MaxToken
    BY <2>1, BoundAssumption DEF TabTypes, Tokens
  <2>3. TabTypes'
    BY <1>4, <2>1, <2>2 DEF Hear, TabTypes
  <2> QED
    BY <1>4, <2>3, Kept DEF Hear
<1>5. CASE RemoteAges(t)
  <2>1. TabTypes'
    BY <1>5, BoundAssumption DEF RemoteAges, TabTypes
  <2> QED
    BY <1>5, <2>1, Kept DEF RemoteAges
<1>6. CASE Reload(t)
  <2>1. TabTypes'
    BY <1>6, BoundAssumption, LandTypes DEF Reload, TabTypes, Settle
  <2>2. \A e \in Exchanges : exchange[e] \in Requests
    BY DEF RequestTypes
  <2>3. RequestTypes'
    BY <1>6, <2>2, Orphans DEF Reload, RequestTypes
  <2>4. BrowserTypes'
    BY <1>6 DEF Reload, BrowserTypes, browser
  <2> QED
    BY <1>6, <2>1, <2>3, <2>4, Kept DEF Reload
<1> QED
  BY <1>1, <1>2, <1>3, <1>4, <1>5, <1>6

LEMMA RequestStepTypes ==
  ASSUME TypeOK, NEW e \in Exchanges,
         Read(e) \/ Rotate(e) \/ RefuseUser(e) \/ Granted(e) \/ Denied(e) \/ ServerFails(e)
           \/ Unavailable(e) \/ Dropped(e)
  PROVE  TypeOK'
<1> USE DEF TypeOK
<1> DEFINE x == exchange[e]
<1>1. /\ x \in Requests /\ x.sid \in 0 .. Sessions /\ x.token \in 0 .. MaxToken
      /\ x.tab \in Tabs \cup {NoTab}
  BY RequestSteps
<1> HIDE DEF x
<1>2. CASE Read(e)
  <2>1. \/ exchange' = [exchange EXCEPT ![e] = NoExchange]
        \/ exchange' = [exchange EXCEPT ![e] = [x EXCEPT !.at = "matched"]]
        \/ exchange' = [exchange EXCEPT ![e] = [x EXCEPT !.at = "denied"]] /\ x.tab # NoTab
    BY <1>2 DEF Read, x
  <2>2. RequestTypes'
    <3>1. CASE exchange' = [exchange EXCEPT ![e] = NoExchange]
      BY <3>1, RequestGone
    <3>2. CASE exchange' = [exchange EXCEPT ![e] = [x EXCEPT !.at = "matched"]]
      BY <1>1, <3>2, OneRequest, RequestChanges, RequestFields
    <3>3. CASE exchange' = [exchange EXCEPT ![e] = [x EXCEPT !.at = "denied"]] /\ x.tab # NoTab
      BY <1>1, <3>3, OneRequest, RequestChanges, RequestFields
    <3> QED
      BY <2>1, <3>1, <3>2, <3>3
  <2>3. store' = store \/ store' = [store EXCEPT ![x.sid] = 0]
    BY <1>2 DEF Read, x
  <2>4. store' \in [SessionIds -> 0 .. MaxToken]
    BY <1>1, <2>3, BoundAssumption DEF ServerTypes
  <2>5. ServerTypes'
    BY <1>2, <2>4 DEF Read, ServerTypes
  <2> QED
    BY <1>2, <2>2, <2>5, Kept DEF Read
<1>3. CASE Rotate(e)
  <2>1. Mint(x.sid) /\ UNCHANGED logins
    BY <1>3 DEF Rotate, x
  <2>2. ServerTypes'
    BY <1>1, <2>1, MintTypes DEF ServerTypes
  <2>3. minted' \in 0 .. MaxToken /\ minted' = minted + 1
    BY <1>1, <2>1, MintTypes
  <2>4. \/ exchange' = [exchange EXCEPT ![e] = NoExchange]
        \/ /\ exchange' = [exchange EXCEPT ![e] = Request("granted", x.tab, x.sid, minted + 1)]
           /\ x.tab # NoTab
    BY <1>3 DEF Rotate, x
  <2>5. RequestTypes'
    <3>1. minted' # 0 /\ minted' = minted + 1
      BY <2>3, BoundAssumption DEF ServerTypes
    <3>2. CASE exchange' = [exchange EXCEPT ![e] = NoExchange]
      BY <3>2, RequestGone
    <3>3. CASE exchange' = [exchange EXCEPT ![e] = Request("granted", x.tab, x.sid, minted + 1)]
               /\ x.tab # NoTab
      <4> DEFINE r == Request("granted", x.tab, x.sid, minted + 1)
      <4>1. r \in Requests /\ r.at = "granted" /\ r.tab = x.tab /\ r.token = minted + 1
        <5>1. minted + 1 \in 0 .. MaxToken
          BY <2>3
        <5> QED
          BY <1>1, <5>1, RequestMade
      <4>2. exchange' = [exchange EXCEPT ![e] = r]
        BY <3>3
      <4>3. r.tab # NoTab /\ r.token # 0
        BY <3>1, <3>3, <4>1
      <4> HIDE DEF r
      <4> QED
        BY <4>1, <4>2, <4>3, OneRequest
    <3> QED
      BY <2>4, <3>2, <3>3
  <2> QED
    BY <1>3, <2>2, <2>5, Kept DEF Rotate
<1>4. CASE Granted(e)
  <2>1. x.tab \in Tabs /\ Land(x.tab) /\ Settle(x.tab) /\ UNCHANGED remote
    BY <1>1, <1>4 DEF Granted, x
  <2>2. x.token \in Tokens
    BY <1>1, <1>4, BoundAssumption DEF Granted, x, Tokens, RequestTypes
  <2>3. mail' \in [Tabs -> SUBSET Tokens]
    BY <1>4, <2>2 DEF Granted, x, TabTypes
  <2>4. TabTypes'
    BY <2>1, <2>3, LandSettles
  <2>5. RequestTypes'
    BY <1>4, RequestGone DEF Granted
  <2>6. jar' = [sid |-> jar.sid, token |-> x.token] /\ jar.sid \in 0 .. Sessions
    BY <1>4 DEF Granted, x, BrowserTypes
  <2>7. jar' \in [sid : 0 .. Sessions, token : 0 .. MaxToken]
    BY <1>1, <2>6
  <2>8. BrowserTypes'
    BY <1>4, <2>7 DEF Granted, BrowserTypes
  <2> QED
    BY <1>4, <2>4, <2>5, <2>8, Kept DEF Granted
<1>5. CASE Denied(e)
  <2>1. x.tab \in Tabs
    BY <1>1, <1>5 DEF Denied, x
  <2>2. Flight("leaving", 0, x.sid) \in Flights
    BY <1>1, FlightRecords, BoundAssumption
  <2>3. TabTypes'
    BY <1>5, <2>1, <2>2 DEF Denied, TabTypes, x
  <2>4. RequestTypes'
    BY <1>5, RequestGone DEF Denied
  <2> QED
    BY <1>5, <2>3, <2>4, Kept DEF Denied
<1>6. CASE ServerFails(e)
  <2>1. x.tab \in Tabs /\ Land(x.tab) /\ Settle(x.tab) /\ UNCHANGED <<remote, mail>>
    BY <1>1, <1>6 DEF ServerFails, x
  <2>2. mail' \in [Tabs -> SUBSET Tokens]
    BY <2>1 DEF TabTypes
  <2>3. TabTypes'
    BY <2>1, <2>2, LandSettles
  <2>4. RequestTypes'
    BY <1>6, RequestGone DEF ServerFails
  <2> QED
    BY <1>6, <2>3, <2>4, Kept DEF ServerFails
<1>7. CASE Unavailable(e)
  <2>1. x.tab \in Tabs /\ Land(x.tab) /\ Settle(x.tab) /\ UNCHANGED <<remote, mail>>
    BY <1>1, <1>7 DEF Unavailable, x
  <2>2. mail' \in [Tabs -> SUBSET Tokens]
    BY <2>1 DEF TabTypes
  <2>3. TabTypes'
    BY <2>1, <2>2, LandSettles
  <2>4. RequestTypes'
    BY <1>1, <1>7, OneRequest, Orphans DEF Unavailable, x
  <2>5. BrowserTypes'
    BY <1>7 DEF Unavailable, BrowserTypes, browser
  <2> QED
    BY <1>7, <2>3, <2>4, <2>5, Kept DEF Unavailable
<1>8. CASE Dropped(e)
  BY <1>8, RequestGone, Kept DEF Dropped
<1>9. CASE RefuseUser(e)
  <2>1. Mint(x.sid) /\ UNCHANGED logins
    BY <1>9 DEF RefuseUser, x
  <2>2. ServerTypes'
    BY <1>1, <2>1, MintTypes DEF ServerTypes
  <2>3. \/ exchange' = [exchange EXCEPT ![e] = NoExchange]
        \/ exchange' = [exchange EXCEPT ![e] = [x EXCEPT !.at = "denied"]] /\ x.tab # NoTab
    BY <1>9 DEF RefuseUser, x
  <2>4. RequestTypes'
    <3>1. CASE exchange' = [exchange EXCEPT ![e] = NoExchange]
      BY <3>1, RequestGone
    <3>2. CASE exchange' = [exchange EXCEPT ![e] = [x EXCEPT !.at = "denied"]] /\ x.tab # NoTab
      BY <1>1, <3>2, OneRequest, RequestChanges, RequestFields
    <3> QED
      BY <2>3, <3>1, <3>2
  <2>5. BrowserTypes'
    BY <1>9 DEF RefuseUser, BrowserTypes, browser
  <2> QED
    BY <1>9, <2>2, <2>4, <2>5, Kept DEF RefuseUser
<1> QED
  BY <1>2, <1>3, <1>4, <1>5, <1>6, <1>7, <1>8, <1>9

LEMMA SessionStepTypes ==
  ASSUME TypeOK,
         \/ Logout \/ Revoke \/ Leave \/ RevokeFails \/ CookieAges \/ Login
         \/ \E s \in SessionIds : SessionEnds(s)
  PROVE  TypeOK'
<1> USE DEF TypeOK
<1>1. jar.sid \in 0 .. Sessions /\ 0 \in 0 .. Sessions /\ 0 \in 0 .. MaxToken
  BY BoundAssumption DEF BrowserTypes
<1>2. CASE Logout
  <2>1. BrowserTypes'
    BY <1>1, <1>2 DEF Logout, BrowserTypes, browser
  <2> QED
    BY <1>2, <2>1, Kept DEF Logout
<1>3. CASE Revoke
  <2>1. BrowserTypes'
    BY <1>3 DEF Revoke, BrowserTypes, browser
  <2>2. ServerTypes'
    BY <1>1, <1>3 DEF Revoke, ServerTypes
  <2> QED
    BY <1>3, <2>1, <2>2, Kept DEF Revoke
<1>4. CASE Leave
  <2>1. BrowserTypes'
    BY <1>1, <1>4 DEF Leave, BrowserTypes, NotLeaving
  <2> QED
    BY <1>4, <2>1, Kept DEF Leave
<1>5. CASE RevokeFails
  <2>1. BrowserTypes'
    BY <1>1, <1>5 DEF RevokeFails, BrowserTypes, browser, NotLeaving
  <2> QED
    BY <1>5, <2>1, Kept DEF RevokeFails
<1>6. CASE Login
  <2>1. logins + 1 \in SessionIds /\ logins + 1 \in 0 .. Sessions
    BY <1>6, BoundAssumption DEF Login, ServerTypes, SessionIds
  <2>2. Mint(logins + 1) /\ logins' = logins + 1
    BY <1>6 DEF Login
  <2>3. minted' \in 0 .. MaxToken /\ minted' = minted + 1 /\ store' \in [SessionIds -> 0 .. MaxToken]
    BY <2>1, <2>2, MintTypes
  <2>4. ServerTypes'
    BY <2>1, <2>2, <2>3 DEF ServerTypes
  <2>5. BrowserTypes'
    BY <1>6, <2>1, <2>3 DEF Login, BrowserTypes
  <2> QED
    BY <1>6, <2>4, <2>5, Kept DEF Login, tabs
<1>7. CASE CookieAges
  <2>1. BrowserTypes'
    BY <1>1, <1>7 DEF CookieAges, BrowserTypes
  <2> QED
    BY <1>7, <2>1, Kept DEF CookieAges
<1>8. ASSUME NEW s \in SessionIds, SessionEnds(s) PROVE TypeOK'
  <2>1. BrowserTypes'
    BY <1>8 DEF SessionEnds, BrowserTypes, browser
  <2>2. ServerTypes'
    BY <1>1, <1>8 DEF SessionEnds, ServerTypes
  <2> QED
    BY <1>8, <2>1, <2>2, Kept DEF SessionEnds
<1> QED
  BY <1>2, <1>3, <1>4, <1>5, <1>6, <1>7, <1>8

LEMMA StepTypes ==
  ASSUME TypeOK, [Next]_vars
  PROVE  TypeOK'
<1>1. CASE UNCHANGED vars
  BY <1>1, Kept DEF vars, TypeOK
<1>2. CASE Next
  BY <1>2, CallTypes, TabSteps, RequestStepTypes, SessionStepTypes DEF Next
<1> QED
  BY <1>1, <1>2

(***************************************************************************)
(* Whose request, whose lock.                                               *)
(***************************************************************************)
LEMMA InitOwners ==
  ASSUME Init
  PROVE  Owners
<1>1. \A e \in Exchanges : exchange[e] = NoExchange
  BY DEF Init
<1>2. \A t \in Tabs : flight[t] = NoFlight
  BY DEF Init
<1> QED
  BY <1>1, <1>2, FlightRecords, RequestFields DEF Init, Owners

LEMMA Landed ==
  ASSUME TabTypes, NEW t \in Tabs, Land(t)
  PROVE  /\ flight'[t].at = "none" /\ flight'[t].sid = 0
         /\ \A u \in Tabs : u # t => flight'[u] = flight[u]
         /\ holder = t => holder' = NoTab
         /\ holder # t => holder' = holder
BY FlightRecords DEF TabTypes, Land

\* A tab that is not asking lands.
LEMMA LandOwners ==
  ASSUME TypeOK, Owners, NEW t \in Tabs, Land(t), Settle(t), UNCHANGED exchange,
         flight[t].at # "asking"
  PROVE  Owners'
<1>1. TypeOK /\ TabTypes /\ RequestTypes
  BY DEF TypeOK
<1> USE DEF Owners
<1>2. \A e \in Exchanges : exchange[e].tab \in Tabs \cup {NoTab}
  BY <1>1, RequestSteps
<1>3. /\ flight'[t].at = "none" /\ \A u \in Tabs : u # t => flight'[u] = flight[u]
      /\ holder = t => holder' = NoTab
      /\ holder # t => holder' = holder
  BY <1>1, Landed
<1>4. (\A e \in Exchanges : exchange[e].tab # NoTab => flight[exchange[e].tab].at = "asking")'
  BY <1>2, <1>3
<1>5. (\A c \in waiting : flight[Home[c]].at # "none")'
  BY <1>1, <1>3, HomeAssumption DEF Settle, TabTypes
<1>6. (\A u \in Tabs : flight[u].at = "asking" => \E e \in Exchanges : exchange[e].tab = u)'
  BY <1>3
<1>7. holder \in Tabs \cup {NoTab}
  BY <1>1 DEF TabTypes
<1>8. (holder # NoTab => flight[holder].at \in {"asking", "leaving"})'
  BY <1>3, <1>7
<1>9. (HasLocks => \A u \in Tabs : flight[u].at \in {"asking", "leaving"} => holder = u)'
  BY <1>3, <1>7, NoTabAssumption
<1> QED
  BY <1>4, <1>5, <1>6, <1>8, <1>9

\* A tab that asks lands, and its request goes or loses it.
LEMMA AnswerOwners ==
  ASSUME TypeOK, Owners, NEW e \in Exchanges, NEW r \in Requests,
         exchange[e].tab # NoTab, r.tab = NoTab, r.at = "free" => r = NoExchange,
         exchange' = [exchange EXCEPT ![e] = r],
         Land(exchange[e].tab), Settle(exchange[e].tab)
  PROVE  Owners'
<1> DEFINE t == exchange[e].tab
<1>1. TypeOK /\ TabTypes /\ RequestTypes /\ t \in Tabs
  BY RequestSteps DEF TypeOK
<1>2. \A f \in Exchanges : exchange[f].tab \in Tabs \cup {NoTab}
  BY RequestSteps
<1>3. /\ flight'[t].at = "none" /\ \A u \in Tabs : u # t => flight'[u] = flight[u]
      /\ holder = t => holder' = NoTab
      /\ holder # t => holder' = holder
  BY <1>1, Landed
<1>4. /\ exchange'[e] = r
      /\ \A f \in Exchanges : f # e => exchange'[f] = exchange[f] /\ exchange[f].tab # t
  BY <1>1 DEF RequestTypes, Owners
<1>5. flight[t].at = "asking"
  BY DEF Owners
<1> HIDE DEF t
<1> USE DEF Owners
<1>6. (\A f \in Exchanges : exchange[f].tab # NoTab => flight[exchange[f].tab].at = "asking")'
  BY <1>2, <1>3, <1>4
<1>7. (\A c \in waiting : flight[Home[c]].at # "none")'
  BY <1>1, <1>3, HomeAssumption DEF Settle, TabTypes, t
<1>8. (\A u \in Tabs : flight[u].at = "asking" => \E f \in Exchanges : exchange[f].tab = u)'
  BY <1>1, <1>3, <1>4 DEF t
<1>9. holder \in Tabs \cup {NoTab}
  BY <1>1 DEF TabTypes
<1>10. (holder # NoTab => flight[holder].at \in {"asking", "leaving"})'
  BY <1>3, <1>9
<1>11. (HasLocks => \A u \in Tabs : flight[u].at \in {"asking", "leaving"} => holder = u)'
  BY <1>3, <1>9, NoTabAssumption
<1>12. (\A f, g \in Exchanges :
          exchange[f].tab = exchange[g].tab /\ exchange[f].tab # NoTab => f = g)'
  BY <1>4
<1>13. (\A f \in Exchanges : exchange[f].at = "free" => exchange[f] = NoExchange)'
  BY <1>4
<1> QED
  BY <1>6, <1>7, <1>8, <1>10, <1>11, <1>12, <1>13

\* A request goes a step further, in the same hands.
LEMMA SameOwner ==
  ASSUME TypeOK, Owners, NEW e \in Exchanges, NEW r \in Requests,
         r.tab = exchange[e].tab, r.at = "free" => r = NoExchange,
         exchange' = [exchange EXCEPT ![e] = r],
         UNCHANGED <<flight, holder, waiting>>
  PROVE  Owners'
<1>1. /\ exchange'[e] = r
      /\ \A f \in Exchanges : f # e => exchange'[f] = exchange[f]
  BY DEF TypeOK, RequestTypes
<1>2. \A f \in Exchanges : exchange'[f].tab = exchange[f].tab
  BY <1>1
<1>3. (\A f \in Exchanges : exchange[f].at = "free" => exchange[f] = NoExchange)'
  BY <1>1 DEF Owners
<1> QED
  BY <1>2, <1>3 DEF Owners

LEMMA KeptOwners ==
  ASSUME Owners, UNCHANGED <<flight, holder, exchange, waiting>>
  PROVE  Owners'
BY DEF Owners

LEMMA StepOwners ==
  ASSUME TypeOK, Owners, [Next]_vars
  PROVE  Owners'
<1>1. TabTypes /\ RequestTypes
  BY DEF TypeOK
<1>2. \A e \in Exchanges : exchange[e] \in Requests /\ exchange[e].tab \in Tabs \cup {NoTab}
  BY RequestSteps
<1>3. ASSUME NEW c \in Callers, NEW k \in Tokens, Refused(c, k) PROVE Owners'
  <2> DEFINE t == Home[c]
  <2>1. t \in Tabs /\ k \in 0 .. MaxToken
    BY HomeAssumption, BoundAssumption DEF Tokens
  <2>2. /\ flight'[t].at # "none"
        /\ \A u \in Tabs : \/ flight'[u] = flight[u]
                           \/ flight[u].at = "none" /\ flight'[u].at = "queued"
    <3>1. Flight("queued", k, 0).at = "queued"
      BY <2>1, FlightRecords, BoundAssumption
    <3>2. CASE flight[t].at # "none"
      BY <1>3, <3>2 DEF Refused
    <3>3. CASE flight[t].at = "none"
      <4>1. flight' = [flight EXCEPT ![t] = Flight("queued", k, 0)]
        BY <1>3, <3>3 DEF Refused
      <4> HIDE DEF t
      <4> QED
        BY <1>1, <2>1, <3>1, <3>3, <4>1 DEF TabTypes
    <3> QED
      BY <3>2, <3>3
  <2>3. waiting' = waiting \cup {c} /\ UNCHANGED <<holder, exchange>>
    BY <1>3 DEF Refused, tabs
  <2>4. (\A d \in waiting : flight[Home[d]].at # "none")'
    BY <1>1, <2>1, <2>2, <2>3, HomeAssumption DEF Owners, TabTypes
  <2> HIDE DEF t
  <2>5. \A u \in Tabs, a \in {"asking", "leaving"} : flight'[u].at = a <=> flight[u].at = a
    BY <2>2
  <2>6. holder \in Tabs \cup {NoTab}
    BY <1>1 DEF TabTypes
  <2> QED
    BY <1>2, <2>3, <2>4, <2>5, <2>6 DEF Owners
<1>4. ASSUME NEW t \in Tabs, ReuseRemote(t) PROVE Owners'
  BY <1>4, LandOwners DEF ReuseRemote, MayRefresh
<1>5. ASSUME NEW t \in Tabs, Ask(t) PROVE Owners'
  <2>1. PICK e \in Exchanges :
          exchange[e].at = "free"
          /\ exchange' = [exchange EXCEPT ![e] = Request("sent", t, jar.sid, jar.token)]
    BY <1>5 DEF Ask
  <2>2. /\ Request("sent", t, jar.sid, jar.token).tab = t
        /\ Request("sent", t, jar.sid, jar.token).at = "sent"
    BY RequestMade, RequestSteps
  <2>3. /\ exchange'[e].tab = t /\ exchange'[e].at = "sent" /\ exchange[e].tab = NoTab
        /\ \A f \in Exchanges : f # e => exchange'[f] = exchange[f]
    BY <1>1, <2>1, <2>2, RequestFields DEF RequestTypes, Owners
  <2>4. /\ flight'[t].at = "asking" /\ flight[t].at = "queued"
        /\ \A u \in Tabs : u # t => flight'[u] = flight[u]
    <3>1. Flight("asking", 0, 0).at = "asking"
      BY FlightRecords, BoundAssumption
    <3> QED
      BY <1>1, <1>5, <3>1 DEF Ask, MayRefresh, TabTypes
  <2>5. /\ HasLocks => holder = NoTab
        /\ holder' = IF HasLocks THEN t ELSE holder
        /\ UNCHANGED waiting
    BY <1>5 DEF Ask, MayRefresh
  <2>6. \A f \in Exchanges : exchange[f].tab # t
    BY <2>4, NoTabAssumption DEF Owners
  <2> USE DEF Owners
  <2>7. (\A f \in Exchanges :
           /\ exchange[f].at = "free" => exchange[f] = NoExchange
           /\ exchange[f].tab # NoTab => flight[exchange[f].tab].at = "asking")'
    BY <1>2, <2>3, <2>4, <2>6
  <2>8. (\A f, g \in Exchanges :
           exchange[f].tab = exchange[g].tab /\ exchange[f].tab # NoTab => f = g)'
    BY <2>3, <2>6
  <2>9. (\A u \in Tabs : flight[u].at = "asking" => \E f \in Exchanges : exchange[f].tab = u)'
    BY <2>3, <2>4, NoTabAssumption
  <2>10. (\A c \in waiting : flight[Home[c]].at # "none")'
    BY <1>1, <2>4, <2>5, HomeAssumption DEF TabTypes
  <2>11. holder \in Tabs \cup {NoTab}
    BY <1>1 DEF TabTypes
  <2>12. (holder # NoTab => flight[holder].at \in {"asking", "leaving"})'
    BY <2>4, <2>5, <2>11
  <2>13. (HasLocks => \A u \in Tabs : flight[u].at \in {"asking", "leaving"} => holder = u)'
    BY <2>4, <2>5, NoTabAssumption
  <2> QED
    BY <2>7, <2>8, <2>9, <2>10, <2>12, <2>13
<1>6. ASSUME NEW t \in Tabs, SignOut(t) PROVE Owners'
  BY <1>6, LandOwners DEF SignOut
<1>7. ASSUME NEW t \in Tabs, Hear(t) PROVE Owners'
  BY <1>7, KeptOwners DEF Hear
<1>8. ASSUME NEW t \in Tabs, RemoteAges(t) PROVE Owners'
  BY <1>8, KeptOwners DEF RemoteAges
<1>9. ASSUME NEW t \in Tabs, Reload(t) PROVE Owners'
  <2>1. /\ flight'[t].at = "none" /\ \A u \in Tabs : u # t => flight'[u] = flight[u]
        /\ holder = t => holder' = NoTab
        /\ holder # t => holder' = holder
    BY <1>1, <1>9, Landed DEF Reload
  <2>2. \A f \in Exchanges : exchange'[f] =
          IF exchange[f].tab = t THEN Orphan(exchange[f]) ELSE exchange[f]
    BY <1>9 DEF Reload
  <2>3. \A f \in Exchanges :
          /\ exchange[f].tab = t =>
               exchange'[f].tab = NoTab /\ (exchange'[f].at = "free" => exchange'[f] = NoExchange)
          /\ exchange[f].tab # t => exchange'[f] = exchange[f]
    <3> SUFFICES ASSUME NEW f \in Exchanges, exchange[f].tab = t
                 PROVE  /\ Orphan(exchange[f]).tab = NoTab
                        /\ Orphan(exchange[f]).at = "free" => Orphan(exchange[f]) = NoExchange
      BY <2>2
    <3>1. exchange[f].at # "free"
      BY RequestFields, NoTabAssumption DEF Owners
    <3> QED
      BY <1>2, <3>1, Orphans
  <2> USE DEF Owners
  <2>4. (\A f \in Exchanges :
           /\ exchange[f].at = "free" => exchange[f] = NoExchange
           /\ exchange[f].tab # NoTab => flight[exchange[f].tab].at = "asking")'
    BY <1>2, <2>1, <2>3
  <2>5. (\A f, g \in Exchanges :
           exchange[f].tab = exchange[g].tab /\ exchange[f].tab # NoTab => f = g)'
    BY <2>3
  <2>6. (\A u \in Tabs : flight[u].at = "asking" => \E f \in Exchanges : exchange[f].tab = u)'
    BY <2>1, <2>3
  <2>7. (\A c \in waiting : flight[Home[c]].at # "none")'
    BY <1>1, <1>9, <2>1, HomeAssumption DEF Reload, Settle, TabTypes
  <2>8. holder \in Tabs \cup {NoTab}
    BY <1>1 DEF TabTypes
  <2>9. (holder # NoTab => flight[holder].at \in {"asking", "leaving"})'
    BY <2>1, <2>8
  <2>10. (HasLocks => \A u \in Tabs : flight[u].at \in {"asking", "leaving"} => holder = u)'
    BY <2>1, <2>8, NoTabAssumption
  <2> QED
    BY <2>4, <2>5, <2>6, <2>7, <2>9, <2>10
<1>10. ASSUME NEW e \in Exchanges, Read(e) PROVE Owners'
  <2>1. UNCHANGED <<flight, holder, waiting>> /\ exchange[e].at = "sent"
    BY <1>10 DEF Read, tabs
  <2>2. CASE exchange' = [exchange EXCEPT ![e].at = "matched"]
    <3>1. exchange' = [exchange EXCEPT ![e] = [exchange[e] EXCEPT !.at = "matched"]]
      BY <2>2
    <3> QED
      BY <1>2, <2>1, <3>1, SameOwner, RequestChanges, RequestFields
  <2>3. CASE exchange[e].tab = NoTab /\ exchange' = [exchange EXCEPT ![e] = NoExchange]
    BY <2>1, <2>3, SameOwner, RequestRecords, RequestFields
  <2>4. CASE exchange' = [exchange EXCEPT ![e] = [exchange[e] EXCEPT !.at = "denied"]]
    BY <1>2, <2>1, <2>4, SameOwner, RequestChanges, RequestFields
  <2> QED
    BY <1>10, <2>2, <2>3, <2>4 DEF Read
<1>11. ASSUME NEW e \in Exchanges, Rotate(e) PROVE Owners'
  <2>1. UNCHANGED <<flight, holder, waiting>>
    BY <1>11 DEF Rotate, tabs
  <2>2. CASE exchange[e].tab = NoTab /\ exchange' = [exchange EXCEPT ![e] = NoExchange]
    BY <2>1, <2>2, SameOwner, RequestRecords, RequestFields
  <2>3. CASE exchange' =
          [exchange EXCEPT ![e] = Request("granted", exchange[e].tab, exchange[e].sid, minted + 1)]
    <3> DEFINE r == Request("granted", exchange[e].tab, exchange[e].sid, minted + 1)
    <3>1. minted + 1 \in 0 .. MaxToken
      <4>1. minted < MaxToken /\ minted \in 0 .. MaxToken
        BY <1>11 DEF Rotate, Mint, TypeOK, ServerTypes
      <4> QED
        BY <4>1, BoundAssumption
    <3>2. r \in Requests /\ r.tab = exchange[e].tab /\ r.at = "granted"
      <4>1. exchange[e].sid \in 0 .. Sessions
        BY RequestSteps
      <4> QED
        BY <1>2, <3>1, <4>1, RequestMade
    <3>3. exchange' = [exchange EXCEPT ![e] = r]
      BY <2>3
    <3> HIDE DEF r
    <3> QED
      BY <2>1, <3>2, <3>3, SameOwner
  <2> QED
    BY <1>11, <2>2, <2>3 DEF Rotate
<1>12. ASSUME NEW e \in Exchanges, Granted(e) PROVE Owners'
  BY <1>12, AnswerOwners, RequestRecords, RequestFields DEF Granted
<1>13. ASSUME NEW e \in Exchanges, Denied(e) PROVE Owners'
  <2> DEFINE t == exchange[e].tab
  <2>1. t \in Tabs /\ t # NoTab /\ flight[t].at = "asking"
    BY <1>2, <1>13 DEF Denied, Owners
  <2>2. Flight("leaving", 0, exchange[e].sid).at = "leaving"
    BY RequestSteps, FlightRecords, BoundAssumption
  <2>3. /\ flight'[t].at = "leaving" /\ \A u \in Tabs : u # t => flight'[u] = flight[u]
        /\ UNCHANGED <<holder, waiting>>
    BY <1>1, <1>13, <2>1, <2>2 DEF Denied, TabTypes
  <2>4. /\ exchange'[e] = NoExchange
        /\ \A f \in Exchanges : f # e => exchange'[f] = exchange[f] /\ exchange[f].tab # t
    BY <1>1, <1>13, <2>1 DEF Denied, RequestTypes, Owners
  <2>5. \A u \in Tabs : flight[u].at = "asking" /\ u # t => \E f \in Exchanges : f # e /\ exchange[f].tab = u
    BY DEF Owners
  <2> HIDE DEF t
  <2> USE DEF Owners
  <2>6. (\A f \in Exchanges :
           /\ exchange[f].at = "free" => exchange[f] = NoExchange
           /\ exchange[f].tab # NoTab => flight[exchange[f].tab].at = "asking")'
    BY <1>2, <2>3, <2>4, RequestFields
  <2>7. (\A f, g \in Exchanges :
           exchange[f].tab = exchange[g].tab /\ exchange[f].tab # NoTab => f = g)'
    BY <2>4, RequestFields
  <2>8. (\A u \in Tabs : flight[u].at = "asking" => \E f \in Exchanges : exchange[f].tab = u)'
    BY <2>3, <2>4, <2>5
  <2>9. (\A c \in waiting : flight[Home[c]].at # "none")'
    BY <1>1, <2>1, <2>3, HomeAssumption DEF TabTypes
  <2>10. holder \in Tabs \cup {NoTab}
    BY <1>1 DEF TabTypes
  <2>11. (holder # NoTab => flight[holder].at \in {"asking", "leaving"})'
    BY <2>3, <2>10
  <2>12. (HasLocks => \A u \in Tabs : flight[u].at \in {"asking", "leaving"} => holder = u)'
    BY <2>1, <2>3
  <2> QED
    BY <2>6, <2>7, <2>8, <2>9, <2>11, <2>12
<1>14. ASSUME NEW e \in Exchanges, ServerFails(e) PROVE Owners'
  BY <1>14, AnswerOwners, RequestRecords, RequestFields DEF ServerFails
<1>15. ASSUME NEW e \in Exchanges, Unavailable(e) PROVE Owners'
  BY <1>2, <1>15, AnswerOwners, Orphans DEF Unavailable
<1>16. ASSUME NEW e \in Exchanges, Dropped(e) PROVE Owners'
  BY <1>16, SameOwner, RequestRecords, RequestFields DEF Dropped, tabs
<1>17. CASE Logout \/ Revoke \/ Leave \/ RevokeFails \/ CookieAges \/ Login
  BY <1>17, KeptOwners DEF Logout, Revoke, Leave, RevokeFails, CookieAges, Login, tabs
<1>18. CASE UNCHANGED vars
  BY <1>18, KeptOwners DEF vars, tabs
<1>19. ASSUME NEW e \in Exchanges, RefuseUser(e) PROVE Owners'
  <2>1. UNCHANGED <<flight, holder, waiting>>
    BY <1>19 DEF RefuseUser, tabs
  <2>2. CASE exchange[e].tab = NoTab /\ exchange' = [exchange EXCEPT ![e] = NoExchange]
    BY <2>1, <2>2, SameOwner, RequestRecords, RequestFields
  <2>3. CASE exchange' = [exchange EXCEPT ![e] = [exchange[e] EXCEPT !.at = "denied"]]
    BY <1>2, <2>1, <2>3, SameOwner, RequestChanges, RequestFields
  <2> QED
    BY <1>19, <2>2, <2>3 DEF RefuseUser
<1>20. ASSUME NEW s \in SessionIds, SessionEnds(s) PROVE Owners'
  BY <1>20, KeptOwners DEF SessionEnds, tabs
<1> QED
  BY <1>3, <1>4, <1>5, <1>6, <1>7, <1>8, <1>9, <1>10, <1>11, <1>12, <1>13, <1>14,
     <1>15, <1>16, <1>17, <1>18, <1>19, <1>20 DEF Next

(***************************************************************************)
(* What each step does to the request it is about, to the records and to the *)
(* cookies, value by value.                                                  *)
(***************************************************************************)
LEMMA Natural ==
  ASSUME TypeOK
  PROVE  /\ minted \in Nat /\ logins \in Nat /\ logins \in SessionIds /\ logins # 0
         /\ \A s \in SessionIds : store[s] \in Nat /\ s \in Nat
         /\ jar.sid \in Nat /\ jar.token \in Nat /\ jar.sid \in 0 .. Sessions
         /\ \A e \in Exchanges : exchange[e].sid \in Nat /\ exchange[e].token \in Nat
         /\ \A t \in Tabs : flight[t].sid \in Nat
<1>1. minted \in Nat /\ logins \in SessionIds /\ \A s \in SessionIds : store[s] \in Nat
  BY BoundAssumption DEF TypeOK, ServerTypes
<1>2. \A s \in SessionIds : s \in Nat /\ s # 0
  BY BoundAssumption DEF SessionIds
<1>3. jar.sid \in Nat /\ jar.token \in Nat /\ jar.sid \in 0 .. Sessions
  BY BoundAssumption DEF TypeOK, BrowserTypes
<1>4. \A e \in Exchanges : exchange[e].sid \in Nat /\ exchange[e].token \in Nat
  BY RequestSteps, BoundAssumption
<1>5. \A t \in Tabs : flight[t].sid \in Nat
  BY FlightRecords, BoundAssumption DEF TypeOK, TabTypes
<1> QED
  BY <1>1, <1>2, <1>3, <1>4, <1>5

LEMMA GoneEffect ==
  ASSUME TypeOK, NEW e \in Exchanges, exchange' = [exchange EXCEPT ![e] = NoExchange]
  PROVE  /\ exchange'[e].at = "free" /\ exchange'[e].tab = NoTab
         /\ exchange'[e].sid = 0 /\ exchange'[e].token = 0
         /\ \A f \in Exchanges : f # e => exchange'[f] = exchange[f]
BY RequestFields DEF TypeOK, RequestTypes

\* A request is matched, or refused at the price of its session.
LEMMA ReadEffect ==
  ASSUME TypeOK, NEW e \in Exchanges, Read(e)
  PROVE  /\ exchange[e].at = "sent"
         /\ \A f \in Exchanges : f # e => exchange'[f] = exchange[f]
         /\ \/ /\ exchange'[e].at = "matched" /\ exchange'[e].tab = exchange[e].tab
               /\ exchange'[e].sid = exchange[e].sid /\ exchange'[e].token = exchange[e].token
               /\ store' = store
            \/ /\ ~(exchange[e].sid # 0 /\ exchange[e].token # 0
                      /\ store[exchange[e].sid] = exchange[e].token)
               /\ \/ exchange'[e] = NoExchange
                  \/ /\ exchange'[e].at = "denied" /\ exchange'[e].tab = exchange[e].tab
                     /\ exchange'[e].sid = exchange[e].sid
                     /\ exchange'[e].token = exchange[e].token
               /\ \A s \in SessionIds :
                    store'[s] = IF s = exchange[e].sid /\ exchange[e].token # 0 THEN 0 ELSE store[s]
<1> DEFINE x == exchange[e]
<1>1. x \in Requests
  BY RequestSteps
<1>2. exchange \in [Exchanges -> Requests] /\ store \in [SessionIds -> 0 .. MaxToken]
      /\ 0 \notin SessionIds
  BY Natural DEF TypeOK, RequestTypes, ServerTypes, SessionIds
<1>3. x.at = "sent"
  BY DEF Read
<1>4. CASE x.sid # 0 /\ x.token # 0 /\ store[x.sid] = x.token
  <2>1. exchange' = [exchange EXCEPT ![e] = [x EXCEPT !.at = "matched"]] /\ store' = store
    BY <1>4 DEF Read
  <2> HIDE DEF x
  <2>2. exchange'[e] = [x EXCEPT !.at = "matched"]
        /\ \A f \in Exchanges : f # e => exchange'[f] = exchange[f]
    BY <1>2, <2>1
  <2>3. /\ exchange'[e].at = "matched" /\ exchange'[e].tab = x.tab
        /\ exchange'[e].sid = x.sid /\ exchange'[e].token = x.token
    BY <1>1, <2>2, RequestFields
  <2> QED
    BY <1>3, <2>1, <2>2, <2>3 DEF x
<1>5. CASE ~(x.sid # 0 /\ x.token # 0 /\ store[x.sid] = x.token)
  <2>1. /\ exchange' = [exchange EXCEPT ![e] =
             IF x.tab = NoTab THEN NoExchange ELSE [x EXCEPT !.at = "denied"]]
        /\ store' = IF x.sid = 0 \/ x.token = 0 THEN store ELSE [store EXCEPT ![x.sid] = 0]
    BY <1>5 DEF Read
  <2> HIDE DEF x
  <2>2. /\ exchange'[e] \in {NoExchange, [x EXCEPT !.at = "denied"]}
        /\ \A f \in Exchanges : f # e => exchange'[f] = exchange[f]
    BY <1>2, <2>1
  <2>3. \A s \in SessionIds : store'[s] = IF s = x.sid /\ x.token # 0 THEN 0 ELSE store[s]
    BY <1>2, <2>1
  <2>4. \/ exchange'[e] = NoExchange
        \/ /\ exchange'[e].at = "denied" /\ exchange'[e].tab = x.tab
           /\ exchange'[e].sid = x.sid /\ exchange'[e].token = x.token
    BY <1>1, <2>2, RequestFields
  <2> QED
    BY <1>3, <1>5, <2>2, <2>3, <2>4 DEF x
<1> QED
  BY <1>4, <1>5

LEMMA MintEffect ==
  ASSUME TypeOK, NEW s \in 0 .. Sessions, Mint(s)
  PROVE  /\ minted' = minted + 1
         /\ \A r \in SessionIds : store'[r] = IF r = s THEN minted + 1 ELSE store[r]
BY DEF TypeOK, ServerTypes, Mint

LEMMA RotateEffect ==
  ASSUME TypeOK, NEW e \in Exchanges, Rotate(e)
  PROVE  /\ exchange[e].at = "matched"
         /\ \A f \in Exchanges : f # e => exchange'[f] = exchange[f]
         /\ minted' = minted + 1
         /\ \A s \in SessionIds :
              store'[s] = IF s = exchange[e].sid THEN minted + 1 ELSE store[s]
         /\ \/ exchange[e].tab = NoTab /\ exchange'[e] = NoExchange
            \/ /\ exchange'[e].at = "granted" /\ exchange'[e].tab = exchange[e].tab
               /\ exchange'[e].sid = exchange[e].sid /\ exchange'[e].token = minted + 1
<1> DEFINE x == exchange[e]
<1>1. x.sid \in 0 .. Sessions /\ x.tab \in Tabs \cup {NoTab}
  BY RequestSteps
<1>2. Mint(x.sid) /\ x.at = "matched"
  BY DEF Rotate
<1>3. minted + 1 \in 0 .. MaxToken
  BY <1>2, Natural, BoundAssumption DEF Mint
<1>4. /\ minted' = minted + 1
      /\ \A s \in SessionIds : store'[s] = IF s = x.sid THEN minted + 1 ELSE store[s]
  BY <1>1, <1>2, MintEffect
<1>5. exchange \in [Exchanges -> Requests]
  BY DEF TypeOK, RequestTypes
<1>6. exchange' = [exchange EXCEPT ![e] =
        IF x.tab = NoTab THEN NoExchange ELSE Request("granted", x.tab, x.sid, minted + 1)]
  BY DEF Rotate
<1> HIDE DEF x
<1>7. /\ exchange'[e] = IF x.tab = NoTab THEN NoExchange
                        ELSE Request("granted", x.tab, x.sid, minted + 1)
      /\ \A f \in Exchanges : f # e => exchange'[f] = exchange[f]
  BY <1>5, <1>6
<1>8. \/ x.tab = NoTab /\ exchange'[e] = NoExchange
      \/ /\ exchange'[e].at = "granted" /\ exchange'[e].tab = x.tab
         /\ exchange'[e].sid = x.sid /\ exchange'[e].token = minted + 1
  BY <1>1, <1>3, <1>7, RequestMade
<1> QED
  BY <1>2, <1>4, <1>7, <1>8 DEF x

LEMMA RefuseUserEffect ==
  ASSUME TypeOK, NEW e \in Exchanges, RefuseUser(e)
  PROVE  /\ \A f \in Exchanges : f # e => exchange'[f] = exchange[f]
         /\ minted' = minted + 1
         /\ \A s \in SessionIds :
              store'[s] = IF s = exchange[e].sid THEN minted + 1 ELSE store[s]
         /\ \/ exchange'[e] = NoExchange
            \/ /\ exchange'[e].at = "denied" /\ exchange'[e].sid = exchange[e].sid
               /\ exchange'[e].token = exchange[e].token
<1> DEFINE x == exchange[e]
<1>1. x.sid \in 0 .. Sessions /\ x \in Requests /\ exchange \in [Exchanges -> Requests]
  BY RequestSteps DEF TypeOK, RequestTypes
<1>2. Mint(x.sid)
  BY DEF RefuseUser
<1>3. exchange' = [exchange EXCEPT ![e] =
        IF x.tab = NoTab THEN NoExchange ELSE [x EXCEPT !.at = "denied"]]
  BY DEF RefuseUser
<1> HIDE DEF x
<1>4. /\ exchange'[e] \in {NoExchange, [x EXCEPT !.at = "denied"]}
      /\ \A f \in Exchanges : f # e => exchange'[f] = exchange[f]
  BY <1>1, <1>3
<1>5. \/ exchange'[e] = NoExchange
      \/ /\ exchange'[e].at = "denied" /\ exchange'[e].sid = x.sid
         /\ exchange'[e].token = x.token
  BY <1>1, <1>4, RequestFields
<1> QED
  BY <1>1, <1>2, <1>4, <1>5, MintEffect DEF x

\* A session that ends loses its record; the others keep theirs.
LEMMA EndEffect ==
  ASSUME TypeOK, NEW s \in SessionIds, SessionEnds(s)
  PROVE  \A r \in SessionIds : store'[r] = IF r = s THEN 0 ELSE store[r]
BY DEF TypeOK, ServerTypes, SessionEnds

LEMMA AskEffect ==
  ASSUME TypeOK, NEW t \in Tabs, Ask(t)
  PROVE  \E e \in Exchanges :
           /\ exchange[e].at = "free"
           /\ exchange'[e].at = "sent" /\ exchange'[e].tab = t
           /\ exchange'[e].sid = jar.sid /\ exchange'[e].token = jar.token
           /\ \A f \in Exchanges : f # e => exchange'[f] = exchange[f]
<1>1. PICK e \in Exchanges : /\ exchange[e].at = "free"
                             /\ exchange' = [exchange EXCEPT ![e] =
                                  Request("sent", t, jar.sid, jar.token)]
  BY DEF Ask
<1>2. jar.sid \in 0 .. Sessions /\ jar.token \in 0 .. MaxToken
  BY RequestSteps
<1> DEFINE r == Request("sent", t, jar.sid, jar.token)
<1>3. r.at = "sent" /\ r.tab = t /\ r.sid = jar.sid /\ r.token = jar.token
  BY <1>2, RequestMade
<1>4. exchange' = [exchange EXCEPT ![e] = r] /\ exchange \in [Exchanges -> Requests]
  BY <1>1 DEF TypeOK, RequestTypes
<1> HIDE DEF r
<1>5. exchange'[e] = r /\ \A f \in Exchanges : f # e => exchange'[f] = exchange[f]
  BY <1>4
<1> QED
  BY <1>1, <1>3, <1>5

\* With Web Locks one tab refreshes at a time, with one request.
LEMMA OneAtATime ==
  ASSUME TypeOK, Owners, HasLocks
  PROVE  /\ \A e, f \in Exchanges : exchange[e].tab # NoTab /\ exchange[f].tab # NoTab => e = f
         /\ \A e \in Exchanges, t \in Tabs :
              exchange[e].tab # NoTab => flight[t].at # "leaving"
         /\ holder = NoTab => \A e \in Exchanges : exchange[e].tab = NoTab
<1>1. \A e \in Exchanges : exchange[e].tab # NoTab =>
        /\ exchange[e].tab \in Tabs /\ holder = exchange[e].tab
        /\ flight[exchange[e].tab].at = "asking"
  BY RequestSteps DEF Owners
<1>2. \A t \in Tabs : flight[t].at = "leaving" => holder = t
  BY DEF Owners
<1> QED
  BY <1>1, <1>2 DEF Owners

(***************************************************************************)
(* What is numbered, and in which session the browser is.                    *)
(***************************************************************************)
LEMMA InitNumbers ==
  ASSUME Init
  PROVE  Numbers
<1>1. \A e \in Exchanges : exchange[e].sid = 0 /\ exchange[e].token = 0
  BY RequestFields DEF Init
<1>2. \A t \in Tabs : flight[t].sid = 0
  BY FlightRecords DEF Init
<1>3. \A s \in SessionIds : store[s] <= 1
  BY DEF Init
<1>4. jar.sid = 1 /\ jar.token = 1 /\ logins = 1 /\ minted = 1
  BY DEF Init
<1> QED
  BY <1>1, <1>2, <1>3, <1>4 DEF Numbers

\* A step that leaves the server, the cookies and what is known of them alone.
LEMMA KeptNumbers ==
  ASSUME TypeOK, Numbers, UNCHANGED <<server, jar>>,
         signedIn' => signedIn, lost => lost',
         \A e \in Exchanges :
           \/ exchange'[e].sid = exchange[e].sid /\ exchange'[e].token = exchange[e].token
           \/ exchange'[e].sid = 0 /\ exchange'[e].token = 0,
         \A t \in Tabs : flight'[t].sid = flight[t].sid \/ flight'[t].sid = 0
  PROVE  Numbers'
<1>1. UNCHANGED <<store, minted, logins>>
  BY DEF server
<1>2. (\A e \in Exchanges :
         /\ exchange[e].sid <= logins /\ exchange[e].token <= minted
         /\ exchange[e].sid # 0 => exchange[e].token # 0)'
  BY <1>1, Natural DEF Numbers
<1>3. (\A t \in Tabs : flight[t].sid <= logins)'
  BY <1>1, Natural DEF Numbers
<1> QED
  BY <1>1, <1>2, <1>3 DEF Numbers

LEMMA StepNumbers ==
  ASSUME TypeOK, Owners, Numbers, [Next]_vars
  PROVE  Numbers'
<1>1. TabTypes /\ RequestTypes
  BY DEF TypeOK
<1>2. \A e \in Exchanges : exchange[e] \in Requests /\ exchange[e].tab \in Tabs \cup {NoTab}
  BY RequestSteps
<1>3. ASSUME NEW c \in Callers, NEW k \in Tokens, Refused(c, k) PROVE Numbers'
  <2> DEFINE t == Home[c]
  <2>1. t \in Tabs /\ k \in 0 .. MaxToken
    BY HomeAssumption, BoundAssumption DEF Tokens
  <2>2. Flight("queued", k, 0).sid = 0
    BY <2>1, FlightRecords, BoundAssumption
  <2>3. flight' = flight \/ flight' = [flight EXCEPT ![t] = Flight("queued", k, 0)]
    BY <1>3 DEF Refused
  <2> HIDE DEF t
  <2>4. \A u \in Tabs : flight'[u].sid = flight[u].sid \/ flight'[u].sid = 0
    BY <1>1, <2>1, <2>2, <2>3 DEF TabTypes
  <2> QED
    BY <1>3, <2>4, KeptNumbers DEF Refused, browser
<1>4. ASSUME NEW t \in Tabs, ReuseRemote(t) PROVE Numbers'
  <2>1. \A u \in Tabs : flight'[u].sid = flight[u].sid \/ flight'[u].sid = 0
    BY <1>1, <1>4, Landed DEF ReuseRemote
  <2> QED
    BY <1>4, <2>1, KeptNumbers DEF ReuseRemote, browser
<1>5. ASSUME NEW t \in Tabs, Ask(t) PROVE Numbers'
  <2>1. \A e \in Exchanges :
          \/ exchange'[e] = exchange[e]
          \/ exchange'[e].sid = jar.sid /\ exchange'[e].token = jar.token
    BY <1>5, AskEffect
  <2>2. Flight("asking", 0, 0).sid = 0
    BY FlightRecords, BoundAssumption
  <2>3. \A u \in Tabs : flight'[u].sid = flight[u].sid \/ flight'[u].sid = 0
    BY <1>1, <1>5, <2>2 DEF Ask, TabTypes
  <2>4. UNCHANGED <<store, minted, logins, jar, signedIn, lost>>
    BY <1>5 DEF Ask, server, browser
  <2>5. (\A t_1 \in Tabs : flight[t_1].sid <= logins)'
    BY <2>3, <2>4, Natural DEF Numbers
  <2> QED
    BY <2>1, <2>4, <2>5 DEF Numbers
<1>6. ASSUME NEW t \in Tabs, SignOut(t) PROVE Numbers'
  <2>1. \A u \in Tabs : flight'[u].sid = flight[u].sid \/ flight'[u].sid = 0
    BY <1>1, <1>6, Landed DEF SignOut
  <2> QED
    BY <1>6, <2>1, KeptNumbers DEF SignOut
<1>7. ASSUME NEW t \in Tabs, Hear(t) PROVE Numbers'
  BY <1>7, KeptNumbers DEF Hear, browser
<1>8. ASSUME NEW t \in Tabs, RemoteAges(t) PROVE Numbers'
  BY <1>8, KeptNumbers DEF RemoteAges, browser
<1>9. ASSUME NEW t \in Tabs, Reload(t) PROVE Numbers'
  <2>1. \A u \in Tabs : flight'[u].sid = flight[u].sid \/ flight'[u].sid = 0
    BY <1>1, <1>9, Landed DEF Reload
  <2>2. \A e \in Exchanges : exchange'[e] = Orphan(exchange[e]) \/ exchange'[e] = exchange[e]
    BY <1>9 DEF Reload
  <2>3. \A e \in Exchanges :
          \/ exchange'[e].sid = exchange[e].sid /\ exchange'[e].token = exchange[e].token
          \/ exchange'[e].sid = 0 /\ exchange'[e].token = 0
    BY <1>2, <2>2, OrphanFields
  <2> QED
    BY <1>9, <2>1, <2>3, KeptNumbers DEF Reload, browser
<1>10. ASSUME NEW e \in Exchanges, Read(e) PROVE Numbers'
  <2>1. UNCHANGED <<minted, logins, jar, signedIn, lost, flight>>
    BY <1>10 DEF Read, browser, tabs
  <2>2. \A s \in SessionIds : store'[s] = store[s] \/ store'[s] = 0
    BY <1>10, ReadEffect
  <2>3. \A f \in Exchanges :
          \/ exchange'[f].sid = exchange[f].sid /\ exchange'[f].token = exchange[f].token
          \/ exchange'[f].sid = 0 /\ exchange'[f].token = 0
    BY <1>10, ReadEffect, RequestFields
  <2>4. (\A s \in SessionIds : store[s] <= minted)'
    BY <2>1, <2>2, Natural DEF Numbers
  <2>5. (\A f \in Exchanges :
           /\ exchange[f].sid <= logins /\ exchange[f].token <= minted
           /\ exchange[f].sid # 0 => exchange[f].token # 0)'
    BY <2>1, <2>3, Natural DEF Numbers
  <2> QED
    BY <2>1, <2>4, <2>5 DEF Numbers
<1>11. ASSUME NEW e \in Exchanges, Rotate(e) PROVE Numbers'
  <2>1. UNCHANGED <<logins, jar, signedIn, lost, flight>>
    BY <1>11 DEF Rotate, browser, tabs
  <2>2. minted' = minted + 1
        /\ \A s \in SessionIds : store'[s] = store[s] \/ store'[s] = minted + 1
    BY <1>11, RotateEffect
  <2>3. \A f \in Exchanges :
          \/ exchange'[f].sid = exchange[f].sid /\ exchange'[f].token = exchange[f].token
          \/ exchange'[f].sid = exchange[f].sid /\ exchange'[f].token = minted + 1
          \/ exchange'[f].sid = 0 /\ exchange'[f].token = 0
    BY <1>11, RotateEffect, RequestFields
  <2>4. (\A s \in SessionIds : store[s] <= minted)'
    BY <2>2, Natural DEF Numbers
  <2>5. (\A f \in Exchanges :
           /\ exchange[f].sid <= logins /\ exchange[f].token <= minted
           /\ exchange[f].sid # 0 => exchange[f].token # 0)'
    BY <2>1, <2>2, <2>3, Natural DEF Numbers
  <2>6. jar.token <= minted'
    BY <2>2, Natural DEF Numbers
  <2> QED
    BY <2>1, <2>4, <2>5, <2>6 DEF Numbers
<1>12. ASSUME NEW e \in Exchanges, Granted(e) PROVE Numbers'
  <2>1. exchange[e].tab \in Tabs /\ Land(exchange[e].tab)
        /\ UNCHANGED <<store, minted, logins, signedIn>> /\ (lost => lost')
    BY <1>2, <1>12 DEF Granted, server
  <2>2. \A u \in Tabs : flight'[u].sid = flight[u].sid \/ flight'[u].sid = 0
    BY <1>1, <2>1, Landed
  <2>3. exchange[e].at = "granted" /\ exchange[e].token # 0
    BY <1>12 DEF Granted, TypeOK, RequestTypes
  <2>4. jar'.sid = jar.sid /\ jar'.token = exchange[e].token
    BY <1>12 DEF Granted
  <2>5. \A f \in Exchanges :
          \/ exchange'[f].sid = exchange[f].sid /\ exchange'[f].token = exchange[f].token
          \/ exchange'[f].sid = 0 /\ exchange'[f].token = 0
    BY <1>12, GoneEffect DEF Granted
  <2>6. (\A f \in Exchanges :
           /\ exchange[f].sid <= logins /\ exchange[f].token <= minted
           /\ exchange[f].sid # 0 => exchange[f].token # 0)'
    BY <2>1, <2>5, Natural DEF Numbers
  <2>7. (\A u \in Tabs : flight[u].sid <= logins)'
    BY <2>1, <2>2, Natural DEF Numbers
  <2> QED
    BY <2>1, <2>3, <2>4, <2>6, <2>7 DEF Numbers
<1>13. ASSUME NEW e \in Exchanges, Denied(e) PROVE Numbers'
  <2>1. UNCHANGED <<store, minted, logins, jar, signedIn, lost>> /\ exchange[e].tab \in Tabs
    BY <1>2, <1>13 DEF Denied, server, browser
  <2>2. Flight("leaving", 0, exchange[e].sid).sid = exchange[e].sid
    BY RequestSteps, FlightRecords, BoundAssumption
  <2>3. \A u \in Tabs : flight'[u].sid \in {flight[u].sid, exchange[e].sid}
    BY <1>1, <1>13, <2>1, <2>2 DEF Denied, TabTypes
  <2>4. \A f \in Exchanges :
          \/ exchange'[f].sid = exchange[f].sid /\ exchange'[f].token = exchange[f].token
          \/ exchange'[f].sid = 0 /\ exchange'[f].token = 0
    BY <1>13, GoneEffect DEF Denied
  <2>5. (\A f \in Exchanges :
           /\ exchange[f].sid <= logins /\ exchange[f].token <= minted
           /\ exchange[f].sid # 0 => exchange[f].token # 0)'
    BY <2>1, <2>4, Natural DEF Numbers
  <2>6. (\A u \in Tabs : flight[u].sid <= logins)'
    BY <2>1, <2>3 DEF Numbers
  <2> QED
    BY <2>1, <2>5, <2>6 DEF Numbers
<1>14. ASSUME NEW e \in Exchanges, ServerFails(e) PROVE Numbers'
  <2>1. \A u \in Tabs : flight'[u].sid = flight[u].sid \/ flight'[u].sid = 0
    BY <1>1, <1>2, <1>14, Landed DEF ServerFails
  <2> QED
    BY <1>14, <2>1, GoneEffect, KeptNumbers DEF ServerFails, browser
<1>15. ASSUME NEW e \in Exchanges, Unavailable(e) PROVE Numbers'
  <2>1. \A u \in Tabs : flight'[u].sid = flight[u].sid \/ flight'[u].sid = 0
    BY <1>1, <1>2, <1>15, Landed DEF Unavailable
  <2>2. \A f \in Exchanges : exchange'[f] = Orphan(exchange[f]) \/ exchange'[f] = exchange[f]
    BY <1>1, <1>15 DEF Unavailable, RequestTypes
  <2>3. \A f \in Exchanges :
          \/ exchange'[f].sid = exchange[f].sid /\ exchange'[f].token = exchange[f].token
          \/ exchange'[f].sid = 0 /\ exchange'[f].token = 0
    BY <1>2, <2>2, OrphanFields
  <2> QED
    BY <1>15, <2>1, <2>3, KeptNumbers DEF Unavailable, browser
<1>16. ASSUME NEW e \in Exchanges, Dropped(e) PROVE Numbers'
  BY <1>16, GoneEffect, KeptNumbers DEF Dropped, browser, tabs
<1>17. CASE Logout \/ RevokeFails
  BY <1>17, KeptNumbers DEF Logout, RevokeFails, browser, tabs
<1>18. CASE Revoke
  <2>1. UNCHANGED <<minted, logins, jar, signedIn, lost, exchange, flight>>
    BY <1>18 DEF Revoke, browser, tabs
  <2>2. \A s \in SessionIds : store'[s] = store[s] \/ store'[s] = 0
    BY <1>18 DEF Revoke
  <2>3. (\A s \in SessionIds : store[s] <= minted)'
    BY <2>1, <2>2, Natural DEF Numbers
  <2> QED
    BY <2>1, <2>3 DEF Numbers
<1>19. CASE Leave
  BY <1>19, Natural DEF Leave, Numbers, server, tabs
<1>20. CASE Login
  <2>1. Mint(logins + 1) /\ logins' = logins + 1 /\ logins + 1 \in 0 .. Sessions
    BY <1>20, Natural, BoundAssumption DEF Login
  <2>2. /\ minted' = minted + 1
        /\ \A s \in SessionIds : store'[s] = minted + 1 \/ store'[s] = store[s]
    BY <2>1, MintEffect
  <2>3. jar'.sid = logins + 1 /\ jar'.token = minted + 1 /\ UNCHANGED <<exchange, flight>>
    BY <1>20 DEF Login
  <2>4. (\A s \in SessionIds : store[s] <= minted)'
    BY <2>2, Natural DEF Numbers
  <2>5. (\A f \in Exchanges :
           /\ exchange[f].sid <= logins /\ exchange[f].token <= minted
           /\ exchange[f].sid # 0 => exchange[f].token # 0)'
    BY <2>1, <2>2, <2>3, Natural DEF Numbers
  <2>6. (\A t \in Tabs : flight[t].sid <= logins)'
    BY <2>1, <2>3, Natural DEF Numbers
  <2> QED
    BY <2>1, <2>2, <2>3, <2>4, <2>5, <2>6, Natural DEF Numbers
<1>21. CASE UNCHANGED vars
  BY <1>21, KeptNumbers DEF vars, browser, tabs
<1>22. ASSUME NEW e \in Exchanges, RefuseUser(e) PROVE Numbers'
  <2>1. UNCHANGED <<logins, jar, signedIn, flight>> /\ (lost => lost')
    BY <1>22 DEF RefuseUser, browser, tabs
  <2>2. minted' = minted + 1
        /\ \A s \in SessionIds : store'[s] = store[s] \/ store'[s] = minted + 1
    BY <1>22, RefuseUserEffect
  <2>3. \A f \in Exchanges :
          \/ exchange'[f].sid = exchange[f].sid /\ exchange'[f].token = exchange[f].token
          \/ exchange'[f].sid = 0 /\ exchange'[f].token = 0
    BY <1>22, RefuseUserEffect, RequestFields
  <2>4. (\A s \in SessionIds : store[s] <= minted)'
    BY <2>2, Natural DEF Numbers
  <2>5. (\A f \in Exchanges :
           /\ exchange[f].sid <= logins /\ exchange[f].token <= minted
           /\ exchange[f].sid # 0 => exchange[f].token # 0)'
    BY <2>1, <2>2, <2>3, Natural DEF Numbers
  <2>6. jar.token <= minted'
    BY <2>2, Natural DEF Numbers
  <2> QED
    BY <2>1, <2>4, <2>5, <2>6 DEF Numbers
<1>23. ASSUME NEW s \in SessionIds, SessionEnds(s) PROVE Numbers'
  <2>1. UNCHANGED <<minted, logins, jar, signedIn, exchange, flight>> /\ (lost => lost')
    BY <1>23 DEF SessionEnds, browser, tabs
  <2>2. \A r \in SessionIds : store'[r] = store[r] \/ store'[r] = 0
    BY <1>23, EndEffect
  <2>3. (\A r \in SessionIds : store[r] <= minted)'
    BY <2>1, <2>2, Natural DEF Numbers
  <2> QED
    BY <2>1, <2>3 DEF Numbers
<1>24. CASE CookieAges
  <2>1. UNCHANGED <<store, minted, logins, signedIn, exchange, flight>> /\ lost' = TRUE
    BY <1>24 DEF CookieAges, server, tabs
  <2>2. jar'.sid = 0 /\ jar'.token = jar.token
    BY <1>24 DEF CookieAges, TypeOK, BrowserTypes
  <2> QED
    BY <2>1, <2>2, Natural DEF Numbers
<1> QED
  BY <1>3, <1>4, <1>5, <1>6, <1>7, <1>8, <1>9, <1>10, <1>11, <1>12, <1>13, <1>14,
     <1>15, <1>16, <1>17, <1>18, <1>19, <1>20, <1>21, <1>22, <1>23, <1>24 DEF Next

(***************************************************************************)
(* The cookies, the requests and the backend agree while nothing was lost.   *)
(***************************************************************************)
LEMMA InitAgreement ==
  ASSUME Init
  PROVE  Agreement /\ Refusals
<1>1. \A e \in Exchanges : exchange[e].at = "free"
  BY RequestFields DEF Init
<1>2. \A t \in Tabs : flight[t].at = "none"
  BY FlightRecords DEF Init
<1>3. store[1] = 1 /\ logins = 1 /\ jar.token = 1
  BY BoundAssumption DEF Init, SessionIds
<1> QED
  BY <1>1, <1>2, <1>3 DEF Agreement, Refusals

\* Nothing that agreement is about changes, except that requests of other
\* sessions may come and go and those of this one may not.
LEMMA KeptAgreement ==
  ASSUME Agreement, Settled' => Settled, Settled' => logins' = logins /\ jar' = jar,
         Settled' => store'[logins] = store[logins],
         Settled' => \A e \in Exchanges :
           \/ exchange'[e] = exchange[e]
           \/ /\ exchange[e].sid # logins \/ exchange[e].at = "free"
              /\ exchange'[e].sid # logins \/ exchange'[e].at = "free"
  PROVE  Agreement'
BY DEF Agreement, Agrees

LEMMA StepAgreement ==
  ASSUME TypeOK, Owners, Numbers, Agreement, [Next]_vars
  PROVE  Agreement'
<1>1. \A e \in Exchanges : exchange[e].tab \in Tabs \cup {NoTab}
  BY RequestSteps
<1>2. ASSUME NEW c \in Callers, NEW k \in Tokens, Refused(c, k) PROVE Agreement'
  BY <1>2, KeptAgreement DEF Refused, Settled, server, browser
<1>3. ASSUME NEW t \in Tabs, ReuseRemote(t) PROVE Agreement'
  BY <1>3, KeptAgreement DEF ReuseRemote, Settled, server, browser
<1>4. ASSUME NEW t \in Tabs, Ask(t) PROVE Agreement'
  <2>1. UNCHANGED <<store, logins, jar, signedIn, leaving, lost>>
    BY <1>4 DEF Ask, server, browser
  <2>2. Settled' <=> Settled
    BY <2>1 DEF Settled
  <2> SUFFICES ASSUME Settled PROVE Agreement'
    BY <2>2 DEF Agreement
  <2>3. holder = NoTab /\ jar.sid = logins
    BY <1>4 DEF Ask, MayRefresh, Settled, Numbers
  <2>4. \A f \in Exchanges : exchange[f].at = "free" \/ exchange[f].sid # logins
    BY <2>3, OneAtATime DEF Agreement, Agrees, Settled
  <2>5. store[logins] # 0 /\ jar.token # 0 /\ store[logins] = jar.token
    BY <2>4 DEF Agreement
  <2>6. PICK e \in Exchanges :
          /\ exchange'[e].at = "sent" /\ exchange'[e].tab = t
          /\ exchange'[e].sid = jar.sid /\ exchange'[e].token = jar.token
          /\ \A f \in Exchanges : f # e => exchange'[f] = exchange[f]
    BY <1>4, AskEffect
  <2> QED
    BY <2>1, <2>4, <2>5, <2>6, NoTabAssumption DEF Agreement, Agrees
<1>5. ASSUME NEW t \in Tabs, SignOut(t) PROVE Agreement'
  BY <1>5 DEF SignOut, Agreement, Settled
<1>6. ASSUME NEW t \in Tabs, Hear(t) PROVE Agreement'
  BY <1>6, KeptAgreement DEF Hear, Settled, server, browser
<1>7. ASSUME NEW t \in Tabs, RemoteAges(t) PROVE Agreement'
  BY <1>7, KeptAgreement DEF RemoteAges, Settled, server, browser
<1>8. ASSUME NEW t \in Tabs, Reload(t) PROVE Agreement'
  <2>1. Settled' => /\ Settled /\ UNCHANGED <<store, logins, jar>>
                    /\ \A e \in Exchanges : exchange[e].tab # t
    BY <1>8 DEF Reload, Settled, server, browser
  <2>2. Settled' => \A e \in Exchanges : exchange'[e] = exchange[e]
    BY <1>8, <2>1 DEF Reload
  <2> QED
    BY <2>1, <2>2, KeptAgreement
<1>9. ASSUME NEW e \in Exchanges, Read(e) PROVE Agreement'
  <2>1. UNCHANGED <<logins, jar, signedIn, leaving, lost>>
    BY <1>9 DEF Read, browser
  <2>2. Settled' <=> Settled
    BY <2>1 DEF Settled
  <2> SUFFICES ASSUME Settled PROVE Agreement'
    BY <2>2 DEF Agreement
  <2>3. CASE exchange[e].sid = logins
    <3>1. Agrees(e) /\ exchange[e].token # 0 /\ store[logins] = exchange[e].token
      BY <1>9, <2>3, ReadEffect DEF Agreement, Agrees
    <3>2. /\ exchange'[e].at = "matched" /\ exchange'[e].tab = exchange[e].tab
          /\ exchange'[e].sid = exchange[e].sid /\ exchange'[e].token = exchange[e].token
          /\ store' = store /\ exchange[e].at = "sent"
          /\ \A f \in Exchanges : f # e => exchange'[f] = exchange[f]
      BY <1>9, <2>3, <3>1, ReadEffect, Natural
    <3> QED
      BY <2>1, <3>1, <3>2 DEF Agreement, Agrees
  <2>4. CASE exchange[e].sid # logins
    <3>1. exchange'[e].sid # logins /\ \A f \in Exchanges : f # e => exchange'[f] = exchange[f]
      BY <1>9, <2>4, ReadEffect, RequestFields, Natural
    <3>2. store'[logins] = store[logins]
      BY <1>9, <2>4, ReadEffect, Natural
    <3> QED
      BY <2>1, <2>2, <2>4, <3>1, <3>2, KeptAgreement
  <2> QED
    BY <2>3, <2>4
<1>10. ASSUME NEW e \in Exchanges, Rotate(e) PROVE Agreement'
  <2>1. UNCHANGED <<logins, jar, signedIn, leaving, lost>>
    BY <1>10 DEF Rotate, browser
  <2>2. Settled' <=> Settled
    BY <2>1 DEF Settled
  <2> SUFFICES ASSUME Settled PROVE Agreement'
    BY <2>2 DEF Agreement
  <2>3. CASE exchange[e].sid = logins
    <3>1. Agrees(e)
      BY <1>10, <2>3, RotateEffect DEF Agreement
    <3>2. \A f \in Exchanges : f # e => exchange[f].at = "free" \/ exchange[f].sid # logins
      BY <3>1, OneAtATime DEF Agreement, Agrees, Settled
    <3>3. /\ exchange'[e].at = "granted" /\ exchange'[e].tab # NoTab
          /\ exchange'[e].sid = logins /\ exchange'[e].token = minted + 1
          /\ store'[logins] = minted + 1
          /\ \A f \in Exchanges : f # e => exchange'[f] = exchange[f]
      BY <1>10, <2>3, <3>1, RotateEffect, Natural DEF Agrees
    <3>4. minted + 1 # 0
      BY Natural
    <3> QED
      BY <2>1, <3>2, <3>3, <3>4 DEF Agreement, Agrees
  <2>4. CASE exchange[e].sid # logins
    <3>1. exchange'[e].sid # logins /\ \A f \in Exchanges : f # e => exchange'[f] = exchange[f]
      BY <1>10, <2>4, RotateEffect, RequestFields, Natural
    <3>2. store'[logins] = store[logins]
      BY <1>10, <2>4, RotateEffect, Natural
    <3> QED
      BY <2>1, <2>2, <2>4, <3>1, <3>2, KeptAgreement
  <2> QED
    BY <2>3, <2>4
<1>11. ASSUME NEW e \in Exchanges, Granted(e) PROVE Agreement'
  <2>1. /\ UNCHANGED <<store, logins, signedIn, leaving>> /\ exchange[e].at = "granted"
        /\ lost' = (lost \/ jar.sid # exchange[e].sid)
        /\ jar' = [sid |-> jar.sid, token |-> exchange[e].token]
    BY <1>11 DEF Granted, server
  <2> SUFFICES ASSUME Settled' PROVE Agreement'
    BY DEF Agreement
  <2>2. Settled /\ exchange[e].sid = logins
    BY <2>1 DEF Settled, Numbers
  <2>3. Agrees(e)
    BY <2>1, <2>2 DEF Agreement
  <2>4. \A f \in Exchanges : f # e => exchange[f].at = "free" \/ exchange[f].sid # logins
    BY <2>2, <2>3, OneAtATime DEF Agreement, Agrees, Settled
  <2>5. /\ exchange'[e].at = "free"
        /\ \A f \in Exchanges : f # e => exchange'[f] = exchange[f]
    BY <1>11, GoneEffect DEF Granted
  <2>6. jar'.token = store[logins] /\ store[logins] # 0
    BY <2>1, <2>2, <2>3 DEF Agreement, Agrees
  <2> QED
    BY <2>1, <2>4, <2>5, <2>6 DEF Agreement
<1>12. ASSUME NEW e \in Exchanges, Denied(e) PROVE Agreement'
  <2>1. UNCHANGED <<store, logins, jar, signedIn, leaving, lost>> /\ exchange[e].at = "denied"
    BY <1>12 DEF Denied, server, browser
  <2>2. Settled => exchange[e].sid # logins
    BY <2>1 DEF Agreement, Agrees
  <2>3. /\ exchange'[e].at = "free"
        /\ \A f \in Exchanges : f # e => exchange'[f] = exchange[f]
    BY <1>12, GoneEffect DEF Denied
  <2> QED
    BY <2>1, <2>2, <2>3, KeptAgreement DEF Settled
<1>13. ASSUME NEW e \in Exchanges, ServerFails(e) PROVE Agreement'
  <2>1. /\ UNCHANGED <<store, logins, jar, signedIn, leaving, lost>>
        /\ exchange[e].at \in {"sent", "matched"}
    BY <1>13 DEF ServerFails, server, browser
  <2>2. /\ exchange'[e].at = "free"
        /\ \A f \in Exchanges : f # e => exchange'[f] = exchange[f]
    BY <1>13, GoneEffect DEF ServerFails
  <2>3. CASE Settled /\ exchange[e].sid = logins
    <3>1. Agrees(e)
      BY <2>1, <2>3 DEF Agreement
    <3>2. \A f \in Exchanges : f # e => exchange[f].at = "free" \/ exchange[f].sid # logins
      BY <2>3, <3>1, OneAtATime DEF Agreement, Agrees, Settled
    <3> QED
      BY <2>1, <2>2, <2>3, <3>1, <3>2 DEF Agreement, Agrees, Settled
  <2>4. CASE ~(Settled /\ exchange[e].sid = logins)
    BY <2>1, <2>2, <2>4, KeptAgreement DEF Settled
  <2> QED
    BY <2>3, <2>4
<1>14. ASSUME NEW e \in Exchanges, Unavailable(e) PROVE Agreement'
  BY <1>14 DEF Unavailable, Agreement, Settled
<1>15. ASSUME NEW e \in Exchanges, Dropped(e) PROVE Agreement'
  <2>1. /\ UNCHANGED <<store, logins, jar, signedIn, leaving, lost>>
        /\ exchange[e].at # "free" /\ exchange[e].tab = NoTab
    BY <1>15 DEF Dropped, server, browser
  <2>2. Settled => exchange[e].sid # logins
    BY <2>1 DEF Agreement, Agrees
  <2>3. /\ exchange'[e].at = "free"
        /\ \A f \in Exchanges : f # e => exchange'[f] = exchange[f]
    BY <1>15, GoneEffect DEF Dropped
  <2> QED
    BY <2>1, <2>2, <2>3, KeptAgreement DEF Settled
<1>16. CASE Logout
  <2>1. leaving' = [at |-> "asked", sid |-> jar.sid]
    BY <1>16 DEF Logout
  <2>2. leaving'.at # "no"
    BY <2>1
  <2> QED
    BY <2>2 DEF Agreement, Settled
<1>17. CASE Revoke
  <2>1. leaving.at = "asked" /\ leaving' = [leaving EXCEPT !.at = "revoked"]
    BY <1>17 DEF Revoke
  <2>2. leaving'.at # "no"
    BY <2>1 DEF TypeOK, BrowserTypes
  <2> QED
    BY <2>2 DEF Agreement, Settled
<1>18. CASE Leave
  BY <1>18 DEF Leave, Agreement, Settled
<1>19. CASE RevokeFails
  BY <1>19 DEF RevokeFails, Agreement, Settled
<1>20. CASE Login
  <2>1. Mint(logins + 1) /\ logins' = logins + 1 /\ logins + 1 \in 0 .. Sessions
        /\ logins + 1 \in SessionIds
    BY <1>20, Natural, BoundAssumption DEF Login, SessionIds
  <2>2. store'[logins + 1] = minted + 1 /\ minted + 1 # 0
    BY <2>1, MintEffect, Natural
  <2>3. jar'.token = minted + 1 /\ UNCHANGED exchange
    BY <1>20 DEF Login
  <2>4. \A e \in Exchanges : exchange[e].sid # logins + 1
    BY Natural DEF Numbers
  <2> QED
    BY <2>1, <2>2, <2>3, <2>4 DEF Agreement
<1>21. CASE UNCHANGED vars
  BY <1>21, KeptAgreement DEF vars, Settled, server, browser
<1>22. ASSUME NEW e \in Exchanges, RefuseUser(e) PROVE Agreement'
  <2>1. /\ UNCHANGED <<logins, jar, signedIn, leaving>>
        /\ lost' = (lost \/ exchange[e].sid = logins)
    BY <1>22 DEF RefuseUser, browser
  <2>2. Settled' => Settled /\ exchange[e].sid # logins
    BY <2>1 DEF Settled
  <2>3. \A f \in Exchanges : f # e => exchange'[f] = exchange[f]
    BY <1>22, RefuseUserEffect
  <2>4. Settled' => exchange'[e].sid # logins
    BY <1>22, <2>2, RefuseUserEffect, RequestFields, Natural
  <2>5. Settled' => store'[logins] = store[logins]
    BY <1>22, <2>2, RefuseUserEffect, Natural
  <2> QED
    BY <2>1, <2>2, <2>3, <2>4, <2>5, KeptAgreement
<1>23. ASSUME NEW s \in SessionIds, SessionEnds(s) PROVE Agreement'
  <2>1. /\ UNCHANGED <<logins, jar, signedIn, exchange, leaving>>
        /\ lost' = (lost \/ s = logins)
    BY <1>23 DEF SessionEnds, browser
  <2>2. Settled' => Settled /\ s # logins
    BY <2>1 DEF Settled
  <2>3. Settled' => store'[logins] = store[logins]
    BY <1>23, <2>2, EndEffect, Natural
  <2> QED
    BY <2>1, <2>2, <2>3, KeptAgreement
<1>24. CASE CookieAges
  BY <1>24 DEF CookieAges, Agreement, Settled
<1> QED
  BY <1>2, <1>3, <1>4, <1>5, <1>6, <1>7, <1>8, <1>9, <1>10, <1>11, <1>12, <1>13, <1>14,
     <1>15, <1>16, <1>17, <1>18, <1>19, <1>20, <1>21, <1>22, <1>23, <1>24 DEF Next

(***************************************************************************)
(* What was refused is refused still.                                        *)
(***************************************************************************)
\* No refusal is added, and what the cookies are compared with does not move.
LEMMA KeptRefusals ==
  ASSUME Refusals, signedIn' => signedIn /\ logins' = logins /\ jar'.token = jar.token,
         signedIn' => (store'[logins] = store[logins] \/ store'[logins] # jar.token),
         \A e \in Exchanges : exchange'[e].at = "denied" => exchange'[e] = exchange[e],
         \A t \in Tabs : flight'[t].at = "leaving" => flight'[t] = flight[t]
  PROVE  Refusals'
BY DEF Refusals

LEMMA StepRefusals ==
  ASSUME TypeOK, Owners, Numbers, Refusals, [Next]_vars
  PROVE  Refusals'
<1>1. TabTypes /\ RequestTypes
  BY DEF TypeOK
<1>2. \A e \in Exchanges : exchange[e] \in Requests /\ exchange[e].tab \in Tabs \cup {NoTab}
  BY RequestSteps
<1>3. signedIn => jar.token # 0
  BY DEF Numbers
<1>4. ASSUME NEW c \in Callers, NEW k \in Tokens, Refused(c, k) PROVE Refusals'
  <2> DEFINE t == Home[c]
  <2>1. t \in Tabs /\ k \in 0 .. MaxToken
    BY HomeAssumption, BoundAssumption DEF Tokens
  <2>2. Flight("queued", k, 0).at = "queued"
    BY <2>1, FlightRecords, BoundAssumption
  <2>3. flight' = flight \/ flight' = [flight EXCEPT ![t] = Flight("queued", k, 0)]
    BY <1>4 DEF Refused
  <2> HIDE DEF t
  <2>4. \A u \in Tabs : flight'[u].at = "leaving" => flight'[u] = flight[u]
    BY <1>1, <2>1, <2>2, <2>3 DEF TabTypes
  <2> QED
    BY <1>4, <2>4, KeptRefusals DEF Refused, server, browser
<1>5. ASSUME NEW t \in Tabs, ReuseRemote(t) PROVE Refusals'
  <2>1. \A u \in Tabs : flight'[u].at = "leaving" => flight'[u] = flight[u]
    BY <1>1, <1>5, Landed DEF ReuseRemote
  <2> QED
    BY <1>5, <2>1, KeptRefusals DEF ReuseRemote, server, browser
<1>6. ASSUME NEW t \in Tabs, Ask(t) PROVE Refusals'
  <2>1. \A e \in Exchanges : exchange'[e].at = "denied" => exchange'[e] = exchange[e]
    BY <1>6, AskEffect
  <2>2. Flight("asking", 0, 0).at = "asking"
    BY FlightRecords, BoundAssumption
  <2>3. \A u \in Tabs : flight'[u].at = "leaving" => flight'[u] = flight[u]
    BY <1>1, <1>6, <2>2 DEF Ask, TabTypes
  <2> QED
    BY <1>6, <2>1, <2>3, KeptRefusals DEF Ask, server, browser
<1>7. ASSUME NEW t \in Tabs, SignOut(t) PROVE Refusals'
  BY <1>7 DEF SignOut, Refusals
<1>8. ASSUME NEW t \in Tabs, Hear(t) PROVE Refusals'
  BY <1>8, KeptRefusals DEF Hear, server, browser
<1>9. ASSUME NEW t \in Tabs, RemoteAges(t) PROVE Refusals'
  BY <1>9, KeptRefusals DEF RemoteAges, server, browser
<1>10. ASSUME NEW t \in Tabs, Reload(t) PROVE Refusals'
  <2>1. \A u \in Tabs : flight'[u].at = "leaving" => flight'[u] = flight[u]
    BY <1>1, <1>10, Landed DEF Reload
  <2>2. \A e \in Exchanges : exchange'[e] = Orphan(exchange[e]) \/ exchange'[e] = exchange[e]
    BY <1>10 DEF Reload
  <2>3. \A e \in Exchanges : exchange'[e].at = "denied" => exchange'[e] = exchange[e]
    BY <1>2, <2>2, Orphans
  <2> QED
    BY <1>10, <2>1, <2>3, KeptRefusals DEF Reload, server, browser
<1>11. ASSUME NEW e \in Exchanges, Read(e) PROVE Refusals'
  <2>1. UNCHANGED <<logins, jar, signedIn, flight>>
    BY <1>11 DEF Read, browser, tabs
  <2>2. store'[logins] = store[logins] \/ store'[logins] = 0
    BY <1>11, ReadEffect, Natural
  <2>3. \A f \in Exchanges : exchange'[f].at = "denied" =>
          \/ exchange'[f] = exchange[f]
          \/ exchange'[f].sid = logins /\ signedIn => store'[logins] # jar.token
    <3> SUFFICES ASSUME exchange'[e].at = "denied", exchange'[e].sid = logins, signedIn
                 PROVE  store'[logins] # jar.token
      <4>1. \A f \in Exchanges : f # e => exchange'[f] = exchange[f]
        BY <1>11, ReadEffect
      <4> QED
        BY <4>1
    <3>1. exchange[e].sid = logins /\ exchange[e].token # 0
      BY <1>11, ReadEffect, RequestFields, Natural DEF Numbers
    <3>2. store'[logins] = 0
      BY <1>11, <3>1, ReadEffect, RequestFields, Natural
    <3> QED
      BY <1>3, <3>2
  <2> QED
    BY <1>3, <2>1, <2>2, <2>3 DEF Refusals
<1>12. ASSUME NEW e \in Exchanges, Rotate(e) PROVE Refusals'
  <2>1. UNCHANGED <<logins, jar, signedIn, flight>>
    BY <1>12 DEF Rotate, browser, tabs
  <2>2. store'[logins] = store[logins] \/ store'[logins] = minted + 1
    BY <1>12, RotateEffect, Natural
  <2>3. minted + 1 # jar.token
    BY Natural DEF Numbers
  <2>4. \A f \in Exchanges : exchange'[f].at = "denied" => exchange'[f] = exchange[f]
    BY <1>12, RotateEffect, RequestFields
  <2> QED
    BY <2>1, <2>2, <2>3, <2>4, KeptRefusals
<1>13. ASSUME NEW e \in Exchanges, Granted(e) PROVE Refusals'
  <2>1. exchange[e].at = "granted" /\ exchange[e].tab # NoTab /\ Land(exchange[e].tab)
    BY <1>13 DEF Granted
  <2>2. HasLocks => /\ \A f \in Exchanges : f # e => exchange[f].tab = NoTab
                    /\ \A t \in Tabs : flight[t].at # "leaving"
    BY <2>1, OneAtATime
  <2>3. /\ exchange'[e].at = "free"
        /\ \A f \in Exchanges : f # e => exchange'[f] = exchange[f]
    BY <1>13, GoneEffect DEF Granted
  <2>4. HasLocks => \A f \in Exchanges : exchange'[f].at # "denied"
    BY <1>1, <2>2, <2>3 DEF RequestTypes
  <2>5. HasLocks => \A t \in Tabs : flight'[t].at # "leaving"
    BY <1>1, <1>2, <2>1, <2>2, Landed
  <2> QED
    BY <2>4, <2>5 DEF Refusals
<1>14. ASSUME NEW e \in Exchanges, Denied(e) PROVE Refusals'
  <2>1. /\ UNCHANGED <<store, logins, jar, signedIn>>
        /\ exchange[e].at = "denied" /\ exchange[e].tab \in Tabs
    BY <1>2, <1>14 DEF Denied, server, browser
  <2>2. Flight("leaving", 0, exchange[e].sid).sid = exchange[e].sid
    BY RequestSteps, FlightRecords, BoundAssumption
  <2>3. \A t \in Tabs : flight'[t] = flight[t] \/ flight'[t].sid = exchange[e].sid
    BY <1>1, <1>14, <2>1, <2>2 DEF Denied, TabTypes
  <2>4. \A f \in Exchanges : exchange'[f].at = "denied" => exchange'[f] = exchange[f]
    BY <1>14, GoneEffect DEF Denied
  <2> QED
    BY <2>1, <2>3, <2>4 DEF Refusals
<1>15. ASSUME NEW e \in Exchanges, ServerFails(e) PROVE Refusals'
  <2>1. \A u \in Tabs : flight'[u].at = "leaving" => flight'[u] = flight[u]
    BY <1>1, <1>2, <1>15, Landed DEF ServerFails
  <2>2. \A f \in Exchanges : exchange'[f].at = "denied" => exchange'[f] = exchange[f]
    BY <1>15, GoneEffect DEF ServerFails
  <2> QED
    BY <1>15, <2>1, <2>2, KeptRefusals DEF ServerFails, server, browser
<1>16. ASSUME NEW e \in Exchanges, Unavailable(e) PROVE Refusals'
  <2>1. \A u \in Tabs : flight'[u].at = "leaving" => flight'[u] = flight[u]
    BY <1>1, <1>2, <1>16, Landed DEF Unavailable
  <2>2. \A f \in Exchanges : exchange'[f] = exchange[f]
                             \/ exchange'[f] = Orphan(exchange[f])
    BY <1>1, <1>16 DEF Unavailable, RequestTypes
  <2>3. \A f \in Exchanges : exchange'[f].at = "denied" => exchange'[f] = exchange[f]
    BY <1>2, <2>2, Orphans
  <2> QED
    BY <1>16, <2>1, <2>3, KeptRefusals DEF Unavailable, server, browser
<1>17. ASSUME NEW e \in Exchanges, Dropped(e) PROVE Refusals'
  <2>1. \A f \in Exchanges : exchange'[f].at = "denied" => exchange'[f] = exchange[f]
    BY <1>17, GoneEffect DEF Dropped
  <2> QED
    BY <1>17, <2>1, KeptRefusals DEF Dropped, server, browser, tabs
<1>18. CASE Logout \/ RevokeFails
  BY <1>18, KeptRefusals DEF Logout, RevokeFails, server, browser, tabs
<1>19. CASE Revoke
  <2>1. UNCHANGED <<logins, jar, signedIn, exchange, flight>>
    BY <1>19 DEF Revoke, browser, tabs
  <2>2. store'[logins] = store[logins] \/ store'[logins] = 0
    BY <1>19, Natural DEF Revoke
  <2> QED
    BY <1>3, <2>1, <2>2, KeptRefusals
<1>20. CASE Leave
  BY <1>20 DEF Leave, Refusals
<1>21. CASE Login
  <2>1. logins' = logins + 1 /\ UNCHANGED <<exchange, flight>>
    BY <1>21 DEF Login
  <2>2. \A e \in Exchanges : exchange[e].sid # logins + 1
    BY Natural DEF Numbers
  <2>3. \A t \in Tabs : flight[t].sid # logins + 1
    BY Natural DEF Numbers
  <2> QED
    BY <2>1, <2>2, <2>3 DEF Refusals
<1>22. CASE UNCHANGED vars
  BY <1>22, KeptRefusals DEF vars, server, browser, tabs
<1>23. ASSUME NEW e \in Exchanges, RefuseUser(e) PROVE Refusals'
  <2>1. UNCHANGED <<logins, jar, signedIn, flight>>
    BY <1>23 DEF RefuseUser, browser, tabs
  <2>2. store'[logins] = IF logins = exchange[e].sid THEN minted + 1 ELSE store[logins]
    BY <1>23, RefuseUserEffect, Natural
  <2>3. minted + 1 # jar.token
    BY Natural DEF Numbers
  <2>4. \A f \in Exchanges : exchange'[f].at = "denied" =>
          \/ exchange'[f] = exchange[f]
          \/ exchange'[f].sid = exchange[e].sid
    BY <1>23, RefuseUserEffect, RequestFields
  <2> QED
    BY <2>1, <2>2, <2>3, <2>4 DEF Refusals
<1>24. ASSUME NEW s \in SessionIds, SessionEnds(s) PROVE Refusals'
  <2>1. UNCHANGED <<logins, jar, signedIn, exchange, flight>>
    BY <1>24 DEF SessionEnds, browser, tabs
  <2>2. store'[logins] = store[logins] \/ store'[logins] = 0
    BY <1>24, EndEffect, Natural
  <2> QED
    BY <1>3, <2>1, <2>2, KeptRefusals
<1>25. CASE CookieAges
  <2>1. UNCHANGED <<store, logins, signedIn, exchange, flight>>
    BY <1>25 DEF CookieAges, server, tabs
  <2>2. jar'.token = jar.token
    BY <1>25 DEF CookieAges, TypeOK, BrowserTypes
  <2> QED
    BY <2>1, <2>2, KeptRefusals
<1> QED
  BY <1>4, <1>5, <1>6, <1>7, <1>8, <1>9, <1>10, <1>11, <1>12, <1>13, <1>14,
     <1>15, <1>16, <1>17, <1>18, <1>19, <1>20, <1>21, <1>22, <1>23, <1>24, <1>25 DEF Next

-----------------------------------------------------------------------------
(***************************************************************************)
(* The invariant, and what it is for.                                        *)
(***************************************************************************)
THEOREM Invariant == Spec => []IInv
<1>1. Init => IInv
  BY InitTypes, InitOwners, InitNumbers, InitAgreement DEF IInv
<1>2. IInv /\ [Next]_vars => IInv'
  BY StepTypes, StepOwners, StepNumbers, StepAgreement, StepRefusals DEF IInv
<1> QED
  BY <1>1, <1>2, PTL DEF Spec

\* Every reachable state is well formed (TypeOK), for any number of tabs.
THEOREM TypeCorrect == Spec => []TypeOK
<1>1. IInv => TypeOK
  BY DEF IInv
<1> QED
  BY <1>1, Invariant, PTL

\* No call, refresh or lock is ever left waiting for what cannot come
\* (auth-client.ts: the single flight, the Web Lock and the finally that frees it).
THEOREM WaitersAreServed == Spec => []NobodyWaitsInVain
<1>1. IInv => NobodyWaitsInVain
  BY DEF IInv, Owners, NobodyWaitsInVain
<1> QED
  BY <1>1, Invariant, PTL

\* With Web Locks, a session can be refreshed, through any interleaving of tabs,
\* until an answer, the session itself or its cookie is lost (auth-client.ts,
\* rotate_refresh_token; the losses are those that `lost` records).
THEOREM SessionStaysRefreshable ==
  ASSUME HasLocks
  PROVE  Spec => []RefreshableUnlessLost
<1>1. IInv => RefreshableUnlessLost
  <2> SUFFICES ASSUME IInv, signedIn, leaving.at = "no", ~lost
               PROVE  \/ jar.sid # 0 /\ jar.token # 0 /\ store[jar.sid] = jar.token
                      \/ \E e \in Exchanges :
                           /\ exchange[e].at = "granted"
                           /\ exchange[e].sid = jar.sid /\ store[jar.sid] = exchange[e].token
    BY DEF RefreshableUnlessLost
  <2>1. jar.sid = logins /\ logins # 0
    BY Natural DEF IInv, Numbers
  <2>2. Settled
    BY DEF Settled
  <2> QED
    BY <2>1, <2>2 DEF IInv, Agreement, Agrees
<1> QED
  BY <1>1, Invariant, PTL

\* With Web Locks, a refused refresh signs the browser out of no session that its
\* cookies could still refresh (doRefresh and performLogout).
THEOREM OnlyTheDeadAreSignedOut ==
  ASSUME HasLocks
  PROVE  Spec => SignsOutOnlyTheDead
<1>1. IInv /\ [Next]_vars =>
        [\A t \in Tabs :
           flight[t].at = "leaving" /\ signedIn /\ ~signedIn' /\ flight'[t].at = "none" =>
             jar.sid # flight[t].sid \/ jar.sid = 0 \/ store[jar.sid] # jar.token]_vars
  BY DEF IInv, Numbers, Refusals
<1> QED
  BY <1>1, Invariant, PTL DEF Spec, SignsOutOnlyTheDead
=============================================================================
