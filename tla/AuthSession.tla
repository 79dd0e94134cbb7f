----------------------------- MODULE AuthSession -----------------------------
(***************************************************************************)
(* Signing in and out: the requests under /auth and the logout mutation,   *)
(* await by await, Redis, and one browser with several tabs that share its *)
(* cookies.  One user.                                                     *)
(*                                                                         *)
(* A login's number stands for all that is made from it: the OAuth state,  *)
(* the one-time code and the refresh token.  0 is none.                    *)
(***************************************************************************)
EXTENDS Naturals, Sequences

CONSTANTS
    Tabs, Requests, NoRequest,
    AccessLife,     \* access_token_expire_seconds
    Leeway,         \* what decode_access_token allows a token over its time
    MaxLogins,      \* bound: visits to /auth/login
    MaxTokens,      \* bound: access tokens issued
    MaxTime,        \* bound: the clock
    MaxFaults       \* bound: requests cut, pages loaded again under way

ASSUME SessionAssumption ==
    /\ NoRequest \notin Requests
    /\ AccessLife \in Nat \ {0} /\ Leeway \in Nat
    /\ MaxLogins \in Nat /\ MaxTokens \in Nat /\ MaxTime \in Nat /\ MaxFaults \in Nat

VARIABLES
    now,
    states, codes, records, \* Redis: oauth_state:, auth_code:, refresh_token:
    revoked,                \* jti_blacklist: of each token, when its entry expires
    github,                 \* github_token:<id>: not yet there, stored or removed
    logins,                 \* logins begun
    tokens,                 \* access tokens issued: their expiry, and whether their
                            \* login was ended by then
    stateCookie, refreshCookie,
    tab,                    \* of each tab: its page, login, token and request
    request,                \* of each request: where its handler is
    coded, admitted,        \* how often each login was given a code, and a session
    ended,                  \* logins whose refresh token a logout has deleted
    faults

store == <<states, codes, records, revoked, github>>
cookies == <<stateCookie, refreshCookie>>
history == <<coded, admitted, ended>>
vars == <<now, store, logins, tokens, cookies, tab, request, history, faults>>

Logins == 1 .. MaxLogins
TokenIds == 1 .. MaxTokens

Pages == {"login", "github", "code", "load", "in"}
Replies == {"none", "refused", "denied", "code", "signed_in", "refreshed", "logged_out"}
Steps == {"idle", "state", "github", "store", "code", "exchange", "record", "refresh",
          "authorize", "revoke", "forget", "answer"}

NewTab == [page |-> "login", login |-> 0, token |-> 0, waits |-> NoRequest]
Idle == [pc |-> "idle", login |-> 0, token |-> 0, rest |-> TRUE, reply |-> "none"]

Init ==
    /\ now = 0
    /\ states = {} /\ codes = {} /\ records = {}
    /\ revoked = [k \in TokenIds |-> 0]
    /\ github = "none"
    /\ logins = 0
    /\ tokens = <<>>
    /\ stateCookie = 0 /\ refreshCookie = 0
    /\ tab = [t \in Tabs |-> NewTab]
    /\ request = [q \in Requests |-> Idle]
    /\ coded = [l \in Logins |-> 0]
    /\ admitted = [l \in Logins |-> 0]
    /\ ended = {}
    /\ faults = 0

Fault ==
    /\ faults < MaxFaults
    /\ faults' = faults + 1

-----------------------------------------------------------------------------
(* The browser.                                                            *)

(* GET /auth/login: the state goes to Redis, the cookie and GitHub.        *)
Login(t) ==
    /\ tab[t].page = "login"
    /\ logins < MaxLogins
    /\ logins' = logins + 1
    /\ states' = states \cup {logins'}
    /\ stateCookie' = logins'
    /\ tab' = [tab EXCEPT ![t].page = "github", ![t].login = logins']
    /\ UNCHANGED <<now, codes, records, revoked, github, tokens, refreshCookie, request,
                   history, faults>>

(* A page is loaded, and what a tab had in memory is gone.                 *)
Load(t) ==
    /\ tab[t].page # "load"
    /\ tab[t].waits = NoRequest
    /\ tab' = [tab EXCEPT ![t] = [NewTab EXCEPT !.page = "load"]]
    /\ UNCHANGED <<now, store, logins, tokens, cookies, request, history, faults>>

(* The page is loaded again while a request is under way: its answer will  *)
(* find nobody.  A page that came with a code sends it once more.          *)
Reload(t) ==
    /\ Fault
    /\ tab[t].waits # NoRequest
    /\ tab' = [tab EXCEPT ![t] =
                 IF tab[t].page = "code" THEN [@ EXCEPT !.waits = NoRequest]
                 ELSE [NewTab EXCEPT !.page = "load"]]
    /\ UNCHANGED <<now, store, logins, tokens, cookies, request, history>>

Sends(t, page, r) ==
    /\ tab[t].page = page
    /\ tab[t].waits = NoRequest
    /\ \E q \in Requests :
         /\ request[q] = Idle
         /\ request' = [request EXCEPT ![q] = r]
         /\ tab' = [tab EXCEPT ![t].waits = q]
    /\ UNCHANGED <<now, store, logins, tokens, cookies, history, faults>>

Refused == [Idle EXCEPT !.pc = "answer", !.reply = "refused"]
At(step, login) == [Idle EXCEPT !.pc = step, !.login = login]

(* GitHub sends the tab to /auth/callback with its state, which must be    *)
(* the one in the cookie by now.                                           *)
ReturnFromGitHub(t) ==
    LET r == At("state", tab[t].login)
    IN  Sends(t, "github", IF stateCookie = tab[t].login THEN r ELSE Refused)

(* AuthCallbackPage.                                                       *)
SendCode(t) == Sends(t, "code", At("exchange", tab[t].login))

(* restoreSession.                                                         *)
Restore(t) ==
    LET r == At("refresh", refreshCookie)
    IN  Sends(t, "load", IF refreshCookie = 0 THEN Refused ELSE r)

(* handleLogout of SettingsPage, or the mutation: the path of the refresh  *)
(* cookie keeps it from /graphql.                                          *)
Logout(t) ==
    \E rest \in BOOLEAN :
        Sends(t, "in", [Idle EXCEPT !.pc = "authorize", !.token = tab[t].token, !.rest = rest,
                                    !.login = IF rest THEN refreshCookie ELSE 0])

-----------------------------------------------------------------------------
(* The handlers.                                                           *)

Goes(q, from, new) == request[q].pc = from /\ request' = [request EXCEPT ![q] = new]
LoginOf(q) == request[q].login
Onward(q, to) == [request[q] EXCEPT !.pc = to]
Made(q, reply) == [At("answer", LoginOf(q)) EXCEPT !.reply = reply]
Reply(q, reply) == [Idle EXCEPT !.pc = "answer", !.reply = reply, !.rest = request[q].rest]

(* Keys with a time to live may be gone when they are read.                *)
Finds(l, keys) == IF l \in keys THEN {TRUE, FALSE} ELSE {FALSE}

(* callback: GETDEL of the state; the user may have said no, or GitHub     *)
(* left out the code.                                                      *)
ConsumeState(q) ==
    /\ \E found \in Finds(LoginOf(q), states), reply \in {Onward(q, "github"), Reply(q, "denied"), Refused} :
         Goes(q, "state", IF found THEN reply ELSE Refused)
    /\ states' = states \ {LoginOf(q)}
    /\ UNCHANGED <<now, codes, records, revoked, github, logins, tokens, cookies, tab,
                   history, faults>>

(* Mutated: the code is given out without the GitHub token being stored.   *)
AskGitHubOnly(q) ==
    /\ \E new \in {Onward(q, "code"), Refused} : Goes(q, "github", new)
    /\ UNCHANGED <<now, store, logins, tokens, cookies, tab, history, faults>>

AskGitHub(q) ==
    /\ \E new \in {Onward(q, "store"), Refused} : Goes(q, "github", new)
    /\ UNCHANGED <<now, store, logins, tokens, cookies, tab, history, faults>>

(* The server has a key to encrypt the token with; without one the code    *)
(* skips this step, and every login leads to no GitHub token.              *)
StoreGitHubToken(q) ==
    /\ Goes(q, "store", Onward(q, "code"))
    /\ github' = "stored"
    /\ UNCHANGED <<now, states, codes, records, revoked, logins, tokens, cookies, tab,
                   history, faults>>

StoreCode(q) ==
    /\ Goes(q, "code", Made(q, "code"))
    /\ codes' = codes \cup {LoginOf(q)}
    /\ coded' = [coded EXCEPT ![LoginOf(q)] = @ + 1]
    /\ UNCHANGED <<now, states, records, revoked, github, logins, tokens, cookies, tab,
                   admitted, ended, faults>>

(* Mutated: GET, and the code is left to expire.                           *)
TakeCodeGently(q) ==
    /\ \E found \in Finds(LoginOf(q), codes) :
         Goes(q, "exchange", IF found THEN Onward(q, "record") ELSE Refused)
    /\ UNCHANGED <<now, store, logins, tokens, cookies, tab, history, faults>>

(* exchange_token: GETDEL of the code.  The access token it answers with   *)
(* is lost when the tab goes on to the dashboard; it is left out.          *)
TakeCode(q) ==
    /\ \E found \in Finds(LoginOf(q), codes) :
         Goes(q, "exchange", IF found THEN Onward(q, "record") ELSE Refused)
    /\ codes' = codes \ {LoginOf(q)}
    /\ UNCHANGED <<now, states, records, revoked, github, logins, tokens, cookies, tab,
                   history, faults>>

StoreRecord(q) ==
    /\ Goes(q, "record", Made(q, "signed_in"))
    /\ records' = records \cup {LoginOf(q)}
    /\ admitted' = [admitted EXCEPT ![LoginOf(q)] = @ + 1]
    /\ UNCHANGED <<now, states, codes, revoked, github, logins, tokens, cookies, tab,
                   coded, ended, faults>>

(* refresh_token: create_access_token for a refresh token that is there,   *)
(* and stays there.                                                        *)
Refresh(q) ==
    /\ \E found \in Finds(LoginOf(q), records) :
         \/ /\ found
            /\ Len(tokens) < MaxTokens
            /\ tokens' = Append(tokens, [exp |-> now + AccessLife, late |-> LoginOf(q) \in ended])
            /\ Goes(q, "refresh", [Reply(q, "refreshed") EXCEPT !.token = Len(tokens')])
            /\ UNCHANGED records
         \/ /\ ~found
            /\ records' = records \ {LoginOf(q)}
            /\ Goes(q, "refresh", Refused)
            /\ UNCHANGED tokens
    /\ UNCHANGED <<now, states, codes, revoked, github, logins, cookies, tab, history, faults>>

(* get_current_user.                                                       *)
Blacklisted(k) == now < revoked[k]
Accepted(k) == now < tokens[k].exp + Leeway /\ ~Blacklisted(k)

(* logout: who is not let in cannot log out.                               *)
Authorize(q) ==
    /\ Goes(q, "authorize",
            IF Accepted(request[q].token) THEN Onward(q, "revoke") ELSE Refused)
    /\ UNCHANGED <<now, store, logins, tokens, cookies, tab, history, faults>>

(* Mutated: the refresh token is deleted, whether there is one or not.     *)
AfterwardsAlways(q) == Onward(q, "forget")

Afterwards(q) == IF LoginOf(q) # 0 THEN Onward(q, "forget") ELSE Reply(q, "logged_out")

(* Mutated: the entry is kept for a second less.                           *)
RevokeBriefly(q) ==
    /\ Goes(q, "revoke", Afterwards(q))
    /\ revoked' = [revoked EXCEPT ![request[q].token] = now + AccessLife - 1]
    /\ UNCHANGED <<now, states, codes, records, github, logins, tokens, cookies, tab,
                   history, faults>>

(* SETEX jti_blacklist for as long as a new token lives.                   *)
Revoke(q) ==
    /\ Goes(q, "revoke", Afterwards(q))
    /\ revoked' = [revoked EXCEPT ![request[q].token] = now + AccessLife]
    /\ UNCHANGED <<now, states, codes, records, github, logins, tokens, cookies, tab,
                   history, faults>>

(* Mutated: the cookie is cleared and the refresh token forgotten about.   *)
ForgetNothing(q) ==
    /\ Goes(q, "forget", Reply(q, "logged_out"))
    /\ ended' = ended \cup {LoginOf(q)}
    /\ UNCHANGED <<now, store, logins, tokens, cookies, tab, coded, admitted, faults>>

Forget(q) ==
    /\ Goes(q, "forget", Reply(q, "logged_out"))
    /\ records' = records \ {LoginOf(q)}
    /\ ended' = ended \cup {LoginOf(q)}
    /\ UNCHANGED <<now, states, codes, revoked, github, logins, tokens, cookies, tab,
                   coded, admitted, faults>>

(* DELETE /auth/github-token and its mutation.                             *)
Disconnect(t) ==
    /\ tab[t].page = "in"
    /\ Accepted(tab[t].token)
    /\ github = "stored"
    /\ github' = "removed"
    /\ UNCHANGED <<now, states, codes, records, revoked, logins, tokens, cookies, tab, request,
                   history, faults>>

(* The server or the connection fails.                                     *)
Cut(q) ==
    /\ Fault
    /\ request[q].pc \notin {"idle", "answer"}
    /\ request' = [request EXCEPT ![q] = Refused]
    /\ UNCHANGED <<now, store, logins, tokens, cookies, tab, history>>

-----------------------------------------------------------------------------
(* The answer: cookies are set or cleared, and the tab moves on.  Nobody   *)
(* looks at one that no tab waits for.                                     *)

Waiting(q) == {t \in Tabs : tab[t].waits = q}

(* Who is signed in goes on to the dashboard.                              *)
Page(r) ==
    CASE r.reply = "code" -> [NewTab EXCEPT !.page = "code", !.login = r.login]
      [] r.reply = "signed_in" -> [NewTab EXCEPT !.page = "load"]
      [] r.reply = "refreshed" -> [NewTab EXCEPT !.page = "in", !.token = r.token]
      [] OTHER -> NewTab

Answer(q) ==
    LET r == request[q] IN
    /\ Goes(q, "answer", Idle)
    /\ tab' = [t \in Tabs |-> IF t \in Waiting(q) THEN Page(r) ELSE tab[t]]
    /\ stateCookie' = IF Waiting(q) # {} /\ r.reply \in {"denied", "code"} THEN 0 ELSE stateCookie
    /\ refreshCookie' =
         CASE Waiting(q) = {} -> refreshCookie
           [] Waiting(q) # {} /\ r.reply = "signed_in" -> r.login
           [] Waiting(q) # {} /\ r.reply = "logged_out" /\ r.rest -> 0
           [] OTHER -> refreshCookie
    /\ UNCHANGED <<now, store, logins, tokens, history, faults>>

(* Only tokens are on the clock.                                           *)
Tick ==
    /\ now < MaxTime
    /\ tokens # <<>>
    /\ now' = now + 1
    /\ UNCHANGED <<store, logins, tokens, cookies, tab, request, history, faults>>

TabStep(t) ==
    Login(t) \/ Load(t) \/ Reload(t) \/ ReturnFromGitHub(t) \/ SendCode(t) \/ Restore(t)
      \/ Logout(t) \/ Disconnect(t)

Handler(q) ==
    ConsumeState(q) \/ AskGitHub(q) \/ StoreGitHubToken(q) \/ StoreCode(q) \/ TakeCode(q)
      \/ StoreRecord(q) \/ Refresh(q) \/ Authorize(q) \/ Revoke(q) \/ Forget(q)

Next ==
    \/ \E t \in Tabs : TabStep(t)
    \/ \E q \in Requests : Handler(q) \/ Answer(q) \/ Cut(q)
    \/ Tick

Spec == Init /\ [][Next]_vars

-----------------------------------------------------------------------------
(* Properties.                                                             *)

(* Every variable has its type.                                            *)
TypeOK ==
    /\ now \in 0 .. MaxTime
    /\ states \subseteq Logins /\ codes \subseteq Logins /\ records \subseteq Logins
    /\ revoked \in [TokenIds -> Nat]
    /\ github \in {"none", "stored", "removed"}
    /\ logins \in 0 .. MaxLogins
    /\ tokens \in Seq([exp : Nat, late : BOOLEAN]) /\ Len(tokens) <= MaxTokens
    /\ stateCookie \in 0 .. MaxLogins /\ refreshCookie \in 0 .. MaxLogins
    /\ tab \in [Tabs -> [page : Pages, login : 0 .. MaxLogins, token : 0 .. MaxTokens,
                         waits : Requests \cup {NoRequest}]]
    /\ request \in [Requests -> [pc : Steps, login : 0 .. MaxLogins, token : 0 .. MaxTokens,
                                 rest : BOOLEAN, reply : Replies]]
    /\ coded \in [Logins -> Nat] /\ admitted \in [Logins -> Nat]
    /\ ended \subseteq Logins
    /\ faults \in 0 .. MaxFaults

(* However pages are loaded again and codes sent twice, a login is good    *)
(* for one code, and a code for one session.                               *)
OneSessionPerLogin == \A l \in Logins : coded[l] <= 1 /\ admitted[l] <= 1

(* A token that was used to log out is not accepted again within its own   *)
(* time.  (It may be within the leeway after it, when it was logged out    *)
(* sooner than the leeway is long.)                                        *)
RevokedStaysRefused ==
    \A k \in 1 .. Len(tokens) : revoked[k] # 0 /\ now < tokens[k].exp => ~Accepted(k)

(* Once a logout has deleted a refresh token, no access token is issued    *)
(* for it, in whatever tab and from whatever cookie.                       *)
EndedStaysEnded == \A k \in 1 .. Len(tokens) : ~tokens[k].late

(* Who is signed in can post to GitHub, unless the GitHub token was        *)
(* removed since (on a server that has a key to encrypt it with).          *)
SessionHasGitHub == records \cup codes # {} => github # "none"

=============================================================================
