--------------------------- MODULE AuthSessionProofs ---------------------------
(***************************************************************************)
(* AuthSession for any number of tabs, requests, logins and tokens, and    *)
(* any life and leeway of a token.                                         *)
(*                                                                         *)
(* LoginInv follows a login from its state to its session: whoever holds   *)
(* it at one of these places is the only one to do so, because each place  *)
(* is left by a GETDEL.  SignedInv adds that only a login that was given a *)
(* session is ever logged out, so that its session is not yet to come.     *)
(* TokenInv bounds a token's expiry by the clock, and so by the entry on   *)
(* the blacklist.                                                          *)
(***************************************************************************)
EXTENDS AuthSession, SequenceTheorems, TLAPS

RequestType == [pc : Steps, login : 0 .. MaxLogins, token : 0 .. MaxTokens,
                rest : BOOLEAN, reply : Replies]
TabType == [page : Pages, login : 0 .. MaxLogins, token : 0 .. MaxTokens,
            waits : Requests \cup {NoRequest}]
TokenType == [exp : Nat, late : BOOLEAN]

(* From the GETDEL of the state to the SETEX of the code.                  *)
PreCode == {"github", "store", "code"}
InCallback(q) == request[q].pc \in PreCode
InExchange(q) == request[q].pc = "record"

CallbackInv ==
    \A q \in Requests : InCallback(q) =>
        /\ LoginOf(q) \in Logins /\ LoginOf(q) <= logins
        /\ LoginOf(q) \notin states
        /\ coded[LoginOf(q)] = 0
        /\ \A p \in Requests : InCallback(p) /\ LoginOf(p) = LoginOf(q) => p = q

ExchangeInv ==
    \A q \in Requests : InExchange(q) =>
        /\ LoginOf(q) \in Logins
        /\ LoginOf(q) \notin codes
        /\ coded[LoginOf(q)] = 1
        /\ admitted[LoginOf(q)] = 0
        /\ \A p \in Requests : InExchange(p) /\ LoginOf(p) = LoginOf(q) => p = q

CountInv ==
    /\ \A l \in states : l <= logins /\ coded[l] = 0
    /\ \A l \in codes : coded[l] = 1 /\ admitted[l] = 0
    /\ \A l \in Logins : /\ coded[l] \in {0, 1}
                         /\ admitted[l] \in {0, 1}
                         /\ coded[l] = 0 => admitted[l] = 0
                         /\ l > logins => coded[l] = 0

LoginInv == CallbackInv /\ ExchangeInv /\ CountInv

(* Requests that carry the login of a session.                             *)
SignedIn(r) == r.reply = "signed_in" \/ r.pc \in {"authorize", "revoke", "forget"}

SignedInv ==
    /\ \A l \in ended : l \notin records /\ admitted[l] = 1
    /\ refreshCookie # 0 => admitted[refreshCookie] = 1
    /\ \A q \in Requests :
         /\ SignedIn(request[q]) /\ LoginOf(q) # 0 => admitted[LoginOf(q)] = 1
         /\ request[q].pc = "forget" => LoginOf(q) # 0
    /\ EndedStaysEnded

TokenInv ==
    /\ \A t \in Tabs : tab[t].token <= Len(tokens)
    /\ \A q \in Requests : request[q].token <= Len(tokens)
    /\ \A k \in 1 .. Len(tokens) : tokens[k].exp <= now + AccessLife
    /\ \A k \in TokenIds : revoked[k] # 0 => k <= Len(tokens) /\ tokens[k].exp <= revoked[k]

GitHubInv ==
    /\ \A q \in Requests : request[q].pc \in {"code", "record"} => github # "none"
    /\ SessionHasGitHub

Inv == TypeOK /\ LoginInv /\ SignedInv /\ TokenInv /\ GitHubInv

-----------------------------------------------------------------------------
(* One step of one request, or of one tab.                                 *)

(* The fields of a request.                                                *)
LEMMA RequestParts ==
    ASSUME NEW r \in RequestType
    PROVE  /\ r.pc \in Steps /\ r.login \in 0 .. MaxLogins /\ r.token \in 0 .. MaxTokens
           /\ r.rest \in BOOLEAN /\ r.reply \in Replies
  BY DEF RequestType

(* The requests a handler or a tab can make are requests.                  *)
LEMMA MadeType ==
    ASSUME TypeOK, NEW q \in Requests, NEW l \in 0 .. MaxLogins,
           NEW step \in Steps, NEW reply \in Replies
    PROVE  /\ At(step, l) \in RequestType
           /\ Refused \in RequestType
           /\ Idle \in RequestType
           /\ Onward(q, step) \in RequestType
           /\ Made(q, reply) \in RequestType
           /\ Reply(q, reply) \in RequestType
  <1>1. 0 \in 0 .. MaxLogins /\ 0 \in 0 .. MaxTokens
    BY SessionAssumption
  <1>2. request[q] \in RequestType
    BY DEF TypeOK, RequestType
  <1>3. /\ request[q].pc \in Steps /\ LoginOf(q) \in 0 .. MaxLogins
        /\ request[q].token \in 0 .. MaxTokens
        /\ request[q].rest \in BOOLEAN /\ request[q].reply \in Replies
    BY <1>2, RequestParts DEF LoginOf
  <1>4. Idle \in RequestType
    BY <1>1 DEF Idle, RequestType, Steps, Replies
  <1>5. At(step, l) \in RequestType /\ Refused \in RequestType
    BY <1>1 DEF At, Refused, Idle, RequestType, Steps, Replies
  <1>6. Onward(q, step) \in RequestType
    BY <1>2 DEF Onward, RequestType
  <1>7. Made(q, reply) \in RequestType
    BY <1>1, <1>3 DEF Made, At, Idle, RequestType, Steps
  <1>8. Reply(q, reply) \in RequestType
    BY <1>1, <1>3 DEF Reply, Idle, RequestType, Steps
  <1> QED  BY <1>4, <1>5, <1>6, <1>7, <1>8

(* A request that moves is the only one to do so.                          *)
LEMMA OneMoves ==
    ASSUME TypeOK, NEW q \in Requests, NEW r \in RequestType,
           request' = [request EXCEPT ![q] = r]
    PROVE  /\ request' \in [Requests -> RequestType]
           /\ \A p \in Requests : request'[p] = IF p = q THEN r ELSE request[p]
  BY DEF TypeOK, RequestType

-----------------------------------------------------------------------------
(* Logins.                                                                 *)

(* A step that hands no login on to a callback or an exchange.             *)
LEMMA LoginsStay ==
    ASSUME TypeOK, LoginInv,
           \A q \in Requests : request'[q].pc \in PreCode \cup {"record"} =>
               /\ request'[q].pc \in PreCode => request[q].pc \in PreCode
               /\ request'[q].pc = "record" => request[q].pc = "record"
               /\ request'[q].login = request[q].login,
           states' \subseteq states, codes' \subseteq codes,
           logins' = logins, coded' = coded, admitted' = admitted
    PROVE  LoginInv'
  <1>1. CallbackInv'
    BY DEF LoginInv, CallbackInv, InCallback, LoginOf, PreCode
  <1>2. ExchangeInv'
    BY DEF LoginInv, ExchangeInv, InExchange, LoginOf
  <1>3. CountInv'
    BY DEF LoginInv, CountInv
  <1> QED  BY <1>1, <1>2, <1>3 DEF LoginInv

(* Login: its number is new.                                               *)
LEMMA LoginLogins ==
    ASSUME TypeOK, LoginInv, NEW t \in Tabs, Login(t)
    PROVE  LoginInv'
  <1>1. /\ logins \in Nat /\ logins' = logins + 1 /\ states' = states \cup {logins'}
        /\ logins' \in Logins
        /\ UNCHANGED <<codes, request, coded, admitted>>
    BY SessionAssumption DEF TypeOK, Login, Logins, history
  <1>2. CallbackInv'
    BY <1>1 DEF TypeOK, Logins, LoginInv, CallbackInv, InCallback, LoginOf
  <1>3. ExchangeInv'
    BY <1>1 DEF LoginInv, ExchangeInv, InExchange, LoginOf
  <1>4. CountInv'
    BY <1>1 DEF TypeOK, Logins, LoginInv, CountInv
  <1> QED  BY <1>2, <1>3, <1>4 DEF LoginInv

(* ConsumeState: whoever takes the state holds the login alone.            *)
LEMMA ConsumeLogins ==
    ASSUME TypeOK, LoginInv, NEW q \in Requests, ConsumeState(q)
    PROVE  LoginInv'
  <1> DEFINE l == LoginOf(q)
  <1>1. /\ states' = states \ {l}
        /\ UNCHANGED <<codes, logins, coded, admitted>>
    BY DEF ConsumeState, history
  <1>2. PICK r \in RequestType :
          /\ request' = [request EXCEPT ![q] = r]
          /\ r.pc = "answer" \/ (r.pc = "github" /\ r.login = l /\ l \in states)
    <2>1. Onward(q, "github").pc = "github" /\ Onward(q, "github").login = l
      BY DEF Onward, LoginOf, TypeOK
    <2>2. Reply(q, "denied").pc = "answer" /\ Refused.pc = "answer"
      BY DEF Reply, Refused, Idle
    <2>3. /\ Onward(q, "github") \in RequestType
          /\ Reply(q, "denied") \in RequestType /\ Refused \in RequestType
      BY MadeType, SessionAssumption DEF Steps, Replies
    <2> QED  BY <2>1, <2>2, <2>3 DEF ConsumeState, Goes, Finds
  <1>3. \A p \in Requests : request'[p] = IF p = q THEN r ELSE request[p]
    BY <1>2, OneMoves
  <1>4. CASE r.pc = "answer"
    BY <1>1, <1>3, <1>4, LoginsStay DEF PreCode
  <1>5. CASE r.pc = "github" /\ r.login = l /\ l \in states
    <2>1. l \in Logins /\ l <= logins /\ coded[l] = 0
      BY <1>5 DEF TypeOK, LoginInv, CountInv
    <2>2. \A p \in Requests : InCallback(p) => LoginOf(p) # l
      BY <1>5 DEF LoginInv, CallbackInv
    <2>3. CallbackInv'
      BY <1>1, <1>3, <1>5, <2>1, <2>2
      DEF LoginInv, CallbackInv, InCallback, LoginOf, PreCode
    <2>4. ExchangeInv'
      BY <1>1, <1>3, <1>5 DEF LoginInv, ExchangeInv, InExchange, LoginOf
    <2>5. CountInv'
      BY <1>1 DEF LoginInv, CountInv
    <2> QED  BY <2>3, <2>4, <2>5 DEF LoginInv
  <1> QED  BY <1>2, <1>4, <1>5

(* StoreCode: the login's one code.                                        *)
LEMMA StoreCodeLogins ==
    ASSUME TypeOK, LoginInv, NEW q \in Requests, StoreCode(q)
    PROVE  LoginInv'
  <1> DEFINE l == LoginOf(q)
  <1>1. /\ request[q].pc = "code" /\ codes' = codes \cup {l}
        /\ coded' = [coded EXCEPT ![l] = @ + 1]
        /\ request' = [request EXCEPT ![q] = Made(q, "code")]
        /\ UNCHANGED <<states, logins, admitted>>
    BY DEF StoreCode, Goes
  <1>2. /\ l \in Logins /\ l <= logins /\ l \notin states /\ coded[l] = 0
        /\ \A p \in Requests : InCallback(p) /\ LoginOf(p) = l => p = q
    BY <1>1 DEF LoginInv, CallbackInv, InCallback, PreCode
  <1>3. \A p \in Requests : p # q => request'[p] = request[p]
    BY <1>1 DEF TypeOK
  <1>4. request'[q].pc = "answer"
    BY <1>1 DEF TypeOK, Made, At, Idle
  <1>5. coded'[l] = 1 /\ \A m \in Logins : m # l => coded'[m] = coded[m]
    BY <1>1, <1>2 DEF TypeOK
  <1>6. l \notin codes /\ admitted[l] = 0
    BY <1>2 DEF LoginInv, CountInv
  <1>7. CallbackInv'
    BY <1>1, <1>2, <1>3, <1>4, <1>5 DEF LoginInv, CallbackInv, InCallback, LoginOf, PreCode
  <1>8. ExchangeInv'
    BY <1>1, <1>2, <1>3, <1>4, <1>5, <1>6 DEF LoginInv, ExchangeInv, InExchange, LoginOf
  <1>9. CountInv'
    <2>1. states \subseteq Logins /\ codes \subseteq Logins
      BY DEF TypeOK
    <2>2. \A m \in states' : m <= logins' /\ coded'[m] = 0
      BY <1>1, <1>2, <1>5, <2>1 DEF LoginInv, CountInv
    <2>3. \A m \in codes' : coded'[m] = 1 /\ admitted'[m] = 0
      BY <1>1, <1>2, <1>5, <1>6, <2>1 DEF LoginInv, CountInv
    <2>4. \A m \in Logins : /\ coded'[m] \in {0, 1}
                            /\ admitted'[m] \in {0, 1}
                            /\ coded'[m] = 0 => admitted'[m] = 0
                            /\ m > logins' => coded'[m] = 0
      <3> TAKE m \in Logins
      <3>1. CASE m = l
        <4>1. l <= logins /\ logins \in Nat /\ l \in Nat
          BY <1>2, SessionAssumption DEF TypeOK, Logins
        <4> QED  BY <1>1, <1>5, <1>6, <3>1, <4>1
      <3>2. CASE m # l
        BY <1>1, <1>5, <3>2 DEF LoginInv, CountInv
      <3> QED  BY <3>1, <3>2
    <2> QED  BY <2>2, <2>3, <2>4 DEF CountInv
  <1> QED  BY <1>7, <1>8, <1>9 DEF LoginInv

(* TakeCode: whoever takes the code holds the login alone.                 *)
LEMMA TakeCodeLogins ==
    ASSUME TypeOK, LoginInv, NEW q \in Requests, TakeCode(q)
    PROVE  LoginInv'
  <1> DEFINE l == LoginOf(q)
  <1>1. /\ codes' = codes \ {l}
        /\ UNCHANGED <<states, logins, coded, admitted>>
    BY DEF TakeCode, history
  <1>2. PICK r \in RequestType :
          /\ request' = [request EXCEPT ![q] = r]
          /\ r.pc = "answer" \/ (r.pc = "record" /\ r.login = l /\ l \in codes)
    <2>1. Onward(q, "record").pc = "record" /\ Onward(q, "record").login = l
      BY DEF Onward, LoginOf, TypeOK
    <2>2. Refused.pc = "answer"
      BY DEF Refused, Idle
    <2>3. Onward(q, "record") \in RequestType /\ Refused \in RequestType
      BY MadeType, SessionAssumption DEF Steps, Replies
    <2> QED  BY <2>1, <2>2, <2>3 DEF TakeCode, Goes, Finds
  <1>3. \A p \in Requests : request'[p] = IF p = q THEN r ELSE request[p]
    BY <1>2, OneMoves
  <1>4. CASE r.pc = "answer"
    BY <1>1, <1>3, <1>4, LoginsStay DEF PreCode
  <1>5. CASE r.pc = "record" /\ r.login = l /\ l \in codes
    <2>1. l \in Logins /\ coded[l] = 1 /\ admitted[l] = 0
      BY <1>5 DEF TypeOK, LoginInv, CountInv
    <2>2. \A p \in Requests : InExchange(p) => LoginOf(p) # l
      BY <1>5 DEF LoginInv, ExchangeInv
    <2>3. CallbackInv'
      BY <1>1, <1>3, <1>5 DEF LoginInv, CallbackInv, InCallback, LoginOf, PreCode
    <2>4. ExchangeInv'
      BY <1>1, <1>3, <1>5, <2>1, <2>2 DEF LoginInv, ExchangeInv, InExchange, LoginOf
    <2>5. CountInv'
      BY <1>1 DEF LoginInv, CountInv
    <2> QED  BY <2>3, <2>4, <2>5 DEF LoginInv
  <1> QED  BY <1>2, <1>4, <1>5

(* StoreRecord: the login's one session.                                   *)
LEMMA StoreRecordLogins ==
    ASSUME TypeOK, LoginInv, NEW q \in Requests, StoreRecord(q)
    PROVE  LoginInv'
  <1> DEFINE l == LoginOf(q)
  <1>1. /\ request[q].pc = "record"
        /\ admitted' = [admitted EXCEPT ![l] = @ + 1]
        /\ request' = [request EXCEPT ![q] = Made(q, "signed_in")]
        /\ UNCHANGED <<states, codes, logins, coded>>
    BY DEF StoreRecord, Goes
  <1>2. /\ l \in Logins /\ l \notin codes /\ coded[l] = 1 /\ admitted[l] = 0
        /\ \A p \in Requests : InExchange(p) /\ LoginOf(p) = l => p = q
    BY <1>1 DEF LoginInv, ExchangeInv, InExchange
  <1>3. \A p \in Requests : p # q => request'[p] = request[p]
    BY <1>1 DEF TypeOK
  <1>4. request'[q].pc = "answer"
    BY <1>1 DEF TypeOK, Made, At, Idle
  <1>5. admitted'[l] = 1 /\ \A m \in Logins : m # l => admitted'[m] = admitted[m]
    BY <1>1, <1>2 DEF TypeOK
  <1>6. CallbackInv'
    BY <1>1, <1>3, <1>4 DEF LoginInv, CallbackInv, InCallback, LoginOf, PreCode
  <1>7. ExchangeInv'
    BY <1>1, <1>2, <1>3, <1>4, <1>5 DEF LoginInv, ExchangeInv, InExchange, LoginOf
  <1>8. CountInv'
    <2>1. codes \subseteq Logins
      BY DEF TypeOK
    <2>2. \A m \in codes' : coded'[m] = 1 /\ admitted'[m] = 0
      BY <1>1, <1>2, <1>5, <2>1 DEF LoginInv, CountInv
    <2>3. \A m \in Logins : /\ coded'[m] \in {0, 1}
                            /\ admitted'[m] \in {0, 1}
                            /\ coded'[m] = 0 => admitted'[m] = 0
                            /\ m > logins' => coded'[m] = 0
      <3> TAKE m \in Logins
      <3>1. CASE m = l
        BY <1>1, <1>2, <1>5, <3>1 DEF LoginInv, CountInv
      <3>2. CASE m # l
        BY <1>1, <1>5, <3>2 DEF LoginInv, CountInv
      <3> QED  BY <3>1, <3>2
    <2> QED  BY <1>1, <2>2, <2>3 DEF LoginInv, CountInv
  <1> QED  BY <1>6, <1>7, <1>8 DEF LoginInv

-----------------------------------------------------------------------------
(* What each kind of step does to requests, tabs and cookies.              *)

(* A tab that sends a request.                                             *)
Asks(t) == ReturnFromGitHub(t) \/ SendCode(t) \/ Restore(t) \/ Logout(t)

LEMMA AskMoves ==
    ASSUME TypeOK, NEW t \in Tabs, Asks(t)
    PROVE  /\ UNCHANGED <<now, store, logins, tokens, cookies, history, faults>>
           /\ \E q \in Requests, r \in RequestType :
                /\ request' = [request EXCEPT ![q] = r]
                /\ tab' = [tab EXCEPT ![t].waits = q]
                /\ r.pc \notin PreCode \cup {"record", "revoke", "forget"}
                /\ r.reply # "signed_in"
                /\ r.pc = "authorize" => r.login \in {0, refreshCookie}
                /\ r.token \in {0, tab[t].token}
  <1>1. /\ tab[t].login \in 0 .. MaxLogins /\ tab[t].token \in 0 .. MaxTokens
        /\ refreshCookie \in 0 .. MaxLogins /\ 0 \in 0 .. MaxLogins /\ 0 \in 0 .. MaxTokens
    BY SessionAssumption DEF TypeOK
  <1>2. \A l \in 0 .. MaxLogins, step \in {"state", "exchange", "refresh"} :
          /\ At(step, l) \in RequestType /\ Refused \in RequestType
          /\ At(step, l).pc = step /\ At(step, l).reply = "none" /\ At(step, l).token = 0
          /\ Refused.pc = "answer" /\ Refused.reply = "refused" /\ Refused.token = 0
    BY <1>1 DEF At, Refused, Idle, RequestType, Steps, Replies
  <1>3. ASSUME NEW page, NEW r \in RequestType, Sends(t, page, r),
               r.pc \notin PreCode \cup {"record", "revoke", "forget"}, r.reply # "signed_in",
               r.pc = "authorize" => r.login \in {0, refreshCookie},
               r.token \in {0, tab[t].token}
        PROVE  /\ UNCHANGED <<now, store, logins, tokens, cookies, history, faults>>
               /\ \E q \in Requests :
                    /\ request' = [request EXCEPT ![q] = r]
                    /\ tab' = [tab EXCEPT ![t].waits = q]
    BY <1>3 DEF Sends
  <1>4. CASE ReturnFromGitHub(t)
    <2> DEFINE r == IF stateCookie = tab[t].login THEN At("state", tab[t].login) ELSE Refused
    <2>1. Sends(t, "github", r)
      BY <1>4 DEF ReturnFromGitHub
    <2>2. /\ r \in RequestType /\ r.pc \in {"state", "answer"} /\ r.reply \in {"none", "refused"}
          /\ r.token = 0
      BY <1>1, <1>2
    <2> HIDE DEF r
    <2> QED  BY <1>3, <2>1, <2>2 DEF PreCode
  <1>5. CASE SendCode(t)
    <2> DEFINE r == At("exchange", tab[t].login)
    <2>1. Sends(t, "code", r)
      BY <1>5 DEF SendCode
    <2>2. r \in RequestType /\ r.pc = "exchange" /\ r.reply = "none" /\ r.token = 0
      BY <1>1, <1>2
    <2> HIDE DEF r
    <2> QED  BY <1>3, <2>1, <2>2 DEF PreCode
  <1>6. CASE Restore(t)
    <2> DEFINE r == IF refreshCookie = 0 THEN Refused ELSE At("refresh", refreshCookie)
    <2>1. Sends(t, "load", r)
      BY <1>6 DEF Restore
    <2>2. /\ r \in RequestType /\ r.pc \in {"refresh", "answer"} /\ r.reply \in {"none", "refused"}
          /\ r.token = 0
      BY <1>1, <1>2
    <2> HIDE DEF r
    <2> QED  BY <1>3, <2>1, <2>2 DEF PreCode
  <1>7. CASE Logout(t)
    <2>1. PICK rest \in BOOLEAN :
            Sends(t, "in", [Idle EXCEPT !.pc = "authorize", !.token = tab[t].token,
                                        !.rest = rest,
                                        !.login = IF rest THEN refreshCookie ELSE 0])
      BY <1>7 DEF Logout
    <2> DEFINE r == [Idle EXCEPT !.pc = "authorize", !.token = tab[t].token, !.rest = rest,
                                 !.login = IF rest THEN refreshCookie ELSE 0]
    <2>2. Sends(t, "in", r)
      BY <2>1
    <2>3. /\ r \in RequestType /\ r.pc = "authorize" /\ r.reply = "none"
          /\ r.login \in {0, refreshCookie} /\ r.token = tab[t].token
      BY <1>1 DEF Idle, RequestType, Steps, Replies
    <2> HIDE DEF r
    <2> QED  BY <1>3, <2>2, <2>3 DEF PreCode
  <1> QED  BY <1>4, <1>5, <1>6, <1>7 DEF Asks

(* What a handler does to its own request.                                 *)
MovedBy(q, r) ==
    /\ request' = [request EXCEPT ![q] = r]
    /\ r.pc \in PreCode => /\ r.login = LoginOf(q)
                           /\ request[q].pc \in PreCode \/ ConsumeState(q)
    /\ r.pc = "record" => TakeCode(q)
    /\ r.pc = "code" => StoreGitHubToken(q)
    /\ SignedIn(r) => r.login = LoginOf(q) /\ (SignedIn(request[q]) \/ StoreRecord(q))
    /\ r.pc = "forget" => r.login # 0
    /\ r.token = 0 \/ r.token = request[q].token \/ (Refresh(q) /\ r.token = Len(tokens'))

LEMMA HandlerMoves ==
    ASSUME TypeOK, NEW q \in Requests, Handler(q) \/ Cut(q)
    PROVE  /\ \E r \in RequestType : MovedBy(q, r)
           /\ UNCHANGED <<now, logins, cookies, tab>>
  <1>1. UNCHANGED <<now, logins, cookies, tab>>
    BY DEF Handler, Cut, ConsumeState, AskGitHub, StoreGitHubToken, StoreCode, TakeCode,
           StoreRecord, Refresh, Authorize, Revoke, Forget, cookies, store
  <1>2. \A step \in Steps : /\ Onward(q, step) \in RequestType
                            /\ Onward(q, step).pc = step
                            /\ Onward(q, step).login = LoginOf(q)
                            /\ Onward(q, step).token = request[q].token
                            /\ Onward(q, step).reply = request[q].reply
    BY DEF Onward, LoginOf, TypeOK, RequestType
  <1>3. \A reply \in Replies : /\ Reply(q, reply) \in RequestType
                               /\ Reply(q, reply).pc = "answer"
                               /\ Reply(q, reply).reply = reply
                               /\ Reply(q, reply).token = 0
    <2> TAKE reply \in Replies
    <2>1. Reply(q, reply) \in RequestType
      BY MadeType, SessionAssumption DEF Steps
    <2> QED  BY <2>1 DEF Reply, Idle
  <1>4. \A reply \in Replies : /\ Made(q, reply) \in RequestType
                               /\ Made(q, reply).pc = "answer"
                               /\ Made(q, reply).reply = reply
                               /\ Made(q, reply).login = LoginOf(q)
                               /\ Made(q, reply).token = 0
    <2> TAKE reply \in Replies
    <2>1. Made(q, reply) \in RequestType
      BY MadeType, SessionAssumption DEF Steps
    <2> QED  BY <2>1 DEF Made, At, Idle
  <1>5. /\ Refused \in RequestType /\ Refused.pc = "answer" /\ Refused.reply = "refused"
        /\ Refused.token = 0
    BY MadeType, SessionAssumption DEF Steps, Replies, Refused, Idle
  <1> SUFFICES \E r \in RequestType : MovedBy(q, r)
    BY <1>1
  <1> USE DEF Goes, PreCode, SignedIn
  <1>5a. ASSUME request' = [request EXCEPT ![q] = Refused]
         PROVE  \E r \in RequestType : MovedBy(q, r)
    <2>1. MovedBy(q, Refused)
      BY <1>5, <1>5a DEF MovedBy
    <2> QED  BY <1>5, <2>1
  <1>6. CASE ConsumeState(q)
    <2>1. CASE request' = [request EXCEPT ![q] = Onward(q, "github")]
      <3>1. MovedBy(q, Onward(q, "github"))
        BY <1>2, <1>6, <2>1 DEF MovedBy, Steps
      <3> QED  BY <1>2, <3>1 DEF Steps
    <2>2. CASE request' = [request EXCEPT ![q] = Reply(q, "denied")]
      <3>1. MovedBy(q, Reply(q, "denied"))
        BY <1>3, <2>2 DEF MovedBy, Replies
      <3> QED  BY <1>3, <3>1 DEF Replies
    <2> QED  BY <1>6, <1>5a, <2>1, <2>2 DEF ConsumeState
  <1>7. CASE AskGitHub(q)
    <2>1. CASE request[q].pc = "github" /\ request' = [request EXCEPT ![q] = Onward(q, "store")]
      <3>1. MovedBy(q, Onward(q, "store"))
        BY <1>2, <2>1 DEF MovedBy, Steps
      <3> QED  BY <1>2, <3>1 DEF Steps
    <2> QED  BY <1>7, <1>5a, <2>1 DEF AskGitHub
  <1>8. CASE StoreGitHubToken(q)
    BY <1>2, <1>8 DEF MovedBy, StoreGitHubToken, Steps
  <1>9. CASE StoreCode(q)
    BY <1>4, <1>9 DEF MovedBy, StoreCode, Replies
  <1>10. CASE TakeCode(q)
    BY <1>2, <1>5, <1>10 DEF MovedBy, TakeCode, Steps
  <1>11. CASE StoreRecord(q)
    BY <1>4, <1>11 DEF MovedBy, StoreRecord, Replies
  <1>12. CASE Refresh(q)
    <2>2. CASE /\ request' = [request EXCEPT ![q] =
                                 [Reply(q, "refreshed") EXCEPT !.token = Len(tokens')]]
               /\ tokens' = Append(tokens, [exp |-> now + AccessLife,
                                            late |-> LoginOf(q) \in ended])
               /\ Len(tokens) < MaxTokens
      <3> DEFINE r == [Reply(q, "refreshed") EXCEPT !.token = Len(tokens')]
      <3>1. Len(tokens') = Len(tokens) + 1 /\ Len(tokens) \in Nat
        BY <2>2 DEF TypeOK
      <3>2. Len(tokens') \in 0 .. MaxTokens
        BY <2>2, <3>1, SessionAssumption
      <3>3. Reply(q, "refreshed") \in RequestType
        BY <1>3 DEF Replies
      <3>4. /\ r \in RequestType /\ r.pc = "answer" /\ r.reply = "refreshed"
            /\ r.token = Len(tokens')
        BY <1>3, <3>2, <3>3 DEF RequestType, Replies
      <3> HIDE DEF r
      <3>5. request' = [request EXCEPT ![q] = r]
        BY <2>2 DEF r
      <3>6. MovedBy(q, r)
        BY <1>12, <3>4, <3>5 DEF MovedBy
      <3> QED  BY <3>4, <3>6
    <2> QED  BY <1>12, <1>5a, <2>2 DEF Refresh
  <1>13. CASE Authorize(q)
    BY <1>2, <1>5, <1>13 DEF MovedBy, Authorize, Steps
  <1>14. CASE Revoke(q)
    BY <1>2, <1>3, <1>14 DEF MovedBy, Revoke, Afterwards, Steps, Replies
  <1>15. CASE Forget(q)
    BY <1>3, <1>15 DEF MovedBy, Forget, Replies
  <1>16. CASE Cut(q)
    BY <1>5, <1>16 DEF MovedBy, Cut
  <1> QED
    BY <1>6, <1>7, <1>8, <1>9, <1>10, <1>11, <1>12, <1>13, <1>14, <1>15, <1>16 DEF Handler

(* An answer, whoever waits for it.                                        *)
LEMMA AnswerMoves ==
    ASSUME TypeOK, NEW q \in Requests, Answer(q)
    PROVE  /\ UNCHANGED <<now, store, logins, tokens, history, faults>>
           /\ request' = [request EXCEPT ![q] = Idle]
           /\ tab' \in [Tabs -> TabType]
           /\ \A t \in Tabs : tab'[t].token \in {0, tab[t].token, request[q].token}
           /\ stateCookie' \in {0, stateCookie}
           /\ \/ refreshCookie' \in {0, refreshCookie}
              \/ refreshCookie' = LoginOf(q) /\ request[q].reply = "signed_in"
  <1>1. /\ request[q] \in RequestType
        /\ 0 \in 0 .. MaxLogins /\ 0 \in 0 .. MaxTokens
    BY SessionAssumption DEF TypeOK, RequestType
  <1>2. NewTab \in TabType /\ NewTab.token = 0
    BY <1>1 DEF NewTab, TabType, Pages
  <1>3. /\ Page(request[q]) \in TabType
        /\ Page(request[q]).token \in {0, request[q].token}
    BY <1>1, <1>2 DEF Page, NewTab, TabType, Pages, RequestType
  <1>4. tab' = [t \in Tabs |-> IF t \in Waiting(q) THEN Page(request[q]) ELSE tab[t]]
    BY DEF Answer
  <1>5. tab \in [Tabs -> TabType]
    BY DEF TypeOK, TabType
  <1>6. /\ tab' \in [Tabs -> TabType]
        /\ \A t \in Tabs : tab'[t].token \in {0, tab[t].token, request[q].token}
    BY <1>3, <1>4, <1>5
  <1>7. /\ stateCookie' \in {0, stateCookie}
        /\ \/ refreshCookie' \in {0, refreshCookie}
           \/ refreshCookie' = LoginOf(q) /\ request[q].reply = "signed_in"
    BY DEF Answer, LoginOf
  <1> QED  BY <1>6, <1>7 DEF Answer, Goes

(* A tab on its own, or the clock.                                         *)
Alone(t) == Login(t) \/ Load(t) \/ Reload(t) \/ Disconnect(t)

LEMMA AloneMoves ==
    ASSUME TypeOK, NEW t \in Tabs, Alone(t)
    PROVE  /\ UNCHANGED <<now, codes, records, revoked, tokens, refreshCookie, request, history>>
           /\ tab' \in [Tabs -> TabType]
           /\ \A s \in Tabs : tab'[s].token \in {0, tab[s].token}
           /\ faults' \in 0 .. MaxFaults
           /\ Login(t) \/ UNCHANGED <<states, stateCookie, logins>>
           /\ github' = "none" => github = "none"
  <1>1. /\ tab \in [Tabs -> TabType] /\ logins \in Nat /\ faults \in 0 .. MaxFaults
        /\ 0 \in 0 .. MaxLogins /\ 0 \in 0 .. MaxTokens
    BY SessionAssumption DEF TypeOK, TabType
  <1>2. NewTab \in TabType /\ NewTab.token = 0
    BY <1>1 DEF NewTab, TabType, Pages
  <1>3. CASE Login(t)
    <2>1. logins' \in 0 .. MaxLogins
      BY <1>1, <1>3, SessionAssumption DEF Login
    <2>2. /\ tab' = [tab EXCEPT ![t] = [@ EXCEPT !.page = "github", !.login = logins']]
          /\ UNCHANGED <<now, codes, records, revoked, github, tokens, refreshCookie, request,
                         history, faults>>
      BY <1>3 DEF Login
    <2> QED  BY <1>1, <1>3, <2>1, <2>2 DEF TabType, Pages
  <1>4. CASE Load(t)
    BY <1>1, <1>2, <1>4 DEF Load, store, cookies, TabType, Pages, NewTab
  <1>5. CASE Reload(t)
    <2>1. faults' \in 0 .. MaxFaults
      BY <1>1, <1>5, SessionAssumption DEF Reload, Fault
    <2> QED  BY <1>1, <1>2, <1>5, <2>1 DEF Reload, store, cookies, TabType, Pages, NewTab
  <1>6. CASE Disconnect(t)
    BY <1>1, <1>6 DEF Disconnect, cookies
  <1> QED  BY <1>3, <1>4, <1>5, <1>6 DEF Alone

(* The kinds of steps there are.                                           *)
LEMMA StepKinds ==
    [Next]_vars =>
        \/ UNCHANGED vars
        \/ Tick
        \/ \E t \in Tabs : Alone(t) \/ Asks(t)
        \/ \E q \in Requests : Handler(q) \/ Cut(q) \/ Answer(q)
  BY DEF Next, TabStep, Alone, Asks

-----------------------------------------------------------------------------
(* Each part is kept by every step.                                        *)

(* TypeOK, by the names used here.                                         *)
LEMMA Types ==
    TypeOK <=> /\ now \in 0 .. MaxTime
               /\ states \subseteq Logins /\ codes \subseteq Logins /\ records \subseteq Logins
               /\ revoked \in [TokenIds -> Nat]
               /\ github \in {"none", "stored", "removed"}
               /\ logins \in 0 .. MaxLogins
               /\ tokens \in Seq(TokenType) /\ Len(tokens) <= MaxTokens
               /\ stateCookie \in 0 .. MaxLogins /\ refreshCookie \in 0 .. MaxLogins
               /\ tab \in [Tabs -> TabType]
               /\ request \in [Requests -> RequestType]
               /\ coded \in [Logins -> Nat] /\ admitted \in [Logins -> Nat]
               /\ ended \subseteq Logins
               /\ faults \in 0 .. MaxFaults
  BY DEF TypeOK, TabType, RequestType, TokenType

LEMMA HandlerTypes ==
    ASSUME TypeOK, LoginInv, SignedInv, NEW q \in Requests, Handler(q) \/ Cut(q)
    PROVE  TypeOK'
  <1>1. /\ request' \in [Requests -> RequestType]
        /\ UNCHANGED <<now, logins, cookies, tab>>
    BY HandlerMoves, OneMoves DEF MovedBy
  <1>2. /\ request[q].pc \in {"code", "record", "forget"} => LoginOf(q) \in Logins
        /\ now \in Nat /\ AccessLife \in Nat
    <2>1. LoginOf(q) \in 0 .. MaxLogins /\ MaxLogins \in Nat /\ now \in Nat /\ AccessLife \in Nat
      BY SessionAssumption, Types, RequestParts DEF LoginOf
    <2> QED  BY <2>1 DEF LoginInv, CallbackInv, InCallback, PreCode, ExchangeInv, InExchange,
                         SignedInv, Logins
  <1>3. /\ states' \subseteq Logins /\ codes' \subseteq Logins /\ records' \subseteq Logins
        /\ github' \in {"none", "stored", "removed"}
        /\ ended' \subseteq Logins
    BY <1>2, Types
    DEF Handler, Cut, ConsumeState, AskGitHub, StoreGitHubToken, StoreCode, TakeCode,
        StoreRecord, Refresh, Authorize, Revoke, Forget, Goes, store, history
  <1>4. revoked' \in [TokenIds -> Nat]
    BY <1>2, Types
    DEF Handler, Cut, ConsumeState, AskGitHub, StoreGitHubToken, StoreCode, TakeCode,
        StoreRecord, Refresh, Authorize, Revoke, Forget, store
  <1>5. coded' \in [Logins -> Nat] /\ admitted' \in [Logins -> Nat]
    <2>1. coded \in [Logins -> Nat] /\ admitted \in [Logins -> Nat]
      BY Types
    <2>2. ASSUME NEW f \in [Logins -> Nat], NEW l
          PROVE  [f EXCEPT ![l] = @ + 1] \in [Logins -> Nat]
      <3>1. CASE l \in Logins
        <4>1. f[l] + 1 \in Nat
          BY <3>1
        <4> QED  BY <4>1
      <3>2. CASE l \notin Logins
        BY <3>2
      <3> QED  BY <3>1, <3>2
    <2>3. CASE coded' = [coded EXCEPT ![LoginOf(q)] = @ + 1] /\ UNCHANGED admitted
      BY <2>1, <2>3, <2>2
    <2>4. CASE admitted' = [admitted EXCEPT ![LoginOf(q)] = @ + 1] /\ UNCHANGED coded
      BY <2>1, <2>4, <2>2
    <2>5. CASE UNCHANGED <<coded, admitted>>
      BY <2>1, <2>5
    <2> QED  BY <2>3, <2>4, <2>5
             DEF Handler, Cut, ConsumeState, AskGitHub, StoreGitHubToken, StoreCode, TakeCode,
                 StoreRecord, Refresh, Authorize, Revoke, Forget, history
  <1>6. tokens' \in Seq(TokenType) /\ Len(tokens') <= MaxTokens
    <2>1. CASE UNCHANGED tokens
      BY <2>1, Types
    <2>2. CASE /\ Len(tokens) < MaxTokens
               /\ tokens' = Append(tokens, [exp |-> now + AccessLife,
                                            late |-> LoginOf(q) \in ended])
      <3>1. [exp |-> now + AccessLife, late |-> LoginOf(q) \in ended] \in TokenType
        BY <1>2 DEF TokenType
      <3>2. /\ tokens' \in Seq(TokenType) /\ Len(tokens') = Len(tokens) + 1
            /\ Len(tokens) \in Nat
        BY <2>2, <3>1, Types
      <3> QED  BY <2>2, <3>2, SessionAssumption
    <2> QED  BY <2>1, <2>2
             DEF Handler, Cut, ConsumeState, AskGitHub, StoreGitHubToken, StoreCode, TakeCode,
                 StoreRecord, Refresh, Authorize, Revoke, Forget
  <1>7. faults' \in 0 .. MaxFaults
    <2>1. CASE UNCHANGED faults
      BY <2>1, Types
    <2>2. CASE Fault
      BY <2>2, Types, SessionAssumption DEF Fault
    <2> QED  BY <2>1, <2>2
             DEF Handler, Cut, ConsumeState, AskGitHub, StoreGitHubToken, StoreCode, TakeCode,
                 StoreRecord, Refresh, Authorize, Revoke, Forget
  <1>8. /\ now' \in 0 .. MaxTime /\ logins' \in 0 .. MaxLogins /\ tab' \in [Tabs -> TabType]
        /\ stateCookie' \in 0 .. MaxLogins /\ refreshCookie' \in 0 .. MaxLogins
    BY <1>1, Types DEF cookies
  <1> QED  BY <1>1, <1>3, <1>4, <1>5, <1>6, <1>7, <1>8 DEF TypeOK, TabType, RequestType, TokenType

(* Logins are none only where no login is made use of.                     *)
LEMMA TypeStep ==
    ASSUME TypeOK, LoginInv, SignedInv, [Next]_vars
    PROVE  TypeOK'
  <1>1. CASE UNCHANGED vars
    BY <1>1 DEF TypeOK, vars, store, cookies, history
  <1>2. CASE Tick
    <2>1. now' \in 0 .. MaxTime
      BY <1>2, SessionAssumption DEF Tick, TypeOK
    <2> QED  BY <1>2, <2>1 DEF Tick, TypeOK, store, cookies, history
  <1>3. ASSUME NEW t \in Tabs, Alone(t)
        PROVE  TypeOK'
    <2>1. /\ UNCHANGED <<now, codes, records, revoked, tokens, refreshCookie, request, history>>
          /\ tab' \in [Tabs -> TabType]
          /\ faults' \in 0 .. MaxFaults
      BY <1>3, AloneMoves
    <2>2. /\ states' \subseteq Logins /\ logins' \in 0 .. MaxLogins
          /\ stateCookie' \in 0 .. MaxLogins
      <3>1. CASE Login(t)
        BY <3>1, Types, SessionAssumption DEF Login, Logins
      <3> QED  BY <1>3, <3>1, AloneMoves, Types
    <2>3. github' \in {"none", "stored", "removed"}
      BY <1>3, Types DEF Alone, Login, Load, Reload, Disconnect, store
    <2> QED  BY <2>1, <2>2, <2>3, Types DEF TypeOK, TabType, history
  <1>4. ASSUME NEW t \in Tabs, Asks(t)
        PROVE  TypeOK'
    <2>1. UNCHANGED <<now, store, logins, tokens, cookies, history, faults>>
      BY <1>4, AskMoves
    <2>2. PICK q \in Requests, r \in RequestType :
            request' = [request EXCEPT ![q] = r] /\ tab' = [tab EXCEPT ![t].waits = q]
      BY <1>4, AskMoves
    <2>3. request' \in [Requests -> RequestType]
      BY <2>2, OneMoves
    <2>4. tab' \in [Tabs -> TabType]
      BY <2>2, Types DEF TabType
    <2> QED  BY <2>1, <2>3, <2>4 DEF TypeOK, TabType, RequestType, store, cookies, history
  <1>5. ASSUME NEW q \in Requests, Answer(q)
        PROVE  TypeOK'
    <2>1. /\ UNCHANGED <<now, store, logins, tokens, history, faults>>
          /\ tab' \in [Tabs -> TabType]
      BY <1>5, AnswerMoves
    <2>2. request' \in [Requests -> RequestType]
      <3>1. Idle \in RequestType
        BY MadeType, SessionAssumption DEF Steps, Replies
      <3> QED  BY <1>5, <3>1, AnswerMoves, OneMoves
    <2>3. stateCookie' \in 0 .. MaxLogins /\ refreshCookie' \in 0 .. MaxLogins
      <3>1. 0 \in 0 .. MaxLogins /\ LoginOf(q) \in 0 .. MaxLogins
        BY SessionAssumption, Types, RequestParts DEF LoginOf
      <3> QED  BY <1>5, <3>1, AnswerMoves, Types
    <2> QED  BY <2>1, <2>2, <2>3 DEF TypeOK, TabType, RequestType, store, history
  <1> QED  BY <1>1, <1>2, <1>3, <1>4, <1>5, StepKinds, HandlerTypes

(* Four handlers hand a login on; no other step does.                      *)
LEMMA LoginStep ==
    ASSUME TypeOK, LoginInv, [Next]_vars
    PROVE  LoginInv'
  <1>1. CASE UNCHANGED vars
    BY <1>1, LoginsStay DEF vars, store, history
  <1>2. CASE Tick
    BY <1>2, LoginsStay DEF Tick, store, history
  <1>3. ASSUME NEW t \in Tabs, Alone(t)
        PROVE  LoginInv'
    <2>1. CASE Login(t)
      BY <2>1, LoginLogins
    <2>2. CASE ~Login(t)
      <3>1. UNCHANGED <<states, codes, request, logins, coded, admitted>>
        BY <1>3, <2>2, AloneMoves DEF history
      <3> QED  BY <3>1, LoginsStay
    <2> QED  BY <2>1, <2>2
  <1>4. ASSUME NEW t \in Tabs, Asks(t)
        PROVE  LoginInv'
    <2>1. UNCHANGED <<states, codes, logins, coded, admitted>>
      BY <1>4, AskMoves DEF store, history
    <2>2. PICK q \in Requests, r \in RequestType :
            request' = [request EXCEPT ![q] = r] /\ r.pc \notin PreCode \cup {"record"}
      BY <1>4, AskMoves
    <2>3. \A p \in Requests : request'[p] = IF p = q THEN r ELSE request[p]
      BY <2>2, OneMoves
    <2> QED  BY <2>1, <2>2, <2>3, LoginsStay
  <1>5. ASSUME NEW q \in Requests, Answer(q)
        PROVE  LoginInv'
    <2>1. UNCHANGED <<states, codes, logins, coded, admitted>>
      BY <1>5, AnswerMoves DEF store, history
    <2>2. Idle \in RequestType /\ Idle.pc = "idle"
      BY MadeType, SessionAssumption DEF Steps, Replies, Idle
    <2>3. \A p \in Requests : request'[p] = IF p = q THEN Idle ELSE request[p]
      BY <1>5, <2>2, AnswerMoves, OneMoves
    <2> QED  BY <2>1, <2>2, <2>3, LoginsStay DEF PreCode
  <1>6. ASSUME NEW q \in Requests, Handler(q) \/ Cut(q)
        PROVE  LoginInv'
    <2>1. CASE ConsumeState(q) \/ StoreCode(q) \/ TakeCode(q) \/ StoreRecord(q)
      BY <2>1, ConsumeLogins, StoreCodeLogins, TakeCodeLogins, StoreRecordLogins
    <2>2. CASE ~(ConsumeState(q) \/ StoreCode(q) \/ TakeCode(q) \/ StoreRecord(q))
      <3>1. UNCHANGED <<states, codes, logins, coded, admitted>>
        BY <1>6, <2>2
        DEF Handler, Cut, AskGitHub, StoreGitHubToken, Refresh, Authorize, Revoke, Forget,
            store, history
      <3>2. PICK r \in RequestType : MovedBy(q, r)
        BY <1>6, HandlerMoves
      <3>3. \A p \in Requests : request'[p] = IF p = q THEN r ELSE request[p]
        BY <3>2, OneMoves DEF MovedBy
      <3>4. /\ r.pc # "record"
            /\ r.pc \in PreCode => r.login = request[q].login /\ request[q].pc \in PreCode
        BY <2>2, <3>2 DEF MovedBy, LoginOf
      <3> QED  BY <3>1, <3>3, <3>4, LoginsStay DEF PreCode
    <2> QED  BY <2>1, <2>2
  <1> QED  BY <1>1, <1>2, <1>3, <1>4, <1>5, <1>6, StepKinds

(* Requests and cookies that carry no login but a session's.               *)
LEMMA SignedStay ==
    ASSUME TypeOK, SignedInv,
           \A q \in Requests : SignedIn(request'[q]) /\ request'[q].login # 0 =>
               admitted[request'[q].login] = 1,
           \A q \in Requests : request'[q].pc = "forget" => request'[q].login # 0,
           refreshCookie' # 0 => admitted[refreshCookie'] = 1,
           UNCHANGED <<admitted, ended, tokens>>, records' \subseteq records
    PROVE  SignedInv'
  BY DEF SignedInv, SignedIn, LoginOf, EndedStaysEnded

(* StoreRecord cannot undo a logout: its login has no session yet.         *)
LEMMA SignedStep ==
    ASSUME TypeOK, LoginInv, SignedInv, [Next]_vars
    PROVE  SignedInv'
  <1> DEFINE Signed(r) == SignedIn(r) /\ r.login # 0 => admitted[r.login] = 1
  <1>0. /\ \A q \in Requests : Signed(request[q])
        /\ \A q \in Requests : request[q].pc = "forget" => request[q].login # 0
        /\ refreshCookie # 0 => admitted[refreshCookie] = 1
    BY DEF SignedInv, LoginOf
  <1>1. CASE UNCHANGED vars
    BY <1>0, <1>1, SignedStay DEF vars, store, cookies, history
  <1>2. CASE Tick
    BY <1>0, <1>2, SignedStay DEF Tick, store, cookies, history
  <1>3. ASSUME NEW t \in Tabs, Alone(t)
        PROVE  SignedInv'
    <2>1. UNCHANGED <<records, tokens, refreshCookie, request, admitted, ended>>
      BY <1>3, AloneMoves DEF history
    <2> QED  BY <1>0, <2>1, SignedStay
  <1>4. ASSUME NEW t \in Tabs, Asks(t)
        PROVE  SignedInv'
    <2>1. UNCHANGED <<records, tokens, refreshCookie, admitted, ended>>
      BY <1>4, AskMoves DEF store, cookies, history
    <2>2. PICK q \in Requests, r \in RequestType :
            /\ request' = [request EXCEPT ![q] = r]
            /\ r.pc \notin PreCode \cup {"record", "revoke", "forget"}
            /\ r.reply # "signed_in"
            /\ r.pc = "authorize" => r.login \in {0, refreshCookie}
      BY <1>4, AskMoves
    <2>3. \A p \in Requests : request'[p] = IF p = q THEN r ELSE request[p]
      BY <2>2, OneMoves
    <2> QED  BY <1>0, <2>1, <2>2, <2>3, SignedStay DEF SignedIn
  <1>5. ASSUME NEW q \in Requests, Answer(q)
        PROVE  SignedInv'
    <2>1. UNCHANGED <<records, tokens, admitted, ended>>
      BY <1>5, AnswerMoves DEF store, history
    <2>2. Idle \in RequestType /\ Idle.pc = "idle" /\ Idle.reply = "none"
      BY MadeType, SessionAssumption DEF Steps, Replies, Idle
    <2>3. \A p \in Requests : request'[p] = IF p = q THEN Idle ELSE request[p]
      BY <1>5, <2>2, AnswerMoves, OneMoves
    <2>4. refreshCookie' # 0 => admitted[refreshCookie'] = 1
      BY <1>0, <1>5, AnswerMoves DEF SignedIn, LoginOf
    <2> QED  BY <1>0, <2>1, <2>2, <2>3, <2>4, SignedStay DEF SignedIn
  <1>6. ASSUME NEW q \in Requests, Handler(q) \/ Cut(q)
        PROVE  SignedInv'
    <2>1. /\ UNCHANGED refreshCookie
          /\ \E r \in RequestType : MovedBy(q, r)
      BY <1>6, HandlerMoves DEF cookies
    <2>2. PICK r \in RequestType : MovedBy(q, r)
      BY <2>1
    <2>3. \A p \in Requests : request'[p] = IF p = q THEN r ELSE request[p]
      BY <2>2, OneMoves DEF MovedBy
    <2>4. /\ SignedIn(r) => r.login = LoginOf(q) /\ (SignedIn(request[q]) \/ StoreRecord(q))
          /\ r.pc = "forget" => r.login # 0
      BY <2>2 DEF MovedBy
    <2>5. CASE StoreRecord(q)
      <3> DEFINE l == LoginOf(q)
      <3>1. /\ records' = records \cup {l} /\ admitted' = [admitted EXCEPT ![l] = @ + 1]
            /\ UNCHANGED <<ended, tokens>>
            /\ request[q].pc = "record"
        BY <2>5 DEF StoreRecord, Goes
      <3>2. l \in Logins /\ admitted[l] = 0
        BY <3>1 DEF LoginInv, ExchangeInv, InExchange
      <3>3. admitted'[l] = 1 /\ \A m \in Logins : m # l => admitted'[m] = admitted[m]
        BY <3>1, <3>2, Types
      <3>4. l \notin ended /\ ended \subseteq Logins
        BY <3>2, Types DEF SignedInv
      <3>5. \A m \in 0 .. MaxLogins : m # 0 => m \in Logins
        BY SessionAssumption DEF Logins
      <3>6. /\ refreshCookie \in 0 .. MaxLogins
            /\ \A p \in Requests : request[p].login \in 0 .. MaxLogins
        BY Types, RequestParts
      <3>7. \A m \in ended' : m \notin records' /\ admitted'[m] = 1
        BY <3>1, <3>3, <3>4 DEF SignedInv
      <3>8. refreshCookie' # 0 => admitted'[refreshCookie'] = 1
        BY <1>0, <2>1, <3>3, <3>5, <3>6
      <3>9. \A p \in Requests : /\ SignedIn(request'[p]) /\ request'[p].login # 0 =>
                                     admitted'[request'[p].login] = 1
                                /\ request'[p].pc = "forget" => request'[p].login # 0
        BY <1>0, <2>3, <2>4, <3>3, <3>5, <3>6
      <3>10. EndedStaysEnded'
        BY <3>1 DEF SignedInv, EndedStaysEnded
      <3> QED  BY <3>7, <3>8, <3>9, <3>10 DEF SignedInv, SignedIn, LoginOf
    <2>6. CASE Forget(q)
      <3> DEFINE l == LoginOf(q)
      <3>1. /\ request[q].pc = "forget" /\ records' = records \ {l} /\ ended' = ended \cup {l}
            /\ UNCHANGED <<admitted, tokens>>
        BY <2>6 DEF Forget, Goes
      <3>2. l # 0 /\ admitted[l] = 1
        BY <1>0, <3>1 DEF SignedIn, LoginOf
      <3>3. \A m \in ended' : m \notin records' /\ admitted'[m] = 1
        BY <3>1, <3>2 DEF SignedInv
      <3>4. refreshCookie' # 0 => admitted'[refreshCookie'] = 1
        BY <1>0, <2>1, <3>1
      <3>5. ~StoreRecord(q)
        BY <3>1 DEF StoreRecord, Goes
      <3>6. \A p \in Requests : /\ SignedIn(request'[p]) /\ request'[p].login # 0 =>
                                     admitted'[request'[p].login] = 1
                                /\ request'[p].pc = "forget" => request'[p].login # 0
        BY <1>0, <2>3, <2>4, <3>1, <3>5 DEF LoginOf
      <3>7. EndedStaysEnded'
        BY <3>1 DEF SignedInv, EndedStaysEnded
      <3> QED  BY <3>3, <3>4, <3>6, <3>7 DEF SignedInv, SignedIn, LoginOf
    <2>7. CASE Refresh(q)
      <3>1. UNCHANGED <<admitted, ended>> /\ records' \subseteq records
        BY <2>7 DEF Refresh, history
      <3>2. EndedStaysEnded'
        <4>1. CASE UNCHANGED tokens
          BY <4>1 DEF SignedInv, EndedStaysEnded
        <4>2. CASE /\ LoginOf(q) \in records
                   /\ tokens' = Append(tokens, [exp |-> now + AccessLife,
                                                late |-> LoginOf(q) \in ended])
          <5>1. LoginOf(q) \notin ended
            BY <4>2 DEF SignedInv
          <5>2. /\ Len(tokens') = Len(tokens) + 1 /\ Len(tokens) \in Nat
                /\ \A k \in 1 .. Len(tokens) : tokens'[k] = tokens[k]
                /\ tokens'[Len(tokens) + 1] = [exp |-> now + AccessLife,
                                               late |-> LoginOf(q) \in ended]
            BY <4>2, Types
          <5>3. tokens'[Len(tokens) + 1].late = (LoginOf(q) \in ended)
            BY <5>2
          <5>4. \A k \in 1 .. Len(tokens') : k \in 1 .. Len(tokens) \/ k = Len(tokens) + 1
            BY <5>2
          <5> QED  BY <5>1, <5>2, <5>3, <5>4 DEF SignedInv, EndedStaysEnded
        <4> QED  BY <2>7, <4>1, <4>2 DEF Refresh, Finds
      <3>3. ~StoreRecord(q)
        BY <2>7 DEF StoreRecord, Refresh, Goes
      <3>4. \A p \in Requests : /\ SignedIn(request'[p]) /\ request'[p].login # 0 =>
                                     admitted'[request'[p].login] = 1
                                /\ request'[p].pc = "forget" => request'[p].login # 0
        BY <1>0, <2>3, <2>4, <3>1, <3>3 DEF LoginOf
      <3> QED  BY <1>0, <2>1, <3>1, <3>2, <3>4 DEF SignedInv, SignedIn, LoginOf
    <2>8. CASE ~(StoreRecord(q) \/ Forget(q) \/ Refresh(q))
      <3>1. UNCHANGED <<records, tokens, admitted, ended>>
        BY <1>6, <2>8
        DEF Handler, Cut, ConsumeState, AskGitHub, StoreGitHubToken, StoreCode, TakeCode,
            Authorize, Revoke, store, history
      <3> QED  BY <1>0, <2>1, <2>3, <2>4, <2>8, <3>1, SignedStay DEF LoginOf
    <2> QED  BY <2>5, <2>6, <2>7, <2>8
  <1> QED  BY <1>1, <1>2, <1>3, <1>4, <1>5, <1>6, StepKinds

(* A token that is revoked has been issued, and expires no later than one  *)
(* issued now would, which is when its entry does.                         *)
LEMMA TokenStep ==
    ASSUME TypeOK, TokenInv, [Next]_vars
    PROVE  TokenInv'
  <1>0. /\ Len(tokens) \in Nat /\ now \in Nat /\ AccessLife \in Nat
        /\ tab \in [Tabs -> TabType]
        /\ \A k \in 1 .. Len(tokens) : tokens[k].exp \in Nat
        /\ \A k \in TokenIds : revoked[k] \in Nat
        /\ \A q \in Requests : request[q].token \in Nat
        /\ \A t \in Tabs : tab[t].token \in Nat
    <2>1. /\ tokens \in Seq(TokenType) /\ request \in [Requests -> RequestType]
          /\ tab \in [Tabs -> TabType] /\ revoked \in [TokenIds -> Nat] /\ now \in 0 .. MaxTime
      BY Types
    <2>2. \A k \in 1 .. Len(tokens) : tokens[k] \in TokenType
      BY <2>1
    <2> QED  BY <2>1, <2>2, SessionAssumption DEF TokenType, RequestType, TabType
  <1>1. CASE UNCHANGED vars
    BY <1>1 DEF TokenInv, vars, store
  <1>2. CASE Tick
    BY <1>0, <1>2 DEF TokenInv, Tick, store
  <1>3. ASSUME NEW t \in Tabs, Alone(t)
        PROVE  TokenInv'
    <2>1. /\ UNCHANGED <<now, revoked, tokens, request>>
          /\ \A s \in Tabs : tab'[s].token \in {0, tab[s].token}
      BY <1>3, AloneMoves
    <2> QED  BY <1>0, <2>1 DEF TokenInv
  <1>4. ASSUME NEW t \in Tabs, Asks(t)
        PROVE  TokenInv'
    <2>1. UNCHANGED <<now, revoked, tokens>>
      BY <1>4, AskMoves DEF store
    <2>2. PICK q \in Requests, r \in RequestType :
            /\ request' = [request EXCEPT ![q] = r]
            /\ tab' = [tab EXCEPT ![t].waits = q]
            /\ r.token \in {0, tab[t].token}
      BY <1>4, AskMoves
    <2>3. \A p \in Requests : request'[p] = IF p = q THEN r ELSE request[p]
      BY <2>2, OneMoves
    <2>4. \A s \in Tabs : tab'[s].token = tab[s].token
      BY <1>0, <2>2 DEF TabType
    <2> QED  BY <1>0, <2>1, <2>2, <2>3, <2>4 DEF TokenInv
  <1>5. ASSUME NEW q \in Requests, Answer(q)
        PROVE  TokenInv'
    <2>1. /\ UNCHANGED <<now, revoked, tokens>>
          /\ \A t \in Tabs : tab'[t].token \in {0, tab[t].token, request[q].token}
      BY <1>5, AnswerMoves DEF store
    <2>2. Idle \in RequestType /\ Idle.token = 0
      BY MadeType, SessionAssumption DEF Steps, Replies, Idle
    <2>3. \A p \in Requests : request'[p] = IF p = q THEN Idle ELSE request[p]
      BY <1>5, <2>2, AnswerMoves, OneMoves
    <2> QED  BY <1>0, <2>1, <2>2, <2>3 DEF TokenInv
  <1>6. ASSUME NEW q \in Requests, Handler(q) \/ Cut(q)
        PROVE  TokenInv'
    <2>1. UNCHANGED <<now, tab>>
      BY <1>6, HandlerMoves
    <2>2. PICK r \in RequestType : MovedBy(q, r)
      BY <1>6, HandlerMoves
    <2>3. \A p \in Requests : request'[p] = IF p = q THEN r ELSE request[p]
      BY <2>2, OneMoves DEF MovedBy
    <2>4. r.token = 0 \/ r.token = request[q].token \/ (Refresh(q) /\ r.token = Len(tokens'))
      BY <2>2 DEF MovedBy
    <2>5. CASE Refresh(q)
      <3>1. UNCHANGED revoked
        BY <2>5 DEF Refresh
      <3>2. CASE UNCHANGED tokens
        BY <1>0, <2>1, <2>3, <2>4, <3>1, <3>2 DEF TokenInv
      <3>3. CASE tokens' = Append(tokens, [exp |-> now + AccessLife,
                                           late |-> LoginOf(q) \in ended])
        <4>1. /\ Len(tokens') = Len(tokens) + 1
              /\ \A k \in 1 .. Len(tokens) : tokens'[k] = tokens[k]
              /\ tokens'[Len(tokens) + 1] = [exp |-> now + AccessLife,
                                             late |-> LoginOf(q) \in ended]
          BY <3>3, Types
        <4>2. tokens'[Len(tokens) + 1].exp = now + AccessLife
          BY <4>1
        <4>3. \A k \in 1 .. Len(tokens') : k \in 1 .. Len(tokens) \/ k = Len(tokens) + 1
          BY <1>0, <4>1
        <4>4. \A k \in 1 .. Len(tokens') : tokens'[k].exp <= now' + AccessLife
          BY <1>0, <2>1, <4>1, <4>2, <4>3 DEF TokenInv
        <4>5. \A k \in TokenIds : revoked'[k] # 0 =>
                  k <= Len(tokens') /\ tokens'[k].exp <= revoked'[k]
          <5> TAKE k \in TokenIds
          <5> HAVE revoked'[k] # 0
          <5>1. k <= Len(tokens) /\ tokens[k].exp <= revoked[k]
            BY <3>1 DEF TokenInv
          <5>2. k \in 1 .. Len(tokens)
            BY <1>0, <5>1 DEF TokenIds
          <5> QED  BY <1>0, <3>1, <4>1, <5>1, <5>2
        <4>6. /\ \A t \in Tabs : tab'[t].token <= Len(tokens')
              /\ \A p \in Requests : request'[p].token <= Len(tokens')
          BY <1>0, <2>1, <2>3, <2>4, <4>1 DEF TokenInv
        <4> QED  BY <4>4, <4>5, <4>6 DEF TokenInv
      <3> QED  BY <2>5, <3>2, <3>3 DEF Refresh
    <2>6. CASE Revoke(q)
      <3> DEFINE j == request[q].token
      <3>1. /\ revoked' = [revoked EXCEPT ![j] = now + AccessLife]
            /\ UNCHANGED tokens
        BY <2>6 DEF Revoke
      <3>2. ~Refresh(q)
        BY <2>6 DEF Revoke, Refresh, Goes
      <3>3. \A k \in TokenIds : revoked'[k] = IF k = j THEN now + AccessLife ELSE revoked[k]
        BY <3>1, Types
      <3>4. \A k \in TokenIds : revoked'[k] # 0 =>
                k <= Len(tokens') /\ tokens'[k].exp <= revoked'[k]
        <4> TAKE k \in TokenIds
        <4>1. CASE k = j
          <5>1. k \in 1 .. Len(tokens)
            BY <1>0, <4>1 DEF TokenInv, TokenIds
          <5> QED  BY <1>0, <3>1, <3>3, <4>1, <5>1 DEF TokenInv
        <4>2. CASE k # j
          BY <3>1, <3>3, <4>2 DEF TokenInv
        <4> QED  BY <4>1, <4>2
      <3> QED  BY <1>0, <2>1, <2>3, <2>4, <3>1, <3>2, <3>4 DEF TokenInv
    <2>7. CASE ~(Refresh(q) \/ Revoke(q))
      <3>1. UNCHANGED <<tokens, revoked>>
        BY <1>6, <2>7
        DEF Handler, Cut, ConsumeState, AskGitHub, StoreGitHubToken, StoreCode, TakeCode,
            StoreRecord, Authorize, Forget, store
      <3> QED  BY <1>0, <2>1, <2>3, <2>4, <2>7, <3>1 DEF TokenInv
    <2> QED  BY <2>5, <2>6, <2>7
  <1> QED  BY <1>1, <1>2, <1>3, <1>4, <1>5, <1>6, StepKinds

(* Nothing makes github "none" again once a code is under way.              *)
LEMMA GitHubStep ==
    ASSUME TypeOK, LoginInv, GitHubInv, [Next]_vars
    PROVE  GitHubInv'
  <1>1. CASE UNCHANGED vars
    BY <1>1 DEF GitHubInv, SessionHasGitHub, vars, store
  <1>2. CASE Tick
    BY <1>2 DEF GitHubInv, SessionHasGitHub, Tick, store
  <1>3. ASSUME NEW t \in Tabs, Alone(t)
        PROVE  GitHubInv'
    <2>1. UNCHANGED <<codes, records, request>> /\ (github' = "none" => github = "none")
      BY <1>3, AloneMoves
    <2> QED  BY <2>1 DEF GitHubInv, SessionHasGitHub
  <1>4. ASSUME NEW t \in Tabs, Asks(t)
        PROVE  GitHubInv'
    <2>1. UNCHANGED <<codes, records, github>>
      BY <1>4, AskMoves DEF store
    <2>2. PICK q \in Requests, r \in RequestType :
            /\ request' = [request EXCEPT ![q] = r]
            /\ r.pc \notin {"code", "record"}
      BY <1>4, AskMoves DEF PreCode
    <2>3. \A p \in Requests : request'[p] = IF p = q THEN r ELSE request[p]
      BY <2>2, OneMoves
    <2> QED  BY <2>1, <2>2, <2>3 DEF GitHubInv, SessionHasGitHub
  <1>5. ASSUME NEW q \in Requests, Answer(q)
        PROVE  GitHubInv'
    <2>1. UNCHANGED <<codes, records, github>>
      BY <1>5, AnswerMoves DEF store
    <2>2. Idle \in RequestType /\ Idle.pc = "idle"
      BY MadeType, SessionAssumption DEF Steps, Replies, Idle
    <2>3. \A p \in Requests : request'[p] = IF p = q THEN Idle ELSE request[p]
      BY <1>5, <2>2, AnswerMoves, OneMoves
    <2> QED  BY <2>1, <2>2, <2>3 DEF GitHubInv, SessionHasGitHub
  <1>6. ASSUME NEW q \in Requests, Handler(q) \/ Cut(q)
        PROVE  GitHubInv'
    <2>1. PICK r \in RequestType : MovedBy(q, r)
      BY <1>6, HandlerMoves
    <2>2. \A p \in Requests : request'[p] = IF p = q THEN r ELSE request[p]
      BY <2>1, OneMoves DEF MovedBy
    <2>3. CASE StoreGitHubToken(q)
      BY <2>2, <2>3 DEF StoreGitHubToken, GitHubInv, SessionHasGitHub
    <2>4. CASE ~StoreGitHubToken(q)
      <3>1. UNCHANGED github
        BY <1>6, <2>4
        DEF Handler, Cut, ConsumeState, AskGitHub, StoreCode, TakeCode, StoreRecord, Refresh,
            Authorize, Revoke, Forget, store
      <3>2. r.pc # "code" /\ (r.pc = "record" => TakeCode(q))
        BY <2>1, <2>4 DEF MovedBy
      <3>3. r.pc = "record" => github # "none"
        <4> SUFFICES ASSUME r.pc = "record" PROVE github # "none"
          OBVIOUS
        <4>1. CASE codes = {}
          <5>1. request' = [request EXCEPT ![q] = Refused]
            BY <3>2, <4>1 DEF TakeCode, Finds, Goes
          <5>2. request'[q] = Refused /\ Refused.pc = "answer"
            BY <5>1 DEF TypeOK, Refused, Idle
          <5> QED  BY <2>2, <5>2
        <4>2. CASE codes # {}
          BY <4>2 DEF GitHubInv, SessionHasGitHub
        <4> QED  BY <4>1, <4>2
      <3>4. codes' \cup records' # {} =>
                codes \cup records # {} \/ request[q].pc \in {"code", "record"}
        BY <1>6, <2>4
        DEF Handler, Cut, ConsumeState, AskGitHub, StoreCode, TakeCode, StoreRecord, Refresh,
            Authorize, Revoke, Forget, store, Goes
      <3> QED  BY <2>2, <3>1, <3>2, <3>3, <3>4 DEF GitHubInv, SessionHasGitHub
    <2> QED  BY <2>3, <2>4
  <1> QED  BY <1>1, <1>2, <1>3, <1>4, <1>5, <1>6, StepKinds

-----------------------------------------------------------------------------
(* The results.                                                            *)

(* At first nothing is under way.                                          *)
LEMMA InitInv == Init => Inv
  <1> SUFFICES ASSUME Init PROVE Inv
    OBVIOUS
  <1>1. Idle \in RequestType /\ NewTab \in TabType
    BY SessionAssumption DEF Idle, NewTab, RequestType, TabType, Steps, Replies, Pages
  <1>2. /\ Idle.pc = "idle" /\ Idle.reply = "none" /\ Idle.token = 0 /\ NewTab.token = 0
        /\ \A q \in Requests : request[q] = Idle
        /\ \A t \in Tabs : tab[t] = NewTab
    BY DEF Init, Idle, NewTab
  <1>3. tokens = <<>> /\ tokens \in Seq(TokenType) /\ Len(tokens) = 0
    BY DEF Init
  <1>4. TypeOK
    BY <1>1, <1>3, SessionAssumption DEF Init, TypeOK, TabType, RequestType, TokenType
  <1>5. LoginInv
    BY <1>2, SessionAssumption
    DEF Init, LoginInv, CallbackInv, ExchangeInv, CountInv, InCallback, InExchange, PreCode,
        Logins
  <1>6. SignedInv
    BY <1>2, <1>3 DEF Init, SignedInv, SignedIn, EndedStaysEnded
  <1>7. TokenInv
    BY <1>2, <1>3 DEF Init, TokenInv
  <1>8. GitHubInv
    BY <1>2 DEF Init, GitHubInv, SessionHasGitHub
  <1> QED  BY <1>4, <1>5, <1>6, <1>7, <1>8 DEF Inv

(* The parts together are inductive.                                       *)
THEOREM Inductive == Spec => []Inv
  <1>1. Inv /\ [Next]_vars => Inv'
    BY TypeStep, LoginStep, SignedStep, TokenStep, GitHubStep DEF Inv
  <1> QED  BY InitInv, <1>1, PTL DEF Spec

(* Every variable has its type: no record or code is made for login 0.     *)
THEOREM TypeCorrect == Spec => []TypeOK
  <1>1. Inv => TypeOK
    BY DEF Inv
  <1> QED  BY <1>1, Inductive, PTL

(* A login gives one code at most, and a code one session: the state and   *)
(* the code are taken by GETDEL, so that no two requests hold either.      *)
THEOREM OneSession == Spec => []OneSessionPerLogin
  <1>1. Inv => OneSessionPerLogin
    BY DEF Inv, LoginInv, CountInv, OneSessionPerLogin
  <1> QED  BY <1>1, Inductive, PTL

(* The entry that logout leaves on the blacklist outlives the token.       *)
THEOREM RevokedRefused == Spec => []RevokedStaysRefused
  <1>1. Inv => RevokedStaysRefused
    <2> SUFFICES ASSUME Inv, NEW k \in 1 .. Len(tokens), revoked[k] # 0, now < tokens[k].exp
                 PROVE  ~Accepted(k)
      BY DEF RevokedStaysRefused
    <2>1. /\ now \in Nat /\ Len(tokens) \in Nat /\ Len(tokens) <= MaxTokens /\ MaxTokens \in Nat
          /\ revoked \in [TokenIds -> Nat] /\ tokens[k] \in TokenType
      BY Types, SessionAssumption DEF Inv
    <2>2. k \in TokenIds
      BY <2>1 DEF TokenIds
    <2>3. tokens[k].exp <= revoked[k] /\ revoked[k] \in Nat /\ tokens[k].exp \in Nat
      BY <2>1, <2>2 DEF Inv, TokenInv, TokenType
    <2> QED  BY <2>1, <2>3 DEF Accepted, Blacklisted
  <1> QED  BY <1>1, Inductive, PTL

(* A refresh token a logout has deleted is not written again, and no       *)
(* access token is issued for it.                                          *)
THEOREM EndedForGood == Spec => []EndedStaysEnded
  <1>1. Inv => EndedStaysEnded
    BY DEF Inv, SignedInv
  <1> QED  BY <1>1, Inductive, PTL

(* The GitHub token is stored before the code that admits its owner.       *)
THEOREM GitHubFirst == Spec => []SessionHasGitHub
  <1>1. Inv => SessionHasGitHub
    BY DEF Inv, GitHubInv
  <1> QED  BY <1>1, Inductive, PTL

=============================================================================
