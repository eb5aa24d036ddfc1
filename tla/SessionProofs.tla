--------------------------- MODULE SessionProofs ---------------------------
(***************************************************************************)
(* What holds of Session for every set of clients, passwords, challenges   *)
(* and tokens, and every attempt budget.                                   *)
(***************************************************************************)
EXTENDS Session, FiniteSetTheorems, TLAPS

USE NoneAssumption, MessageAssumption, RetriesAssumption, LateAssumption, ReportedAssumption

\* The strengthening that makes the properties inductive: what the client is
\* blocked in tells what is on the wire and which arguments are at hand, and the
\* _authenticated flag never outlives the cookie.
ExchangeInv ==
    \A c \in Clients :
        /\ pc[c] \in {"get_retrytimes_and_time", "get_rand", "login"}
               => password[c] # None
        /\ pc[c] = "set_info" => newPassword[c] # None
        /\ pc[c] = "idle" => sent[c] = None /\ got[c] = None
        /\ sent[c] # None
               => sent[c].client = c /\ sent[c].method = pc[c] /\ got[c] = None

RouterInv == locked <=> retries = 0

SessionInv ==
    /\ \A c \in Clients : authenticated[c] => cookie[c] # None
    /\ CallsCarrySession

IInv == TypeOK /\ ExchangeInv /\ RouterInv /\ SessionInv

---------------------------------------------------------------------------
(* Types                                                                   *)

LEMMA EndTypes ==
    ASSUME TypeOK, NEW c \in Clients, NEW result \in Outcomes,
           NEW jar \in Tokens \cup {None}, NEW auth \in BOOLEAN,
           End(c, result, jar, auth)
    PROVE  /\ pc' \in [Clients -> Methods \cup {"idle"}]
           /\ outcome' \in [Clients -> Outcomes]
           /\ cookie' \in [Clients -> Tokens \cup {None}]
           /\ authenticated' \in [Clients -> BOOLEAN]
           /\ newPassword' \in [Clients -> Passwords \cup {None}]
  BY DEF End, TypeOK

LEMMA SendTypes ==
    ASSUME TypeOK, NEW c \in Clients, NEW method \in Methods,
           NEW jar \in Tokens \cup {None},
           NEW secret \in Digests \cup Passwords \cup {None},
           method = "set_info" => secret \in Passwords,
           Send(c, method, jar, secret)
    PROVE  /\ sent' \in [Clients -> Request \cup {None}]
           /\ pc' \in [Clients -> Methods \cup {"idle"}]
  BY DEF Send, TypeOK, Request

LEMMA PendingTypes ==
    ASSUME TypeOK
    PROVE  /\ Pending \subseteq Request
           /\ \A r \in Pending : r.client \in Clients
  BY DEF Pending, TypeOK, Request

LEMMA ServedTypes ==
    ASSUME TypeOK, NEW r \in Pending, NEW answer \in Answer, Served(r, answer)
    PROVE  /\ sent' \in [Clients -> Request \cup {None}]
           /\ got' \in [Clients -> Answer \cup {None}]
           /\ late' \subseteq Request
  BY PendingTypes DEF Served, TypeOK

LEMMA SaysTypes ==
    ASSUME NEW n \in Results, NEW times \in (0 .. MaxRetries) \cup {None},
           NEW remain \in {0, 1}, NEW rand \in Rands \cup {None},
           NEW token \in Tokens \cup {None}
    PROVE  Says(n, times, remain, rand, token) \in Answer
  BY DEF Says, Answer

LEMMA JarTypes ==
    ASSUME TypeOK, NEW c \in Clients, got[c] # None
    PROVE  /\ got[c] \in Answer
           /\ Jar(c) \in Tokens \cup {None}
           /\ cookie[c] \in Tokens \cup {None}
           /\ authenticated[c] \in BOOLEAN
  BY DEF TypeOK, Jar, Answer

\* Initially every variable has its type.
LEMMA TypeInit == Init => TypeOK
<1>. SUFFICES ASSUME Init PROVE TypeOK
  OBVIOUS
<1>0. retries \in 0 .. MaxRetries
  BY DEF Init
<1>1. /\ locked \in BOOLEAN
      /\ adminPassword \in Passwords
      /\ late \subseteq Request
      /\ sessions \subseteq Tokens
  BY DEF Init
<1>2. /\ password \in [Clients -> Passwords \cup {None}]
      /\ authenticated \in [Clients -> BOOLEAN]
      /\ cookie \in [Clients -> Tokens \cup {None}]
      /\ pc \in [Clients -> Methods \cup {"idle"}]
      /\ newPassword \in [Clients -> Passwords \cup {None}]
      /\ outcome \in [Clients -> Outcomes]
  BY DEF Init, Outcomes
<1>3. /\ sent \in [Clients -> Request \cup {None}]
      /\ got \in [Clients -> Answer \cup {None}]
      /\ challenge \in [Clients -> Rands \cup {None}]
  BY DEF Init
<1>. QED
  BY <1>0, <1>1, <1>2, <1>3 DEF TypeOK

\* The steps of a client keep the types.
LEMMA TypeClient ==
    ASSUME TypeOK, ExchangeInv, NEW c \in Clients, Caller(c) \/ Progress(c)
    PROVE  TypeOK'
<1>. USE DEF Methods, Outcomes
<1>1. CASE login(c)
  BY <1>1, SendTypes DEF login, StartLogin, TypeOK, network_vars, router_vars
<1>2. CASE \/ login_no_password(c) \/ logout_nothing(c) \/ call_refused(c)
           \/ set_password_no_session(c)
  BY <1>2 DEF login_no_password, logout_nothing, call_refused,
              set_password_no_session, Refuse, TypeOK, network_vars, router_vars
<1>3. CASE logout(c) \/ call(c)
  <2>1. cookie[c] \in Tokens \cup {None}
    BY DEF TypeOK
  <2>. QED
    BY <1>3, <2>1, SendTypes DEF logout, call, TypeOK, router_vars
<1>4. CASE \E pw \in Passwords : set_password(c, pw)
  <2>1. cookie[c] \in Tokens \cup {None}
    BY DEF TypeOK
  <2>. QED
    BY <1>4, <2>1, SendTypes DEF set_password, TypeOK, router_vars
<1>5. CASE retry_times_answered(c)
  <2>1. cookie[c] \in Tokens \cup {None} /\ Jar(c) \in Tokens \cup {None}
    BY <1>5, JarTypes DEF retry_times_answered
  <2>2. CASE AttemptAllowed(got[c])
    BY <1>5, <2>1, <2>2, SendTypes
       DEF retry_times_answered, Taken, TypeOK, router_vars
  <2>3. CASE ~AttemptAllowed(got[c])
    BY <1>5, <2>1, <2>3, EndTypes
       DEF retry_times_answered, Taken, TypeOK, router_vars
  <2>. QED
    BY <2>2, <2>3
<1>6. CASE rand_answered(c)
  <2>1. cookie[c] \in Tokens \cup {None} /\ Jar(c) \in Tokens \cup {None}
    BY <1>6, JarTypes DEF rand_answered
  <2>2. CASE got[c].result = 0 /\ got[c].rand # None
    <3>1. challenge_response(got[c].rand, password[c])
              \in Digests \cup Passwords \cup {None}
      <4>1. password[c] \in Passwords
        BY <1>6 DEF rand_answered, ExchangeInv, TypeOK
      <4>2. got[c].rand \in Rands
        BY <1>6, <2>2, JarTypes DEF rand_answered, Answer
      <4>. QED
        BY <4>1, <4>2 DEF challenge_response, Digests
    <3>. QED
      BY <1>6, <2>1, <2>2, <3>1, SendTypes
         DEF rand_answered, Taken, TypeOK, router_vars
  <2>3. CASE ~(got[c].result = 0 /\ got[c].rand # None)
    BY <1>6, <2>1, <2>3, EndTypes
       DEF rand_answered, Taken, TypeOK, router_vars
  <2>. QED
    BY <2>2, <2>3
<1>7. CASE login_answered(c)
  BY <1>7, EndTypes, JarTypes DEF login_answered, Taken, TypeOK, router_vars
<1>8. CASE set_info_refused(c)
  <2>1. Jar(c) \in Tokens \cup {None} /\ authenticated[c] \in BOOLEAN
    BY <1>8, JarTypes DEF set_info_refused
  <2>. QED
    BY <1>8, <2>1, EndTypes DEF set_info_refused, Taken, TypeOK, router_vars
<1>9. CASE set_info_adopted(c)
  <2>1. Jar(c) \in Tokens \cup {None} /\ authenticated[c] \in BOOLEAN
    BY <1>9, JarTypes DEF set_info_adopted
  <2>2. password' \in [Clients -> Passwords \cup {None}]
    BY <1>9 DEF set_info_adopted, TypeOK
  <2>3. got' \in [Clients -> Answer \cup {None}] /\ late' \subseteq Request
    BY <1>9 DEF set_info_adopted, Taken, TypeOK
  <2>4. CASE /\ StartLogin(c)
             /\ newPassword' = [newPassword EXCEPT ![c] = None]
             /\ UNCHANGED outcome
    <3>1. /\ sent' \in [Clients -> Request \cup {None}]
          /\ pc' \in [Clients -> Methods \cup {"idle"}]
      BY <2>4, SendTypes DEF StartLogin
    <3>2. /\ cookie' \in [Clients -> Tokens \cup {None}]
          /\ authenticated' \in [Clients -> BOOLEAN]
          /\ newPassword' \in [Clients -> Passwords \cup {None}]
          /\ outcome' \in [Clients -> Outcomes]
      BY <2>4 DEF StartLogin, TypeOK
    <3>. QED
      BY <1>9, <2>2, <2>3, <3>1, <3>2 DEF set_info_adopted, TypeOK, router_vars
  <2>5. CASE End(c, "returned", Jar(c), authenticated[c]) /\ UNCHANGED sent
    BY <1>9, <2>1, <2>2, <2>3, <2>5, EndTypes
       DEF set_info_adopted, TypeOK, router_vars
  <2>. QED
    BY <1>9, <2>4, <2>5 DEF set_info_adopted
<1>10. CASE other_answered(c) \/ undecodable(c)
  <2>1. /\ Jar(c) \in Tokens \cup {None} /\ authenticated[c] \in BOOLEAN
        /\ got[c] # None
    BY <1>10, JarTypes DEF other_answered, undecodable
  <2>. QED
    <3>1. PICK result \in Outcomes : End(c, result, Jar(c), authenticated[c])
      BY <1>10 DEF other_answered, undecodable
    <3>2. got' \in [Clients -> Answer \cup {None}] /\ late' \subseteq Request
      BY <1>10 DEF other_answered, undecodable, Taken, TypeOK
    <3>. QED
      BY <1>10, <2>1, <3>1, <3>2, EndTypes
         DEF other_answered, undecodable, TypeOK, router_vars
<1>11. CASE gives_up(c)
  BY <1>11, EndTypes DEF gives_up, TypeOK, router_vars
<1>. QED
  BY <1>1, <1>2, <1>3, <1>4, <1>5, <1>6, <1>7, <1>8, <1>9, <1>10, <1>11
     DEF Caller, Progress

\* The steps of the router keep the types.
LEMMA TypeRouter ==
    ASSUME TypeOK, RouterInv, NEW r \in Pending, Router(r)
    PROVE  TypeOK'
<1>. USE DEF Result, Results
<1>1. r \in Request /\ r.client \in Clients
  BY PendingTypes
<1>2. CASE serve_retry_times(r)
  <2>1. /\ (IF Reported THEN retries ELSE None) \in (0 .. MaxRetries) \cup {None}
        /\ (IF locked THEN 1 ELSE 0) \in {0, 1}
    BY DEF TypeOK
  <2>2. /\ Says(0, IF Reported THEN retries ELSE None,
                IF locked THEN 1 ELSE 0, None, None) \in Answer
        /\ Result(4) \in Answer
    BY <2>1, SaysTypes
  <2>. QED
    BY <1>2, <2>2, ServedTypes
       DEF serve_retry_times, Served, TypeOK, client_vars, router_vars
<1>3. CASE serve_rand(r)
  <2>1. /\ \A rand \in Rands : Says(0, None, 0, rand, None) \in Answer
        /\ \A n \in {0, 4} : Result(n) \in Answer
    BY SaysTypes
  <2>. QED
    BY <1>1, <1>3, <2>1, ServedTypes DEF serve_rand, Served, TypeOK, client_vars
<1>4. CASE serve_login(r)
  <2>1. FreshTokens \subseteq Tokens
    BY DEF FreshTokens
  <2>2. \A set \in Tokens \cup {None} : Says(3, None, 0, None, set) \in Answer
    BY SaysTypes
  <2>. QED
    BY <1>4, <2>1, <2>2, ServedTypes DEF serve_login, Served, TypeOK, client_vars
<1>5. CASE serve_login_wrong(r)
  <2>1. Result(0) \in Answer
    BY SaysTypes
  <2>2. retries' \in 0 .. MaxRetries
    BY <1>5 DEF serve_login_wrong, RouterInv, TypeOK
  <2>. QED
    BY <1>5, <2>1, <2>2, ServedTypes
       DEF serve_login_wrong, Served, TypeOK, client_vars
<1>6. CASE serve_login_locked(r) \/ serve_logout(r) \/ serve_read(r)
  <2>1. \A n \in {0, 1, 6} : Result(n) \in Answer
    BY SaysTypes
  <2>. QED
    BY <1>6, <2>1, ServedTypes
       DEF serve_login_locked, serve_logout, serve_read, Served, TypeOK,
           client_vars, router_vars
<1>7. CASE serve_set_info(r)
  <2>1. \A n \in {0, 1} : Result(n) \in Answer
    BY SaysTypes
  <2>. QED
    BY <1>1, <1>7, <2>1, ServedTypes
       DEF serve_set_info, Served, TypeOK, client_vars, Request
<1>. QED
  BY <1>2, <1>3, <1>4, <1>5, <1>6, <1>7 DEF Router

---------------------------------------------------------------------------
(* The exchange a client is blocked in                                     *)

LEMMA ExchangeSend ==
    ASSUME TypeOK, ExchangeInv, NEW c \in Clients, NEW method \in Methods,
           NEW jar, NEW secret, Send(c, method, jar, secret),
           got' = [got EXCEPT ![c] = None],
           \A d \in Clients : password'[d] # None \/ password'[d] = password[d],
           \A d \in Clients \ {c} : newPassword'[d] = newPassword[d],
           method \in {"get_retrytimes_and_time", "get_rand", "login"}
               => password'[c] # None,
           method = "set_info" => newPassword'[c] # None
    PROVE  ExchangeInv'
  BY DEF Send, ExchangeInv, TypeOK, Methods

LEMMA ExchangeEnd ==
    ASSUME TypeOK, ExchangeInv, NEW c \in Clients, NEW result, NEW jar, NEW auth,
           End(c, result, jar, auth),
           got' = [got EXCEPT ![c] = None],
           sent' = [sent EXCEPT ![c] = None],
           \A d \in Clients \ {c} : password'[d] = password[d]
    PROVE  ExchangeInv'
  BY DEF End, ExchangeInv, TypeOK

\* A client waits for one thing at a time: while it has an answer, nothing of
\* it is unserved, and while it is idle it has no answer either.
LEMMA NothingElse ==
    ASSUME TypeOK, ExchangeInv, NEW c \in Clients
    PROVE  /\ got[c] # None => sent = [sent EXCEPT ![c] = None]
           /\ pc[c] = "idle" => /\ sent = [sent EXCEPT ![c] = None]
                                /\ got = [got EXCEPT ![c] = None]
  BY DEF ExchangeInv, TypeOK

LEMMA ExchangeClient ==
    ASSUME TypeOK, ExchangeInv, NEW c \in Clients, Caller(c) \/ Progress(c)
    PROVE  ExchangeInv'
<1>. USE DEF Methods
<1>1. CASE login(c) \/ logout(c) \/ call(c)
  <2>1. got' = [got EXCEPT ![c] = None] /\ UNCHANGED <<password, newPassword>>
    BY <1>1, NothingElse DEF login, logout, call
  <2>2. \A d \in Clients : password'[d] # None \/ password'[d] = password[d]
    BY <2>1
  <2>3. CASE login(c)
    BY <2>1, <2>2, <2>3, ExchangeSend DEF login, StartLogin
  <2>4. CASE logout(c) \/ call(c)
    BY <2>1, <2>2, <2>4, ExchangeSend DEF logout, call
  <2>. QED
    BY <1>1, <2>3, <2>4
<1>2. CASE \/ login_no_password(c) \/ logout_nothing(c) \/ call_refused(c)
           \/ set_password_no_session(c)
  BY <1>2 DEF login_no_password, logout_nothing, call_refused,
              set_password_no_session, Refuse, ExchangeInv, network_vars
<1>3. ASSUME NEW pw \in Passwords, set_password(c, pw)
      PROVE  ExchangeInv'
  <2>1. got' = [got EXCEPT ![c] = None] /\ UNCHANGED password
    BY <1>3, NothingElse DEF set_password
  <2>2. newPassword'[c] # None /\ \A d \in Clients \ {c} : newPassword'[d] = newPassword[d]
    BY <1>3 DEF set_password, TypeOK
  <2>. QED
    BY <1>3, <2>1, <2>2, ExchangeSend DEF set_password
<1>4. CASE retry_times_answered(c) \/ rand_answered(c)
  <2>1. /\ got' = [got EXCEPT ![c] = None]
        /\ UNCHANGED password
        /\ sent = [sent EXCEPT ![c] = None]
        /\ password[c] # None
    BY <1>4, NothingElse
       DEF retry_times_answered, rand_answered, Taken, ExchangeInv
  <2>2. CASE \E result, jar, auth : End(c, result, jar, auth) /\ UNCHANGED sent
    BY <2>1, <2>2, ExchangeEnd
  <2>3. CASE \E secret : /\ \/ Send(c, "get_rand", cookie[c], secret)
                            \/ Send(c, "login", cookie[c], secret)
                         /\ UNCHANGED newPassword
    BY <2>1, <2>3, ExchangeSend
  <2>. QED
    BY <1>4, <2>2, <2>3 DEF retry_times_answered, rand_answered
<1>5. CASE \/ login_answered(c) \/ set_info_refused(c) \/ other_answered(c)
           \/ undecodable(c)
  <2>1. /\ got' = [got EXCEPT ![c] = None]
        /\ sent' = [sent EXCEPT ![c] = None]
        /\ UNCHANGED password
    BY <1>5, NothingElse
       DEF login_answered, set_info_refused, other_answered, undecodable, Taken
  <2>2. \E result, jar, auth : End(c, result, jar, auth)
    BY <1>5 DEF login_answered, set_info_refused, other_answered, undecodable
  <2>. QED
    BY <2>1, <2>2, ExchangeEnd
<1>6. CASE set_info_adopted(c)
  <2>1. /\ got' = [got EXCEPT ![c] = None]
        /\ sent = [sent EXCEPT ![c] = None]
        /\ password'[c] # None
        /\ \A d \in Clients \ {c} : password'[d] = password[d]
    BY <1>6, NothingElse DEF set_info_adopted, Taken, ExchangeInv, TypeOK
  <2>2. CASE /\ StartLogin(c)
             /\ newPassword' = [newPassword EXCEPT ![c] = None]
    <3>1. /\ Send(c, "get_retrytimes_and_time", None, None)
          /\ newPassword'[c] = None
          /\ \A d \in Clients \ {c} : newPassword'[d] = newPassword[d]
      BY <2>2 DEF StartLogin, TypeOK
    <3>. QED
      BY <2>1, <3>1, ExchangeSend
  <2>3. CASE End(c, "returned", Jar(c), authenticated[c]) /\ UNCHANGED sent
    BY <2>1, <2>3, ExchangeEnd
  <2>. QED
    BY <1>6, <2>2, <2>3 DEF set_info_adopted
<1>7. CASE gives_up(c)
  BY <1>7, ExchangeEnd DEF gives_up
<1>. QED
  BY <1>1, <1>2, <1>3, <1>4, <1>5, <1>6, <1>7 DEF Caller, Progress

LEMMA ExchangeRouter ==
    ASSUME TypeOK, ExchangeInv, NEW r \in Pending, Router(r)
    PROVE  ExchangeInv'
<1>1. PICK answer : Served(r, answer)
  BY DEF Router, serve_retry_times, serve_rand, serve_login, serve_login_wrong,
         serve_login_locked, serve_logout, serve_set_info, serve_read
<1>2. r.client \in Clients /\ r # None
  BY PendingTypes
<1>. QED
  BY <1>1, <1>2 DEF Served, ExchangeInv, TypeOK, client_vars

---------------------------------------------------------------------------
(* The session behind a call                                               *)

LEMMA SessionSend ==
    ASSUME TypeOK, SessionInv, NEW c \in Clients, NEW method \in Methods,
           NEW jar, NEW secret, Send(c, method, jar, secret),
           UNCHANGED late,
           method \in Guarded => jar # None,
           \A d \in Clients : authenticated'[d] => cookie'[d] # None
    PROVE  SessionInv'
<1>1. \A r \in Pending' : r \in Pending \/ r = sent'[c]
  BY DEF Pending, Send, TypeOK
<1>2. sent'[c].method = method /\ sent'[c].cookie = jar
  BY DEF Send, TypeOK
<1>. QED
  BY <1>1, <1>2 DEF SessionInv, CallsCarrySession

LEMMA SessionEnd ==
    ASSUME TypeOK, SessionInv, NEW c \in Clients, NEW result,
           NEW jar, NEW auth \in BOOLEAN, End(c, result, jar, auth),
           auth => jar # None,
           Pending' \subseteq Pending
    PROVE  SessionInv'
<1>1. ASSUME NEW d \in Clients PROVE authenticated'[d] => cookie'[d] # None
  BY DEF End, SessionInv, TypeOK
<1>. QED
  BY <1>1 DEF SessionInv, CallsCarrySession

LEMMA SessionClient ==
    ASSUME TypeOK, SessionInv, NEW c \in Clients, Caller(c) \/ Progress(c)
    PROVE  SessionInv'
<1>. USE DEF Methods
<1>1. CASE login(c)
  <2>1. \A d \in Clients : authenticated'[d] => cookie'[d] # None
    BY <1>1 DEF login, StartLogin, SessionInv, TypeOK
  <2>. QED
    BY <1>1, <2>1, SessionSend DEF login, StartLogin, Guarded
<1>2. CASE \/ login_no_password(c) \/ logout_nothing(c) \/ call_refused(c)
           \/ set_password_no_session(c)
  BY <1>2 DEF login_no_password, logout_nothing, call_refused,
              set_password_no_session, Refuse, network_vars,
              SessionInv, CallsCarrySession, Pending
<1>3. CASE logout(c) \/ call(c)
  <2>1. cookie[c] # None /\ UNCHANGED <<authenticated, cookie, late>>
    BY <1>3 DEF logout, call, MayCall, SessionInv
  <2>. QED
    BY <1>3, <2>1, SessionSend DEF logout, call, SessionInv
<1>4. CASE \E pw \in Passwords : set_password(c, pw)
  BY <1>4, SessionSend DEF set_password, SessionInv
<1>5. CASE retry_times_answered(c)
  <2>1. CASE AttemptAllowed(got[c])
    BY <1>5, <2>1, SessionSend DEF retry_times_answered, Taken, Guarded, SessionInv
  <2>2. CASE ~AttemptAllowed(got[c])
    BY <1>5, <2>2, SessionEnd DEF retry_times_answered, Taken, Pending
  <2>. QED
    BY <2>1, <2>2
<1>6. CASE rand_answered(c)
  <2>1. CASE got[c].result = 0 /\ got[c].rand # None
    BY <1>6, <2>1, SessionSend DEF rand_answered, Taken, Guarded, SessionInv
  <2>2. CASE ~(got[c].result = 0 /\ got[c].rand # None)
    BY <1>6, <2>2, SessionEnd DEF rand_answered, Taken, Pending
  <2>. QED
    BY <2>1, <2>2
<1>7. CASE \/ login_answered(c) \/ set_info_refused(c) \/ other_answered(c)
           \/ undecodable(c)
  <2>1. Pending' = Pending
    BY <1>7 DEF login_answered, set_info_refused, other_answered, undecodable,
                Taken, Pending
  <2>2. \E result : \E auth \in BOOLEAN :
            End(c, result, Jar(c), auth) /\ (auth => Jar(c) # None)
    BY <1>7, JarTypes DEF login_answered, set_info_refused, other_answered,
                undecodable, SessionInv, Jar
  <2>. QED
    BY <2>1, <2>2, SessionEnd
<1>8. CASE set_info_adopted(c)
  <2>1. CASE StartLogin(c)
    <3>1. \A d \in Clients : authenticated'[d] => cookie'[d] # None
      BY <2>1 DEF StartLogin, SessionInv, TypeOK
    <3>. QED
      BY <1>8, <2>1, <3>1, SessionSend
         DEF set_info_adopted, StartLogin, Taken, Guarded
  <2>2. CASE End(c, "returned", Jar(c), authenticated[c]) /\ UNCHANGED sent
    <3>1. Pending' = Pending
      BY <1>8, <2>2 DEF set_info_adopted, Taken, Pending
    <3>2. authenticated[c] \in BOOLEAN /\ (authenticated[c] => Jar(c) # None)
      BY <1>8 DEF TypeOK, SessionInv, Jar
    <3>. QED
      BY <2>2, <3>1, <3>2, SessionEnd
  <2>. QED
    BY <1>8, <2>1, <2>2 DEF set_info_adopted
<1>9. CASE gives_up(c)
  <2>1. Pending' \subseteq Pending
    BY <1>9 DEF gives_up, Pending, TypeOK
  <2>2. authenticated[c] \in BOOLEAN /\ (authenticated[c] => cookie[c] # None)
    BY DEF TypeOK, SessionInv
  <2>. QED
    BY <1>9, <2>1, <2>2, SessionEnd DEF gives_up
<1>. QED
  BY <1>1, <1>2, <1>3, <1>4, <1>5, <1>6, <1>7, <1>8, <1>9 DEF Caller, Progress

LEMMA SessionRouter ==
    ASSUME TypeOK, SessionInv, NEW r \in Pending, Router(r)
    PROVE  SessionInv'
<1>1. PICK answer : Served(r, answer)
  BY DEF Router, serve_retry_times, serve_rand, serve_login, serve_login_wrong,
         serve_login_locked, serve_logout, serve_set_info, serve_read
<1>2. Pending' \subseteq Pending
  BY <1>1, PendingTypes DEF Served, Pending, TypeOK
<1>. QED
  BY <1>1, <1>2 DEF Served, client_vars, SessionInv, CallsCarrySession

---------------------------------------------------------------------------
(* The inductive invariant                                                 *)

LEMMA InvInit == Init => IInv
<1>. SUFFICES ASSUME Init PROVE IInv
  OBVIOUS
<1>1. TypeOK
  BY TypeInit
<1>2. ExchangeInv
  BY DEF Init, ExchangeInv
<1>3. RouterInv
  BY DEF Init, RouterInv
<1>4. SessionInv
  BY DEF Init, SessionInv, CallsCarrySession, Pending
<1>. QED
  BY <1>1, <1>2, <1>3, <1>4 DEF IInv

LEMMA InvNext == IInv /\ [Next]_vars => IInv'
<1>. SUFFICES ASSUME IInv, [Next]_vars PROVE IInv'
  OBVIOUS
<1>1. TypeOK /\ ExchangeInv /\ RouterInv /\ SessionInv
  BY DEF IInv
<1>2. ASSUME NEW c \in Clients, Caller(c) \/ Progress(c) PROVE IInv'
  <2>1. UNCHANGED router_vars
    BY <1>2 DEF Caller, Progress, login, login_no_password, logout,
       logout_nothing, call, call_refused, set_password,
       set_password_no_session, Refuse, retry_times_answered, rand_answered,
       login_answered, set_info_refused, set_info_adopted, other_answered,
       undecodable, gives_up
  <2>2. RouterInv'
    BY <1>1, <2>1 DEF RouterInv, router_vars
  <2>. QED
    BY <1>1, <1>2, <2>2, TypeClient, ExchangeClient, SessionClient DEF IInv
<1>3. ASSUME NEW r \in Pending, Router(r) PROVE IInv'
  <2>1. CASE serve_login(r)
    BY <1>1, <1>3, <2>1, TypeRouter, ExchangeRouter, SessionRouter
       DEF serve_login, RouterInv, IInv
  <2>2. CASE serve_login_wrong(r)
    <3>1. RouterInv'
      <4>1. locked' = (retries = 1) /\ retries' = retries - 1
        BY <2>2 DEF serve_login_wrong
      <4>2. (retries = 1) <=> (retries' = 0)
        BY <1>1, <4>1 DEF TypeOK
      <4>. QED
        BY <4>1, <4>2 DEF RouterInv
    <3>. QED
      BY <1>1, <1>3, <3>1, TypeRouter, ExchangeRouter, SessionRouter DEF IInv
  <2>3. CASE UNCHANGED <<locked, retries>>
    BY <1>1, <1>3, <2>3, TypeRouter, ExchangeRouter, SessionRouter
       DEF RouterInv, IInv
  <2>. QED
    BY <1>3, <2>1, <2>2, <2>3
       DEF Router, serve_retry_times, serve_rand, serve_login_locked,
           serve_logout, serve_set_info, serve_read, router_vars
<1>4. CASE session_expires \/ lock_expires
  <2>1. /\ retries' \in 0 .. MaxRetries
        /\ locked' \in BOOLEAN
        /\ sessions' \subseteq Tokens
    <3>1. CASE session_expires
      BY <1>1, <3>1 DEF session_expires, TypeOK
    <3>2. CASE lock_expires
      <4>1. retries' = MaxRetries /\ locked' = FALSE /\ UNCHANGED sessions
        BY <3>2 DEF lock_expires
      <4>2. MaxRetries \in 0 .. MaxRetries
        OBVIOUS
      <4>. QED
        BY <1>1, <4>1, <4>2 DEF TypeOK
    <3>. QED
      BY <1>4, <3>1, <3>2
  <2>3. TypeOK'
    BY <1>1, <1>4, <2>1
       DEF session_expires, lock_expires, TypeOK, client_vars, network_vars
  <2>2. RouterInv' /\ ExchangeInv' /\ SessionInv'
    BY <1>1, <1>4
       DEF session_expires, lock_expires, RouterInv, ExchangeInv, SessionInv,
           CallsCarrySession, Pending, client_vars, network_vars
  <2>. QED
    BY <2>2, <2>3 DEF IInv
<1>5. CASE UNCHANGED vars
  BY <1>1, <1>5 DEF vars, client_vars, network_vars, router_vars, IInv, TypeOK,
     RouterInv, ExchangeInv, SessionInv, CallsCarrySession, Pending
<1>. QED
  BY <1>2, <1>3, <1>4, <1>5 DEF Next

LEMMA Invariance == Spec => []IInv
  BY InvInit, InvNext, PTL DEF Spec

\* Every variable has its type in every reachable state, whatever the clients
\* do and the network loses.
THEOREM TypeCorrect == Spec => []TypeOK
<1>1. IInv => TypeOK
  BY DEF IInv
<1>. QED
  BY <1>1, Invariance, PTL

\* No authenticated request leaves a client, or reaches the router late, without
\* a session cookie.
THEOREM CallsCarry == Spec => []CallsCarrySession
<1>1. IInv => CallsCarrySession
  BY DEF IInv, SessionInv
<1>. QED
  BY <1>1, Invariance, PTL

---------------------------------------------------------------------------
(* The end of an operation                                                 *)

\* What a place m with an answer a still leaves to do.
LeftIn(m, a) ==
    (IF m = "set_info" THEN 8
     ELSE IF m = "get_retrytimes_and_time" THEN 6
     ELSE IF m = "get_rand" THEN 4
     ELSE IF m = "idle" THEN 0 ELSE 2) - (IF a = None THEN 0 ELSE 1)

\* It is what Left counts, before a step and after it.
LEMMA LeftAt ==
    ASSUME TypeOK, TypeOK', NEW c \in Clients
    PROVE  Left(c) = LeftIn(pc[c], got[c]) /\ Left(c)' = LeftIn(pc'[c], got'[c])
<1>. DEFINE place == [m \in Methods \cup {"idle"} |->
                         CASE m = "set_info" -> 8
                           [] m = "get_retrytimes_and_time" -> 6
                           [] m = "get_rand" -> 4
                           [] m \in {"login", "logout", "read"} -> 2
                           [] m = "idle" -> 0]
<1>1. ASSUME NEW m \in Methods \cup {"idle"}
      PROVE  place[m] = IF m = "set_info" THEN 8
                        ELSE IF m = "get_retrytimes_and_time" THEN 6
                        ELSE IF m = "get_rand" THEN 4
                        ELSE IF m = "idle" THEN 0 ELSE 2
  BY DEF Methods
<1>2. pc[c] \in Methods \cup {"idle"} /\ pc'[c] \in Methods \cup {"idle"}
  BY DEF TypeOK
<1>3. /\ Left(c) = place[pc[c]] - (IF got[c] = None THEN 0 ELSE 1)
      /\ Left(c)' = place[pc'[c]] - (IF got'[c] = None THEN 0 ELSE 1)
  BY DEF Left
<1>. HIDE DEF place
<1>. QED
  BY <1>1, <1>2, <1>3 DEF LeftIn

\* A step of its own leaves a client idle or with the next exchange to make.
LEMMA NextExchange ==
    ASSUME TypeOK, ExchangeInv, NEW c \in Clients, Progress(c)
    PROVE  /\ got'[c] = None
           /\ \/ pc'[c] = "idle" /\ pc[c] # "idle"
              \/ pc[c] = "set_info" /\ pc'[c] = "get_retrytimes_and_time"
              \/ pc[c] = "get_retrytimes_and_time" /\ pc'[c] = "get_rand"
              \/ pc[c] = "get_rand" /\ pc'[c] = "login"
           /\ \A d \in Clients \ {c} : UNCHANGED <<pc[d], got[d]>>
<1>1. pc \in [Clients -> Methods \cup {"idle"}] /\ got \in [Clients -> Answer \cup {None}]
  BY DEF TypeOK
<1>2. pc[c] # "idle"
  BY DEF Progress, ExchangeInv, retry_times_answered, rand_answered, login_answered,
     set_info_refused, set_info_adopted, other_answered, undecodable, gives_up
<1>3. CASE retry_times_answered(c)
  BY <1>1, <1>2, <1>3 DEF retry_times_answered, Taken, Send, End
<1>4. CASE rand_answered(c)
  BY <1>1, <1>2, <1>4 DEF rand_answered, Taken, Send, End
<1>5. CASE set_info_adopted(c)
  BY <1>1, <1>2, <1>5 DEF set_info_adopted, Taken, StartLogin, Send, End
<1>6. CASE login_answered(c) \/ set_info_refused(c) \/ other_answered(c)
           \/ undecodable(c) \/ gives_up(c)
  BY <1>1, <1>2, <1>6 DEF login_answered, set_info_refused, other_answered,
     undecodable, gives_up, Taken, End
<1>. QED
  BY <1>3, <1>4, <1>5, <1>6 DEF Progress

\* Every step of a running operation brings it nearer to its end, whatever is lost,
\* late or refused, and however many clients the router has: no exchange of a login
\* is made twice.
THEOREM Shortens == Spec => OperationsShorten
<1>1. IInv /\ [Next]_vars =>
          \A c \in Clients :
              pc[c] # "idle" /\ <<pc[c], got[c]>>' # <<pc[c], got[c]>>
              => Left(c)' \in 0 .. Left(c) - 1
  <2>. SUFFICES ASSUME IInv, [Next]_vars, NEW c \in Clients, pc[c] # "idle",
                       <<pc[c], got[c]>>' # <<pc[c], got[c]>>
                PROVE  Left(c)' \in 0 .. Left(c) - 1
    OBVIOUS
  <2>1. /\ TypeOK /\ TypeOK' /\ ExchangeInv
        /\ pc[c] \in Methods \cup {"idle"} /\ pc'[c] \in Methods \cup {"idle"}
    BY InvNext DEF IInv, TypeOK
  <2>2. Left(c) = LeftIn(pc[c], got[c]) /\ Left(c)' = LeftIn(pc'[c], got'[c])
    BY <2>1, LeftAt
  <2>3. CASE Progress(c)
    BY <2>1, <2>2, <2>3, NextExchange DEF LeftIn
  <2>4. CASE ~Progress(c)
    <3>1. ASSUME NEW d \in Clients \ {c}, Progress(d)
          PROVE  FALSE
      BY <2>1, <3>1, NextExchange
    <3>2. ASSUME NEW d \in Clients, Caller(d)
          PROVE  FALSE
      <4>1. pc[d] = "idle" /\ UNCHANGED got /\ \A e \in Clients \ {d} : pc'[e] = pc[e]
        BY <2>1, <3>2 DEF TypeOK, Caller, login, login_no_password, logout,
           logout_nothing, call, call_refused, set_password,
           set_password_no_session, Refuse, StartLogin, Send, network_vars
      <4>. QED
        BY <4>1
    <3>3. ASSUME NEW r \in Pending, Router(r)
          PROVE  UNCHANGED pc /\ got[c] = None /\ got'[c] # None
      <4>1. PICK answer : Served(r, answer)
        BY <3>3 DEF Router, serve_retry_times, serve_rand, serve_login,
           serve_login_wrong, serve_login_locked, serve_logout, serve_set_info,
           serve_read
      <4>2. UNCHANGED pc /\ got'[c] # got[c]
        BY <4>1 DEF Served, client_vars
      <4>3. sent[r.client] = r /\ got' = [got EXCEPT ![r.client] = answer]
        BY <4>1, <4>2 DEF Served
      <4>4. r.client = c /\ got[c] = None
        BY <2>1, <4>2, <4>3, PendingTypes DEF ExchangeInv, TypeOK
      <4>. QED
        BY <4>2, <4>4
    <3>4. UNCHANGED pc /\ got[c] = None /\ got'[c] # None
      BY <2>4, <3>1, <3>2, <3>3 DEF Next, session_expires, lock_expires, vars,
         client_vars, network_vars
    <3>. QED
      BY <2>1, <2>2, <3>4 DEF LeftIn
  <2>. QED
    BY <2>3, <2>4
<1>. QED
  BY <1>1, Invariance, PTL DEF Spec, OperationsShorten

---------------------------------------------------------------------------
(* The attempt budget, when the router reports it                          *)

LateInv == IsFiniteSet(late) /\ Cardinality(late) <= MaxLate

BudgetInv == LateInv /\ AttemptsCovered

LEMMA Counting ==
    ASSUME TypeOK
    PROVE  /\ IsFiniteSet(Attempting) /\ Cardinality(Attempting) \in Nat
           /\ Cardinality(Attempting) <= Cardinality(Clients)
           /\ Cardinality(Clients) \in Nat
           /\ Cardinality(Clients) >= 1
<1>1. Attempting \subseteq Clients
  BY DEF Attempting
<1>2. Cardinality(Clients) # 0 /\ Cardinality(Clients) \in Nat
  BY ClientsAssumption, FS_CardinalityType, FS_EmptySet
<1>. QED
  BY <1>1, <1>2, ClientsAssumption, FS_Subset, FS_CardinalityType

LEMMA LateCounting ==
    ASSUME LateInv
    PROVE  /\ IsFiniteSet(LateLogins) /\ Cardinality(LateLogins) \in Nat
           /\ Cardinality(LateLogins) <= MaxLate
<1>1. LateLogins \subseteq late
  BY DEF LateLogins
<1>2. /\ IsFiniteSet(LateLogins) /\ Cardinality(LateLogins) <= Cardinality(late)
      /\ Cardinality(LateLogins) \in Nat /\ Cardinality(late) \in Nat
  BY <1>1, FS_Subset, FS_CardinalityType DEF LateInv
<1>. QED
  BY <1>2 DEF LateInv

\* A step that adds no attempt and takes none away from the budget.
LEMMA NoNewAttempt ==
    ASSUME TypeOK, TypeOK', BudgetInv, LateInv',
           Attempting' \subseteq Attempting, LateLogins' \subseteq LateLogins,
           retries' >= retries
    PROVE  BudgetInv'
<1>1. /\ Cardinality(Attempting') <= Cardinality(Attempting)
      /\ Cardinality(LateLogins') <= Cardinality(LateLogins)
  BY Counting, LateCounting, FS_Subset DEF BudgetInv
<1>2. /\ Cardinality(Attempting') \in Nat /\ Cardinality(Attempting) \in Nat
      /\ Cardinality(LateLogins') \in Nat /\ Cardinality(LateLogins) \in Nat
      /\ Cardinality(Clients) \in Nat
      /\ retries \in Int /\ retries' \in Int
  BY Counting, LateCounting, FS_Subset, FS_CardinalityType DEF TypeOK, BudgetInv
<1>. QED
  BY <1>1, <1>2 DEF BudgetInv, AttemptsCovered

\* A step that gives the attempt of c up to the network.
LEMMA AttemptLate ==
    ASSUME TypeOK, TypeOK', BudgetInv, LateInv', NEW c \in Attempting, NEW r,
           Attempting' \subseteq Attempting \ {c},
           LateLogins' \subseteq LateLogins \cup {r}, retries' >= retries
    PROVE  BudgetInv'
<1>1. /\ IsFiniteSet(Attempting \ {c})
      /\ Cardinality(Attempting \ {c}) = Cardinality(Attempting) - 1
  BY Counting, FS_RemoveElement
<1>2. /\ IsFiniteSet(Attempting')
      /\ Cardinality(Attempting') <= Cardinality(Attempting \ {c})
  BY <1>1, FS_Subset
<1>3. /\ IsFiniteSet(LateLogins)
      /\ IsFiniteSet(LateLogins \cup {r})
      /\ Cardinality(LateLogins \cup {r}) \in
            {Cardinality(LateLogins), Cardinality(LateLogins) + 1}
      /\ Cardinality(LateLogins) \in Nat
  <2>1. IsFiniteSet(LateLogins) /\ Cardinality(LateLogins) \in Nat
    BY LateCounting DEF BudgetInv
  <2>2. CASE r \in LateLogins
    <3>1. LateLogins \cup {r} = LateLogins
      BY <2>2
    <3>. QED
      BY <2>1, <3>1
  <2>3. CASE r \notin LateLogins
    BY <2>1, <2>3, FS_AddElement
  <2>. QED
    BY <2>2, <2>3
<1>4. /\ IsFiniteSet(LateLogins')
      /\ Cardinality(LateLogins') <= Cardinality(LateLogins \cup {r})
  BY <1>3, FS_Subset
<1>5. /\ Cardinality(Attempting') \in Nat /\ Cardinality(Attempting) \in Nat
      /\ Cardinality(LateLogins') \in Nat
      /\ Cardinality(Clients) \in Nat
      /\ retries \in Int /\ retries' \in Int
  BY Counting, <1>2, <1>4, FS_CardinalityType DEF TypeOK
<1>. QED
  BY <1>1, <1>2, <1>3, <1>4, <1>5 DEF BudgetInv, AttemptsCovered

\* A step that judges the attempt of c at the cost of one.
LEMMA AttemptSpent ==
    ASSUME TypeOK, TypeOK', BudgetInv, LateInv', NEW c \in Attempting,
           Attempting' \subseteq Attempting \ {c}, LateLogins' = LateLogins,
           retries' = retries - 1
    PROVE  BudgetInv'
<1>1. /\ IsFiniteSet(Attempting \ {c})
      /\ Cardinality(Attempting \ {c}) = Cardinality(Attempting) - 1
  BY Counting, FS_RemoveElement
<1>2. /\ IsFiniteSet(Attempting')
      /\ Cardinality(Attempting') <= Cardinality(Attempting \ {c})
  BY <1>1, FS_Subset
<1>3. /\ Cardinality(Attempting') \in Nat /\ Cardinality(Attempting) \in Nat
      /\ Cardinality(LateLogins) \in Nat
      /\ Cardinality(Clients) \in Nat
      /\ retries \in Int
  BY Counting, LateCounting, <1>2, FS_CardinalityType DEF TypeOK, BudgetInv
<1>. QED
  BY <1>1, <1>2, <1>3 DEF BudgetInv, AttemptsCovered

\* A step that judges a late login at the cost of one.
LEMMA LateSpent ==
    ASSUME TypeOK, TypeOK', BudgetInv, LateInv', NEW r \in LateLogins,
           LateLogins' \subseteq LateLogins \ {r}, Attempting' = Attempting,
           retries' = retries - 1
    PROVE  BudgetInv'
<1>1. /\ IsFiniteSet(LateLogins \ {r})
      /\ Cardinality(LateLogins \ {r}) = Cardinality(LateLogins) - 1
      /\ Cardinality(LateLogins) \in Nat
  BY LateCounting, FS_RemoveElement DEF BudgetInv
<1>2. /\ IsFiniteSet(LateLogins')
      /\ Cardinality(LateLogins') <= Cardinality(LateLogins \ {r})
  BY <1>1, FS_Subset
<1>3. /\ Cardinality(LateLogins') \in Nat /\ Cardinality(Attempting) \in Nat
      /\ Cardinality(Clients) \in Nat
      /\ retries \in Int
  BY Counting, <1>2, FS_CardinalityType DEF TypeOK
<1>. QED
  BY <1>1, <1>2, <1>3 DEF BudgetInv, AttemptsCovered

\* A step with at least two attempts left afterwards.
LEMMA TwoLeft ==
    ASSUME TypeOK', LateInv', retries' >= 2
    PROVE  BudgetInv'
<1>1. Attempting' \subseteq Clients /\ LateLogins' \subseteq late'
  BY DEF Attempting, LateLogins
<1>2. /\ IsFiniteSet(Attempting') /\ IsFiniteSet(LateLogins')
      /\ Cardinality(Attempting') <= Cardinality(Clients)
      /\ Cardinality(LateLogins') <= Cardinality(late')
  BY <1>1, ClientsAssumption, FS_Subset DEF LateInv
<1>3. /\ Cardinality(Attempting') \in Nat
      /\ Cardinality(LateLogins') \in Nat
      /\ Cardinality(late') \in Nat
      /\ Cardinality(Clients) \in Nat
      /\ retries' \in Int
  BY <1>2, ClientsAssumption, FS_CardinalityType DEF TypeOK, LateInv
<1>. QED
  BY <1>2, <1>3 DEF LateInv, BudgetInv, AttemptsCovered

\* What a step makes of the requests on their way.
LEMMA LateClient ==
    ASSUME TypeOK, LateInv, NEW c \in Clients, Caller(c) \/ Progress(c)
    PROVE  /\ LateInv'
           /\ \/ UNCHANGED late
              \/ gives_up(c) /\ sent[c] # None /\ late' = late \cup {sent[c]}
<1>1. CASE gives_up(c)
  <2>1. CASE UNCHANGED late
    BY <2>1 DEF LateInv
  <2>2. CASE /\ sent[c] # None
             /\ Cardinality(late) < MaxLate
             /\ late' = late \cup {sent[c]}
    <3>1. /\ IsFiniteSet(late')
          /\ Cardinality(late') \in {Cardinality(late), Cardinality(late) + 1}
          /\ Cardinality(late) \in Nat
      <4>1. CASE sent[c] \in late
        <5>1. late' = late
          BY <2>2, <4>1
        <5>. QED
          BY <5>1, FS_CardinalityType DEF LateInv
      <4>2. CASE sent[c] \notin late
        BY <2>2, <4>2, FS_AddElement, FS_CardinalityType DEF LateInv
      <4>. QED
        BY <4>1, <4>2
    <3>. QED
      BY <1>1, <2>2, <3>1 DEF LateInv
  <2>. QED
    BY <1>1, <2>1, <2>2 DEF gives_up
<1>2. CASE ~gives_up(c)
  <2>1. UNCHANGED late
    BY <1>2
       DEF Caller, Progress, login, login_no_password, logout,
           logout_nothing, call, call_refused, set_password,
           set_password_no_session, Refuse, retry_times_answered,
           rand_answered, login_answered, set_info_refused,
           set_info_adopted, other_answered, undecodable, Taken, network_vars
  <2>. QED
    BY <2>1 DEF LateInv
<1>. QED
  BY <1>1, <1>2

\* What a step of client c makes of the attempts.
LEMMA AttemptsClient ==
    ASSUME IInv, IInv', NEW c \in Clients, Caller(c) \/ Progress(c)
    PROVE  /\ Attempting' \subseteq Attempting
           /\ gives_up(c) => c \notin Attempting'
<1>1. Attempting' \subseteq Attempting
  <2>. SUFFICES ASSUME NEW d \in Attempting' PROVE d \in Attempting
    OBVIOUS
  <2>. d \in Clients
    BY DEF Attempting
  <2>1. CASE d # c
    <3>1. pc'[d] = pc[d] /\ got'[d] = got[d] /\ sent'[d] = sent[d]
      BY <2>1
         DEF IInv, TypeOK, Caller, Progress, login, login_no_password, logout,
             logout_nothing, call, call_refused, set_password, Send, End,
             set_password_no_session, Refuse, StartLogin, retry_times_answered,
             rand_answered, login_answered, set_info_refused, set_info_adopted,
             other_answered, undecodable, gives_up, Taken, network_vars
    <3>. QED
      BY <3>1 DEF Attempting, AttemptAllowed
  <2>2. CASE d = c
    <3>1. \/ pc'[c] = pc[c] /\ got'[c] = got[c] /\ sent'[c] = sent[c]
          \/ pc'[c] \in {"idle", "logout", "read", "set_info"}
          \/ pc'[c] = "get_retrytimes_and_time" /\ got'[c] = None
          \/ c \in Attempting
      <4>1. CASE Caller(c)
        BY <4>1
           DEF IInv, TypeOK, ExchangeInv, Caller, login, login_no_password,
               logout, logout_nothing, call, call_refused, set_password, Send,
               set_password_no_session, Refuse, StartLogin, network_vars
      <4>2. CASE retry_times_answered(c)
        BY <4>2 DEF IInv, TypeOK, retry_times_answered, End, Attempting
      <4>3. CASE rand_answered(c)
        BY <4>3 DEF rand_answered, Attempting
      <4>4. CASE set_info_adopted(c)
        BY <4>4 DEF IInv, TypeOK, set_info_adopted, StartLogin, Send, End, Taken
      <4>5. CASE \/ login_answered(c) \/ set_info_refused(c)
                 \/ other_answered(c) \/ undecodable(c) \/ gives_up(c)
        BY <4>5 DEF IInv, TypeOK, login_answered, set_info_refused,
                    other_answered, undecodable, gives_up, End
      <4>. QED
        BY <4>1, <4>2, <4>3, <4>4, <4>5 DEF Progress
    <3>. QED
      BY <2>2, <3>1 DEF Attempting, AttemptAllowed
  <2>. QED
    BY <2>1, <2>2
<1>2. gives_up(c) => c \notin Attempting'
  BY DEF gives_up, End, Attempting, IInv, TypeOK
<1>. QED
  BY <1>1, <1>2

LEMMA BudgetClient ==
    ASSUME IInv, IInv', BudgetInv, NEW c \in Clients, Caller(c) \/ Progress(c)
    PROVE  BudgetInv'
<1>1. LateInv'
  BY LateClient DEF IInv, BudgetInv
<1>2. UNCHANGED router_vars
    BY DEF Caller, Progress, login, login_no_password, logout,
       logout_nothing, call, call_refused, set_password,
       set_password_no_session, Refuse, retry_times_answered, rand_answered,
       login_answered, set_info_refused, set_info_adopted, other_answered,
       undecodable, gives_up
<1>3. retries' >= retries
  BY <1>2 DEF router_vars, IInv, TypeOK
<1>4. Attempting' \subseteq Attempting
  BY AttemptsClient
<1>5. CASE UNCHANGED late
  BY <1>1, <1>3, <1>4, <1>5, NoNewAttempt DEF LateLogins, IInv
<1>6. CASE gives_up(c) /\ sent[c] # None /\ late' = late \cup {sent[c]}
  <2>1. CASE sent[c].method = "login"
    <3>1. c \in Attempting
      BY <1>6, <2>1 DEF Attempting, IInv, ExchangeInv
    <3>2. Attempting' \subseteq Attempting \ {c}
      BY <1>4, <1>6, AttemptsClient
    <3>3. LateLogins' \subseteq LateLogins \cup {sent[c]}
      BY <1>6 DEF LateLogins
    <3>. QED
      BY <1>1, <1>3, <3>1, <3>2, <3>3, AttemptLate DEF IInv
  <2>2. CASE sent[c].method # "login"
    <3>1. LateLogins' \subseteq LateLogins
      BY <1>6, <2>2 DEF LateLogins
    <3>. QED
      BY <1>1, <1>3, <1>4, <3>1, NoNewAttempt DEF IInv
  <2>. QED
    BY <2>1, <2>2
<1>. QED
  BY <1>5, <1>6, LateClient DEF IInv, BudgetInv

\* The answer to a request whose client waits for it.
LEMMA ServedWaiting ==
    ASSUME IInv, NEW r \in Pending, NEW answer, Served(r, answer),
           UNCHANGED late,
           r.method = "get_retrytimes_and_time" => ~AttemptAllowed(answer)
    PROVE  /\ Attempting' \subseteq Attempting
           /\ LateLogins' = LateLogins
           /\ r.method = "login"
                 => /\ r.client \in Attempting
                    /\ Attempting' \subseteq Attempting \ {r.client}
<1>. DEFINE c == r.client
<1>1. c \in Clients /\ r # None
  BY PendingTypes DEF IInv
<1>2. /\ sent[c] = r
      /\ sent' = [sent EXCEPT ![c] = None]
      /\ got' = [got EXCEPT ![c] = answer]
      /\ pc' = pc
  BY DEF Served, client_vars
<1>3. pc[c] = r.method /\ got[c] = None
  BY <1>1, <1>2 DEF IInv, ExchangeInv
<1>4. \A d \in Clients \ {c} : d \in Attempting' => d \in Attempting
  BY <1>1, <1>2 DEF Attempting, AttemptAllowed, IInv, TypeOK
<1>5. r.method = "login" => c \in Attempting /\ c \notin Attempting'
  BY <1>1, <1>2, <1>3 DEF Attempting, IInv, TypeOK
<1>6. c \in Attempting' => c \in Attempting
  BY <1>1, <1>2, <1>3 DEF Attempting, AttemptAllowed, IInv, TypeOK
<1>7. Attempting' \subseteq Clients /\ LateLogins' = LateLogins
  BY DEF Attempting, LateLogins
<1>. QED
  BY <1>4, <1>5, <1>6, <1>7

\* Nobody gets the answer to a request that comes late.
LEMMA ServedLate ==
    ASSUME LateInv, NEW r, NEW answer, Served(r, answer), late' # late
    PROVE  /\ LateInv'
           /\ r \in late
           /\ LateLogins' = LateLogins \ {r}
           /\ Attempting' = Attempting
<1>1. /\ r \in late /\ late' = late \ {r}
      /\ UNCHANGED <<sent, got, pc>>
  BY DEF Served, client_vars
<1>2. /\ IsFiniteSet(late')
      /\ Cardinality(late') = Cardinality(late) - 1
      /\ Cardinality(late) \in Nat
  BY <1>1, FS_RemoveElement, FS_CardinalityType DEF LateInv
<1>3. LateLogins' = LateLogins \ {r} /\ Attempting' = Attempting
  BY <1>1 DEF LateLogins, Attempting
<1>. QED
  BY <1>1, <1>2, <1>3 DEF LateInv

LEMMA ServedLateInv ==
    ASSUME LateInv, NEW r, NEW answer, Served(r, answer)
    PROVE  LateInv'
<1>1. CASE late' = late
  BY <1>1 DEF LateInv
<1>. QED
  BY <1>1, ServedLate

\* A request is served and no client gets leave for an attempt.
LEMMA ServedAtNoCost ==
    ASSUME IInv, IInv', BudgetInv, NEW r \in Pending, NEW answer,
           Served(r, answer), retries' >= retries,
           r.method = "get_retrytimes_and_time" => ~AttemptAllowed(answer)
    PROVE  BudgetInv'
<1>1. LateInv'
  BY ServedLateInv DEF BudgetInv
<1>2. Attempting' \subseteq Attempting /\ LateLogins' \subseteq LateLogins
  <2>1. CASE late' = late
    BY <2>1, ServedWaiting
  <2>2. CASE late' # late
    BY <2>2, ServedLate DEF BudgetInv
  <2>. QED
    BY <2>1, <2>2
<1>. QED
  BY <1>1, <1>2, NoNewAttempt DEF IInv

\* A login is judged wrong.
LEMMA ServedAtACost ==
    ASSUME IInv, IInv', BudgetInv, NEW r \in Pending, NEW answer,
           Served(r, answer), r.method = "login", retries' = retries - 1
    PROVE  BudgetInv'
<1>1. LateInv'
  BY ServedLateInv DEF BudgetInv
<1>2. CASE late' = late
  BY <1>1, <1>2, ServedWaiting, AttemptSpent DEF IInv
<1>3. CASE late' # late
  <2>1. /\ r \in LateLogins
        /\ LateLogins' = LateLogins \ {r}
        /\ Attempting' = Attempting
    BY <1>3, ServedLate DEF LateLogins, BudgetInv
  <2>. QED
    BY <1>1, <2>1, LateSpent DEF IInv
<1>. QED
  BY <1>2, <1>3

LEMMA BudgetRouter ==
    ASSUME Reported, IInv, IInv', BudgetInv, NEW r \in Pending, Router(r)
    PROVE  BudgetInv'
<1>4. CASE serve_retry_times(r)
  <2>1. /\ retries' = retries /\ retries \in Int
        /\ r.method = "get_retrytimes_and_time"
    BY <1>4 DEF serve_retry_times, router_vars, IInv, TypeOK
  <2>2. CASE Served(r, Result(4))
    <3>1. ~AttemptAllowed(Result(4))
      BY DEF AttemptAllowed, Result, Says
    <3>. QED
      BY <2>1, <2>2, <3>1, ServedAtNoCost
  <2>3. CASE Served(r, Says(0, retries, IF locked THEN 1 ELSE 0, None, None))
    <3>. DEFINE answer == Says(0, retries, IF locked THEN 1 ELSE 0, None, None)
    <3>1. CASE AttemptAllowed(answer)
      <4>1. retries # None /\ answer.retry_times = retries
        BY <2>1 DEF Says, IInv, TypeOK
      <4>2. retries' >= 2
        BY <2>1, <3>1, <4>1 DEF AttemptAllowed
      <4>3. LateInv'
        BY <2>3, ServedLateInv DEF BudgetInv
      <4>. QED
        BY <4>2, <4>3, TwoLeft DEF IInv
    <3>2. CASE ~AttemptAllowed(answer)
      BY <2>1, <2>3, <3>2, ServedAtNoCost
    <3>. QED
      BY <3>1, <3>2
  <2>. QED
    BY <1>4, <2>2, <2>3 DEF serve_retry_times
<1>5. CASE serve_login(r)
  <2>1. \E answer : Served(r, answer)
    BY <1>5 DEF serve_login
  <2>2. r.method = "login" /\ retries' >= retries
    BY <1>5 DEF serve_login, IInv, TypeOK
  <2>. QED
    BY <2>1, <2>2, ServedAtNoCost
<1>6. CASE serve_login_wrong(r)
  <2>1. \E answer : Served(r, answer)
    BY <1>6 DEF serve_login_wrong
  <2>2. r.method = "login" /\ retries' = retries - 1
    BY <1>6 DEF serve_login_wrong
  <2>. QED
    BY <2>1, <2>2, ServedAtACost
<1>7. CASE \/ serve_rand(r) \/ serve_login_locked(r) \/ serve_logout(r)
           \/ serve_set_info(r) \/ serve_read(r)
  <2>1. \E answer : Served(r, answer)
    BY <1>7 DEF serve_rand, serve_login_locked, serve_logout, serve_set_info,
                serve_read
  <2>2. r.method # "get_retrytimes_and_time" /\ retries' >= retries
    BY <1>7 DEF serve_rand, serve_login_locked, serve_logout, serve_set_info,
                serve_read, router_vars, IInv, TypeOK
  <2>. QED
    BY <2>1, <2>2, ServedAtNoCost
<1>. QED
  BY <1>4, <1>5, <1>6, <1>7 DEF Router

LEMMA BudgetNext ==
    ASSUME Reported
    PROVE  IInv /\ IInv' /\ BudgetInv /\ [Next]_vars => BudgetInv'
<1>. SUFFICES ASSUME IInv, IInv', BudgetInv, [Next]_vars PROVE BudgetInv'
  OBVIOUS
<1>1. CASE session_expires \/ lock_expires \/ UNCHANGED vars
  <2>1. UNCHANGED <<pc, got, sent, late>> /\ retries' >= retries
    BY <1>1 DEF session_expires, lock_expires, vars, client_vars, network_vars,
                router_vars, IInv, TypeOK
  <2>2. Attempting' = Attempting /\ LateLogins' = LateLogins /\ LateInv'
    BY <2>1 DEF Attempting, LateLogins, BudgetInv, LateInv
  <2>. QED
    BY <2>1, <2>2, NoNewAttempt DEF IInv
<1>. QED
  BY <1>1, BudgetClient, BudgetRouter DEF Next

LEMMA BudgetInit == Init => BudgetInv
<1>. SUFFICES ASSUME Init PROVE BudgetInv
  OBVIOUS
<1>1. Attempting = {} /\ LateLogins = {} /\ late = {}
  BY DEF Init, Attempting, LateLogins
<1>2. Cardinality({}) = 0 /\ IsFiniteSet({})
  BY FS_EmptySet
<1>3. Cardinality(Clients) \in Nat /\ Cardinality(Clients) >= 1
  BY TypeInit, Counting
<1>. QED
  BY <1>1, <1>2, <1>3 DEF Init, BudgetInv, LateInv, AttemptsCovered

\* Between any number of clients, whatever the network loses and however late it
\* delivers, the router keeps an attempt for every login that passed the guard,
\* short of one for each client beyond the first two and one for each request
\* that can come late: given that it reports the budget.
THEOREM BudgetCovered ==
    ASSUME Reported
    PROVE  Spec => []AttemptsCovered
<1>1. BudgetInv => AttemptsCovered
  BY DEF BudgetInv
<1>2. IInv /\ IInv' /\ BudgetInv /\ [Next]_vars => BudgetInv'
  BY BudgetNext
<1>. QED
  BY <1>1, <1>2, BudgetInit, Invariance, PTL DEF Spec

\* One client alone never uses up the last attempt, whatever passwords its
\* caller tries, when no request is served late.
THEOREM FinalAttempt ==
    ASSUME Reported, MaxLate = 0, Cardinality(Clients) = 1
    PROVE  Spec => []FinalAttemptKept
<1>1. TypeOK /\ BudgetInv => FinalAttemptKept
  BY Counting, LateCounting
     DEF AttemptsCovered, FinalAttemptKept, TypeOK, BudgetInv
<1>2. IInv /\ IInv' /\ BudgetInv /\ [Next]_vars => BudgetInv'
  BY BudgetNext
<1>. QED
  BY <1>1, <1>2, BudgetInit, TypeCorrect, Invariance, PTL DEF Spec

---------------------------------------------------------------------------
(* Challenge, digest and password of one login                             *)

\* Nothing comes late, and a client answers the challenge that the router holds
\* for it, with the password it has.
LoginInv ==
    /\ late = {}
    /\ \A c \in Clients :
          /\ pc[c] = "get_rand" /\ got[c] # None /\ got[c].rand # None
                 => challenge[c] = got[c].rand
          /\ pc[c] = "login" /\ sent[c] # None
                 => sent[c].secret = challenge_response(challenge[c], password[c])

\* What the answers say of the administrator's password, as long as the client is
\* the only one.
AdminInv ==
    \A c \in Clients :
        /\ pc[c] = "login" /\ got[c] # None /\ got[c].result = 3
               => password[c] = adminPassword
        /\ pc[c] = "set_info" /\ sent[c] # None => sent[c].secret = newPassword[c]
        /\ pc[c] = "set_info" /\ got[c] # None /\ got[c].result = 0
               => newPassword[c] = adminPassword

\* A step of one client is nobody else's, and none of the router's.
LEMMA ClientAlone ==
    ASSUME TypeOK, NEW c \in Clients, Caller(c) \/ Progress(c)
    PROVE  /\ UNCHANGED router_vars
           /\ \A d \in Clients \ {c} :
                 /\ pc'[d] = pc[d] /\ got'[d] = got[d] /\ sent'[d] = sent[d]
                 /\ password'[d] = password[d] /\ newPassword'[d] = newPassword[d]
                 /\ authenticated'[d] = authenticated[d]
  BY DEF TypeOK, Caller, Progress, login, login_no_password, logout,
         logout_nothing, call, call_refused, set_password, Send, End,
         set_password_no_session, Refuse, StartLogin, retry_times_answered,
         rand_answered, login_answered, set_info_refused, set_info_adopted,
         other_answered, undecodable, gives_up, Taken, network_vars

\* What a client that has made a step waits for.
LEMMA WaitsFor ==
    ASSUME TypeOK, ExchangeInv, NEW c \in Clients, Caller(c) \/ Progress(c)
    PROVE  \/ UNCHANGED <<pc, got, sent, password, newPassword, authenticated>>
           \/ pc'[c] \in {"idle", "logout", "read", "get_retrytimes_and_time"}
           \/ pc'[c] = "get_rand" /\ got'[c] = None
           \/ /\ pc'[c] = "login" /\ got'[c] = None
              /\ rand_answered(c) /\ got[c].rand # None
              /\ sent'[c].secret = challenge_response(got[c].rand, password'[c])
           \/ /\ pc'[c] = "set_info" /\ got'[c] = None
              /\ sent'[c].secret = newPassword'[c]
<1>1. CASE Caller(c)
  BY <1>1 DEF TypeOK, ExchangeInv, Caller, login, login_no_password, logout,
              logout_nothing, call, call_refused, set_password, Send,
              set_password_no_session, Refuse, StartLogin, network_vars
<1>2. CASE retry_times_answered(c)
  BY <1>2 DEF TypeOK, retry_times_answered, Send, End, Taken
<1>3. CASE rand_answered(c)
  BY <1>3 DEF TypeOK, rand_answered, Send, End, Taken
<1>4. CASE set_info_adopted(c)
  BY <1>4 DEF TypeOK, set_info_adopted, StartLogin, Send, End, Taken
<1>5. CASE \/ login_answered(c) \/ set_info_refused(c) \/ other_answered(c)
           \/ undecodable(c) \/ gives_up(c)
  BY <1>5 DEF TypeOK, login_answered, set_info_refused, other_answered,
              undecodable, gives_up, End
<1>. QED
  BY <1>1, <1>2, <1>3, <1>4, <1>5 DEF Progress

LEMMA LoginClient ==
    ASSUME MaxLate = 0, IInv, LoginInv, NEW c \in Clients, Caller(c) \/ Progress(c)
    PROVE  LoginInv'
<1>. TypeOK /\ ExchangeInv
  BY DEF IInv
<1>1. late' = {}
  <2>1. ~(Cardinality(late) < MaxLate)
    BY FS_EmptySet DEF LoginInv
  <2>. QED
    BY <2>1
       DEF LoginInv, Caller, Progress, login, login_no_password, logout,
           logout_nothing, call, call_refused, set_password,
           set_password_no_session, Refuse, retry_times_answered,
           rand_answered, login_answered, set_info_refused, set_info_adopted,
           other_answered, undecodable, gives_up, Taken, network_vars
<1>2. UNCHANGED challenge
  BY ClientAlone DEF router_vars
<1>3. ASSUME NEW d \in Clients \ {c}
      PROVE  /\ pc'[d] = "get_rand" /\ got'[d] # None /\ got'[d].rand # None
                    => challenge'[d] = got'[d].rand
             /\ pc'[d] = "login" /\ sent'[d] # None
                    => sent'[d].secret = challenge_response(challenge'[d], password'[d])
  BY <1>2, <1>3, ClientAlone DEF LoginInv
<1>4. /\ pc'[c] = "get_rand" /\ got'[c] # None /\ got'[c].rand # None
             => challenge'[c] = got'[c].rand
      /\ pc'[c] = "login" /\ sent'[c] # None
             => sent'[c].secret = challenge_response(challenge'[c], password'[c])
  BY <1>2, WaitsFor DEF LoginInv, rand_answered
<1>. QED
  BY <1>1, <1>3, <1>4 DEF LoginInv

\* The request the router serves is one that its client waits for.
LEMMA ServedOwn ==
    ASSUME IInv, late = {}, NEW r \in Pending, NEW answer, Served(r, answer)
    PROVE  /\ r.client \in Clients /\ r # None
           /\ sent[r.client] = r /\ pc[r.client] = r.method
           /\ sent' = [sent EXCEPT ![r.client] = None]
           /\ got' = [got EXCEPT ![r.client] = answer]
           /\ UNCHANGED <<late, client_vars>>
<1>1. r.client \in Clients /\ r # None
  BY PendingTypes DEF IInv
<1>. QED
  BY <1>1 DEF Served, IInv, ExchangeInv

LEMMA LoginRouter ==
    ASSUME IInv, LoginInv, NEW r \in Pending, Router(r)
    PROVE  LoginInv'
<1>. DEFINE c == r.client
<1>1. PICK answer :
          /\ Served(r, answer)
          /\ \/ UNCHANGED challenge /\ answer.rand = None
             \/ /\ r.method = "get_rand"
                /\ challenge' = [challenge EXCEPT ![c] = answer.rand]
  <2>1. CASE serve_rand(r)
    <3>1. \A rand \in Rands : Says(0, None, 0, rand, None).rand = rand
      BY DEF Says
    <3>2. \A n \in {0, 4} : Result(n).rand = None
      BY DEF Says, Result
    <3>3. r.method = "get_rand"
          /\ \/ \E rand \in Rands : /\ challenge' = [challenge EXCEPT ![c] = rand]
                                    /\ Served(r, Says(0, None, 0, rand, None))
             \/ (\E n \in {0, 4} : Served(r, Result(n))) /\ UNCHANGED challenge
      BY <2>1 DEF serve_rand
    <3>. QED
      BY <3>1, <3>2, <3>3
  <2>2. CASE serve_retry_times(r)
    BY <2>2 DEF serve_retry_times, Says, Result, router_vars
  <2>3. CASE serve_login(r)
    BY <2>3 DEF serve_login, Says
  <2>4. CASE \/ serve_login_wrong(r) \/ serve_login_locked(r) \/ serve_logout(r)
             \/ serve_set_info(r) \/ serve_read(r)
    BY <2>4 DEF serve_login_wrong, serve_login_locked, serve_logout,
                serve_set_info, serve_read, Says, Result, router_vars
  <2>. QED
    BY <2>1, <2>2, <2>3, <2>4 DEF Router
<1>2. /\ c \in Clients /\ pc[c] = r.method
      /\ sent' = [sent EXCEPT ![c] = None]
      /\ got' = [got EXCEPT ![c] = answer]
      /\ UNCHANGED <<late, pc, password>>
  BY <1>1, ServedOwn DEF LoginInv, client_vars
<1>3. ASSUME NEW d \in Clients \ {c}
      PROVE  /\ pc'[d] = "get_rand" /\ got'[d] # None /\ got'[d].rand # None
                    => challenge'[d] = got'[d].rand
             /\ pc'[d] = "login" /\ sent'[d] # None
                    => sent'[d].secret = challenge_response(challenge'[d], password'[d])
  <2>1. challenge'[d] = challenge[d] /\ got'[d] = got[d] /\ sent'[d] = sent[d]
    BY <1>1, <1>2 DEF IInv, TypeOK
  <2>. QED
    BY <1>2, <2>1 DEF LoginInv
<1>4. /\ got'[c] = answer /\ sent'[c] = None
      /\ answer.rand # None => challenge'[c] = answer.rand
  BY <1>1, <1>2 DEF IInv, TypeOK
<1>. QED
  BY <1>2, <1>3, <1>4 DEF LoginInv

LEMMA LoginNext ==
    ASSUME MaxLate = 0
    PROVE  IInv /\ LoginInv /\ [Next]_vars => LoginInv'
<1>. SUFFICES ASSUME IInv, LoginInv, [Next]_vars PROVE LoginInv'
  OBVIOUS
<1>1. CASE session_expires \/ lock_expires \/ UNCHANGED vars
  BY <1>1 DEF session_expires, lock_expires, vars, client_vars, network_vars,
              router_vars, LoginInv
<1>. QED
  BY <1>1, LoginClient, LoginRouter DEF Next

\* Who is charged an attempt has digested the router's challenge with another
\* password than the administrator's.
LEMMA ChargedWrong ==
    IInv /\ LoginInv /\ [Next]_vars
        => [retries' < retries => \E c \in Clients : password[c] # adminPassword]_vars
<1>. SUFFICES ASSUME IInv, LoginInv, Next, retries' < retries
              PROVE  \E c \in Clients : password[c] # adminPassword
  OBVIOUS
<1>1. PICK r \in Pending : serve_login_wrong(r)
  <2>1. ~(\E c \in Clients : Caller(c) \/ Progress(c))
    BY ClientAlone DEF router_vars, IInv, TypeOK
  <2>2. ~session_expires /\ ~lock_expires
    BY DEF session_expires, lock_expires, IInv, TypeOK
  <2>3. PICK r \in Pending : Router(r)
    BY <2>1, <2>2 DEF Next
  <2>4. retries \in 0 .. MaxRetries
    BY DEF IInv, TypeOK
  <2>5. ~(serve_retry_times(r) \/ serve_rand(r) \/ serve_login(r) \/ serve_login_locked(r)
          \/ serve_logout(r) \/ serve_set_info(r) \/ serve_read(r))
    BY <2>4 DEF serve_retry_times, serve_rand, serve_login, serve_login_locked,
                serve_logout, serve_set_info, serve_read, router_vars
  <2>. QED
    BY <2>3, <2>5 DEF Router
<1>2. Served(r, Result(0)) /\ r.method = "login" /\ ~RightDigest(r)
  BY <1>1 DEF serve_login_wrong
<1>3. r.client \in Clients /\ r # None /\ sent[r.client] = r /\ pc[r.client] = "login"
  BY <1>2, ServedOwn DEF LoginInv
<1>4. r.secret = challenge_response(challenge[r.client], password[r.client])
  BY <1>3 DEF LoginInv
<1>. QED
  BY <1>2, <1>3, <1>4 DEF RightDigest

LEMMA LoginInit == Init => LoginInv /\ AdminInv
  BY DEF Init, LoginInv, AdminInv

\* Among any number of clients, the router charges attempts to wrong passwords
\* only, as long as no request is served late.
THEOREM NotCharged ==
    ASSUME MaxLate = 0
    PROVE  Spec => RightPasswordNotCharged
<1>1. IInv /\ LoginInv /\ [Next]_vars => LoginInv'
  BY LoginNext
<1>. QED
  BY <1>1, LoginInit, ChargedWrong, Invariance, PTL DEF Spec, RightPasswordNotCharged

LEMMA AdminClient ==
    ASSUME IInv, AdminInv, NEW c \in Clients, Caller(c) \/ Progress(c),
           \A d \in Clients : d = c
    PROVE  AdminInv'
<1>1. UNCHANGED adminPassword
  BY ClientAlone DEF router_vars, IInv
<1>2. /\ pc'[c] = "login" /\ got'[c] # None /\ got'[c].result = 3
             => password'[c] = adminPassword'
      /\ pc'[c] = "set_info" /\ sent'[c] # None => sent'[c].secret = newPassword'[c]
      /\ pc'[c] = "set_info" /\ got'[c] # None /\ got'[c].result = 0
             => newPassword'[c] = adminPassword'
  BY <1>1, WaitsFor DEF AdminInv, IInv
<1>. QED
  BY <1>2 DEF AdminInv

LEMMA AdminRouter ==
    ASSUME IInv, LoginInv, AdminInv, NEW r \in Pending, Router(r),
           \A c, d \in Clients : c = d
    PROVE  AdminInv'
<1>. DEFINE c == r.client
<1>1. PICK answer : Served(r, answer)
  BY DEF Router, serve_retry_times, serve_rand, serve_login, serve_login_wrong,
         serve_login_locked, serve_logout, serve_set_info, serve_read
<1>2. /\ c \in Clients /\ sent[c] = r /\ r # None /\ pc[c] = r.method
      /\ sent'[c] = None
      /\ UNCHANGED <<pc, password, newPassword>>
  BY <1>1, ServedOwn DEF LoginInv, client_vars, IInv, TypeOK
<1>3. ASSUME NEW a, Served(r, a)
      PROVE  got'[c] = a
  BY <1>3, ServedOwn DEF LoginInv, IInv, TypeOK
<1>4. \A n : Result(n).result = n
  BY DEF Result, Says
<1>5. pc'[c] = "login" /\ got'[c].result = 3 => password'[c] = adminPassword'
  <2>. SUFFICES ASSUME r.method = "login", got'[c].result = 3
                PROVE  password[c] = adminPassword'
    BY <1>2
  <2>1. ~serve_login_wrong(r) /\ ~serve_login_locked(r)
    BY <1>3, <1>4 DEF serve_login_wrong, serve_login_locked
  <2>2. serve_login(r)
    BY <2>1 DEF Router, serve_retry_times, serve_rand, serve_logout, serve_set_info,
                serve_read
  <2>3. /\ r.secret = challenge_response(challenge[c], adminPassword)
        /\ UNCHANGED adminPassword
    BY <2>2 DEF serve_login, RightDigest
  <2>4. r.secret = challenge_response(challenge[c], password[c])
    BY <1>2 DEF LoginInv
  <2>. QED
    BY <2>3, <2>4 DEF challenge_response
<1>6. pc'[c] = "set_info" /\ got'[c].result = 0 => newPassword'[c] = adminPassword'
  <2>. SUFFICES ASSUME r.method = "set_info", got'[c].result = 0
                PROVE  newPassword[c] = adminPassword'
    BY <1>2
  <2>1. serve_set_info(r)
    BY DEF Router, serve_retry_times, serve_rand, serve_login, serve_login_wrong,
           serve_login_locked, serve_logout, serve_read
  <2>2. ~Served(r, Result(1))
    BY <1>3, <1>4
  <2>3. adminPassword' = r.secret
    BY <2>1, <2>2 DEF serve_set_info
  <2>. QED
    BY <1>2, <2>3 DEF AdminInv
<1>. QED
  BY <1>2, <1>5, <1>6 DEF AdminInv

LEMMA AdminNext ==
    ASSUME \A c, d \in Clients : c = d
    PROVE  IInv /\ LoginInv /\ AdminInv /\ [Next]_vars => AdminInv'
<1>. SUFFICES ASSUME IInv, LoginInv, AdminInv, [Next]_vars PROVE AdminInv'
  OBVIOUS
<1>1. CASE session_expires \/ lock_expires \/ UNCHANGED vars
  BY <1>1 DEF session_expires, lock_expires, vars, client_vars, network_vars,
              router_vars, AdminInv
<1>. QED
  BY <1>1, AdminClient, AdminRouter DEF Next

\* A client comes to be authenticated, or to hold another password, with the
\* administrator's.
LEMMA FollowsRouter ==
    IInv /\ AdminInv /\ [Next]_vars
        => [\A c \in Clients :
               \/ ~authenticated[c] /\ authenticated'[c]
               \/ password'[c] # password[c]
               => password'[c] = adminPassword']_vars
<1>. SUFFICES ASSUME IInv, AdminInv, Next, NEW c \in Clients,
                     \/ ~authenticated[c] /\ authenticated'[c]
                     \/ password'[c] # password[c]
              PROVE  password'[c] = adminPassword'
  OBVIOUS
<1>1. ~(\E r \in Pending : Router(r)) /\ ~session_expires /\ ~lock_expires
  BY DEF Router, serve_retry_times, serve_rand, serve_login, serve_login_wrong,
         serve_login_locked, serve_logout, serve_set_info, serve_read, Served,
         session_expires, lock_expires, client_vars
<1>2. Caller(c) \/ Progress(c)
  BY <1>1, ClientAlone DEF Next, IInv
<1>3. UNCHANGED adminPassword
  BY <1>2, ClientAlone DEF router_vars, IInv
<1>4. login_answered(c) \/ set_info_adopted(c)
  BY <1>2
     DEF IInv, TypeOK, Caller, Progress, login, login_no_password, logout,
         logout_nothing, call, call_refused, set_password, End,
         set_password_no_session, Refuse, StartLogin, retry_times_answered,
         rand_answered, set_info_refused, other_answered, undecodable, gives_up
<1>5. CASE login_answered(c)
  <2>1. got[c] # None /\ pc[c] = "login" /\ got[c].result = 3 /\ UNCHANGED password
    BY <1>5 DEF login_answered, End, IInv, TypeOK
  <2>. QED
    BY <1>3, <2>1 DEF AdminInv
<1>6. CASE set_info_adopted(c)
  <2>1. password'[c] = newPassword[c]
    BY <1>6 DEF set_info_adopted, IInv, TypeOK
  <2>. QED
    BY <1>3, <1>6, <2>1 DEF set_info_adopted, AdminInv
<1>. QED
  BY <1>4, <1>5, <1>6

\* One client alone is authenticated, and adopts a password, only with the
\* administrator's, whatever answers it loses, as long as none of its requests is
\* served late.
THEOREM FollowsAdmin ==
    ASSUME MaxLate = 0, \A c, d \in Clients : c = d
    PROVE  Spec => CredentialFollowsRouter
<1>1. IInv /\ LoginInv /\ [Next]_vars => LoginInv'
  BY LoginNext
<1>2. IInv /\ LoginInv /\ AdminInv /\ [Next]_vars => AdminInv'
  BY AdminNext
<1>. QED
  BY <1>1, <1>2, LoginInit, FollowsRouter, Invariance, PTL
     DEF Spec, CredentialFollowsRouter

---------------------------------------------------------------------------
(* The lockout guard as AttemptGuard                                       *)

\* What becomes of the claims when a client gets or loses leave for an attempt, and
\* when one comes to be late or is late no more.
LEMMA ClaimsChange ==
  ASSUME NEW c, NEW r
  PROVE  /\ c \in Attempting <=> <<c, "running">> \in Claims
         /\ r \in LateLogins <=> <<r, "late">> \in Claims
         /\ Attempting' = Attempting /\ LateLogins' = LateLogins => Claims' = Claims
         /\ Attempting' = Attempting \cup {c} /\ LateLogins' = LateLogins
            => Claims' = Claims \cup {<<c, "running">>}
         /\ Attempting' = Attempting \ {c} /\ LateLogins' = LateLogins
            => Claims' = Claims \ {<<c, "running">>}
         /\ Attempting' = Attempting /\ LateLogins' = LateLogins \ {r}
            => Claims' = Claims \ {<<r, "late">>}
         /\ Attempting' = Attempting \ {c} /\ LateLogins' = LateLogins \cup {r}
            => Claims' = (Claims \ {<<c, "running">>}) \cup {<<r, "late">>}
<1>1. \A x : /\ x \in Claims <=> \/ \E d \in Attempting : x = <<d, "running">>
                                 \/ \E q \in LateLogins : x = <<q, "late">>
             /\ x \in Claims' <=> \/ \E d \in Attempting' : x = <<d, "running">>
                                  \/ \E q \in LateLogins' : x = <<q, "late">>
  BY DEF Claims
<1>2. "running" # "late"
  OBVIOUS
<1>3. Attempting' = Attempting /\ LateLogins' = LateLogins => Claims' = Claims
  BY <1>1
<1>4. Attempting' = Attempting \cup {c} /\ LateLogins' = LateLogins
      => Claims' = Claims \cup {<<c, "running">>}
  BY <1>1
<1>5. Attempting' = Attempting \ {c} /\ LateLogins' = LateLogins
      => Claims' = Claims \ {<<c, "running">>}
  BY <1>1, <1>2
<1>6. Attempting' = Attempting /\ LateLogins' = LateLogins \ {r}
      => Claims' = Claims \ {<<r, "late">>}
  BY <1>1, <1>2
<1>7. Attempting' = Attempting \ {c} /\ LateLogins' = LateLogins \cup {r}
      => Claims' = (Claims \ {<<c, "running">>}) \cup {<<r, "late">>}
  BY <1>1, <1>2
<1>8. /\ c \in Attempting <=> <<c, "running">> \in Claims
      /\ r \in LateLogins <=> <<r, "late">> \in Claims
  BY <1>1, <1>2
<1>. QED
  BY <1>3, <1>4, <1>5, <1>6, <1>7, <1>8

\* What a step of the guard makes of the attempts l and the claims g.
Moves(l, g, l2, g2) ==
  \/ /\ l >= 2 /\ Cardinality(g) < Cardinality(Clients) + MaxLate
     /\ l2 = l
     /\ \E k \in g2 \ g : g2 = g \cup {k}
  \/ /\ \/ l >= 1 /\ l2 = l - 1
        \/ l2 = MaxRetries
        \/ l2 = l
     /\ \E k \in g : g2 = g \ {k}
  \/ /\ l2 = l
     /\ \E k \in g, n \in g2 \ g : g2 = (g \ {k}) \cup {n}
  \/ l2 \in {l, MaxRetries} /\ g2 = g

LEMMA MovesAreSteps ==
  Moves(retries, Claims, retries', Claims') => [Guard!Next]_(Guard!vars)
<1>1. \A S : Guard!Cardinality(S) = Cardinality(S)
  BY DEF Cardinality, Guard!Cardinality
<1>. QED
  BY <1>1 DEF Guard!Next, Guard!Grant, Guard!Spend, Guard!Redeem, Guard!Withdraw,
     Guard!Delay, Guard!Refill, Guard!vars, Moves

\* A client that has no leave for an attempt leaves room for one.
LEMMA RoomForOne ==
  ASSUME TypeOK, LateInv, NEW c \in Clients, c \notin Attempting
  PROVE  Cardinality(Claims) < Cardinality(Clients) + MaxLate
<1>. DEFINE A == Attempting \X {"running"}
            B == LateLogins \X {"late"}
<1>1. /\ IsFiniteSet(Attempting) /\ IsFiniteSet(LateLogins)
      /\ Cardinality(Attempting) \in Nat /\ Cardinality(LateLogins) \in Nat
      /\ Cardinality(LateLogins) <= MaxLate
      /\ Cardinality(Clients) \in Nat
  BY Counting, LateCounting
<1>2. Cardinality(Attempting) < Cardinality(Clients)
  <2>1. /\ IsFiniteSet(Clients \ {c})
        /\ Cardinality(Clients \ {c}) = Cardinality(Clients) - 1
    BY ClientsAssumption, FS_RemoveElement
  <2>2. Attempting \subseteq Clients \ {c}
    BY DEF Attempting
  <2>3. Cardinality(Attempting) <= Cardinality(Clients \ {c})
    BY <2>1, <2>2, FS_Subset
  <2>. QED
    BY <1>1, <2>1, <2>3
<1>3. /\ IsFiniteSet({"running"}) /\ Cardinality({"running"}) = 1
      /\ IsFiniteSet({"late"}) /\ Cardinality({"late"}) = 1
  BY FS_Singleton
<1>4. IsFiniteSet(A) /\ Cardinality(A) = Cardinality(Attempting)
  <2>1. IsFiniteSet(A) /\ Cardinality(A) = Cardinality(Attempting) * Cardinality({"running"})
    BY <1>1, <1>3, FS_Product
  <2>. QED
    BY <1>1, <1>3, <2>1
<1>5. IsFiniteSet(B) /\ Cardinality(B) = Cardinality(LateLogins)
  <2>1. IsFiniteSet(B) /\ Cardinality(B) = Cardinality(LateLogins) * Cardinality({"late"})
    BY <1>1, <1>3, FS_Product
  <2>. QED
    BY <1>1, <1>3, <2>1
<1>6. A \cap B = {} /\ Claims = A \cup B
  BY DEF Claims
<1>. HIDE DEF A, B
<1>7. Cardinality(A \cup B) = Cardinality(A) + Cardinality(B) - Cardinality(A \cap B)
  BY <1>4, <1>5, FS_Union
<1>8. Cardinality(Claims) = Cardinality(Attempting) + Cardinality(LateLogins)
  <2>1. Cardinality(A \cap B) = 0
    BY <1>6, FS_EmptySet
  <2>2. Cardinality(Claims) = Cardinality(A \cup B)
    BY <1>6
  <2>. QED
    BY <1>1, <1>4, <1>5, <1>7, <2>1, <2>2
<1>. QED
  BY <1>1, <1>2, <1>8

\* A step of client c gives its claim up, or makes it a late one.
LEMMA GuardClient ==
  ASSUME IInv, IInv', LateInv, NEW c \in Clients, Caller(c) \/ Progress(c)
  PROVE  Moves(retries, Claims, retries', Claims')
<1>1. retries' = retries
  BY ClientAlone DEF IInv, router_vars
<1>2. \A d \in Clients \ {c} : pc'[d] = pc[d] /\ got'[d] = got[d] /\ sent'[d] = sent[d]
  BY ClientAlone DEF IInv
<1>3. \A d \in Clients \ {c} : d \in Attempting' <=> d \in Attempting
  BY <1>2 DEF Attempting, AttemptAllowed
<1>4. Attempting' = Attempting \/ Attempting' = Attempting \ {c}
  <2>1. Attempting' \subseteq Attempting /\ Attempting \subseteq Clients
    BY AttemptsClient DEF Attempting
  <2>. QED
    BY <1>3, <2>1
<1>5. CASE LateLogins' = LateLogins
  <2>1. CASE c \in Attempting /\ Attempting' = Attempting \ {c}
    BY <1>1, <1>5, <2>1, ClaimsChange DEF Moves
  <2>2. CASE Attempting' = Attempting
    BY <1>1, <1>5, <2>2, ClaimsChange DEF Moves
  <2>. QED
    BY <1>4, <2>1, <2>2
<1>6. CASE LateLogins' # LateLogins
  <2>1. gives_up(c) /\ sent[c] # None /\ late' = late \cup {sent[c]}
    BY <1>6, LateClient DEF LateLogins, IInv
  <2>2. LateLogins' = LateLogins \cup {sent[c]} /\ sent[c] \notin LateLogins
        /\ sent[c].method = "login"
    BY <1>6, <2>1 DEF LateLogins
  <2>3. c \in Attempting
    BY <2>1, <2>2 DEF Attempting, IInv, ExchangeInv
  <2>4. Attempting' = Attempting \ {c}
    BY <1>4, <2>1, <2>3, AttemptsClient
  <2>5. Claims' = (Claims \ {<<c, "running">>}) \cup {<<sent[c], "late">>}
    BY <2>2, <2>4, ClaimsChange
  <2>6. <<c, "running">> \in Claims /\ <<sent[c], "late">> \notin Claims
    BY <2>2, <2>3, ClaimsChange
  <2>. QED
    BY <1>1, <2>5, <2>6 DEF Moves
<1>. QED
  BY <1>5, <1>6

\* What the answer to a request makes of the attempts.
LEMMA ServedAttempts ==
  ASSUME IInv, IInv', LateInv, NEW r \in Pending, NEW answer, Served(r, answer)
  PROVE  \/ /\ r.method = "get_retrytimes_and_time" /\ AttemptAllowed(answer)
            /\ LateLogins' = LateLogins
            /\ r.client \in Clients \ Attempting
            /\ Attempting' = Attempting \cup {r.client}
         \/ /\ r.method = "login"
            /\ LateLogins' = LateLogins
            /\ r.client \in Attempting
            /\ Attempting' = Attempting \ {r.client}
         \/ /\ r.method = "login"
            /\ r \in LateLogins
            /\ LateLogins' = LateLogins \ {r}
            /\ Attempting' = Attempting
         \/ /\ r.method # "login"
            /\ LateLogins' = LateLogins
            /\ Attempting' = Attempting
<1>. DEFINE c == r.client
<1>1. c \in Clients /\ r # None
  BY PendingTypes DEF IInv
<1>2. CASE late' # late
  <2>1. r \in late /\ LateLogins' = LateLogins \ {r} /\ Attempting' = Attempting
    BY <1>2, ServedLate
  <2>. QED
    BY <2>1 DEF LateLogins
<1>3. CASE late' = late
  <2>1. /\ sent[c] = r
        /\ sent' = [sent EXCEPT ![c] = None]
        /\ got' = [got EXCEPT ![c] = answer]
        /\ pc' = pc
    BY <1>3 DEF Served, client_vars
  <2>2. pc[c] = r.method /\ got[c] = None
    BY <1>1, <2>1 DEF IInv, ExchangeInv
  <2>3. \A d \in Clients \ {c} : d \in Attempting' <=> d \in Attempting
    BY <1>1, <2>1 DEF Attempting, AttemptAllowed, IInv, TypeOK
  <2>4. /\ LateLogins' = LateLogins
        /\ Attempting \subseteq Clients /\ Attempting' \subseteq Clients
    BY <1>3 DEF LateLogins, Attempting
  <2>5. CASE r.method = "login"
    <3>1. c \in Attempting /\ c \notin Attempting'
      BY <1>1, <2>1, <2>2, <2>5 DEF Attempting, IInv, TypeOK
    <3>. QED
      BY <2>3, <2>4, <2>5, <3>1
  <2>6. CASE r.method # "login" /\ (c \in Attempting' <=> c \in Attempting)
    <3>1. Attempting' = Attempting
      BY <2>3, <2>4, <2>6
    <3>. QED
      BY <2>4, <2>6, <3>1
  <2>7. CASE r.method # "login" /\ ~(c \in Attempting' <=> c \in Attempting)
    <3>1. r.method = "get_retrytimes_and_time" /\ c \notin Attempting
      BY <1>1, <2>1, <2>2, <2>7 DEF Attempting, AttemptAllowed, IInv, TypeOK
    <3>2. AttemptAllowed(answer)
      BY <1>1, <2>1, <2>2, <2>7, <3>1 DEF Attempting, AttemptAllowed, IInv, TypeOK
    <3>. QED
      BY <1>1, <2>3, <2>4, <2>7, <3>1, <3>2
  <2>. QED
    BY <2>5, <2>6, <2>7
<1>. QED
  BY <1>2, <1>3

\* Only the answer to the first exchange of a login grants a claim, and only a
\* judged login uses one up.
LEMMA GuardRouter ==
  ASSUME Reported, IInv, IInv', LateInv, NEW r \in Pending, Router(r)
  PROVE  Moves(retries, Claims, retries', Claims')
<1>. retries \in 0 .. MaxRetries
  BY DEF IInv, TypeOK
<1>1. ASSUME NEW answer, Served(r, answer), r.method = "login",
             \/ retries >= 1 /\ retries' = retries - 1
             \/ retries' = MaxRetries
             \/ retries' = retries
      PROVE  Moves(retries, Claims, retries', Claims')
  <2>1. CASE /\ LateLogins' = LateLogins /\ r.client \in Attempting
             /\ Attempting' = Attempting \ {r.client}
    BY <1>1, <2>1, ClaimsChange DEF Moves
  <2>2. CASE /\ r \in LateLogins /\ LateLogins' = LateLogins \ {r}
             /\ Attempting' = Attempting
    BY <1>1, <2>2, ClaimsChange DEF Moves
  <2>. QED
    BY <1>1, <2>1, <2>2, ServedAttempts
<1>2. ASSUME NEW answer, Served(r, answer), r.method # "login", retries' = retries,
             r.method = "get_retrytimes_and_time" => ~AttemptAllowed(answer)
      PROVE  Moves(retries, Claims, retries', Claims')
  <2>1. LateLogins' = LateLogins /\ Attempting' = Attempting
    BY <1>2, ServedAttempts
  <2>. QED
    BY <1>2, <2>1, ClaimsChange DEF Moves
<1>3. CASE serve_retry_times(r)
  <2>1. r.method = "get_retrytimes_and_time" /\ retries' = retries
    BY <1>3 DEF serve_retry_times, router_vars
  <2>2. PICK answer \in {Result(4), Says(0, retries, IF locked THEN 1 ELSE 0, None, None)} :
           Served(r, answer)
    BY <1>3 DEF serve_retry_times
  <2>3. CASE ~AttemptAllowed(answer)
    BY <1>2, <2>1, <2>2, <2>3
  <2>4. CASE AttemptAllowed(answer)
    <3>1. retries >= 2
      BY <2>2, <2>4 DEF AttemptAllowed, Result, Says
    <3>2. CASE LateLogins' = LateLogins /\ Attempting' = Attempting
      BY <2>1, <3>2, ClaimsChange DEF Moves
    <3>3. CASE /\ LateLogins' = LateLogins /\ r.client \in Clients \ Attempting
               /\ Attempting' = Attempting \cup {r.client}
      <4>1. Cardinality(Claims) < Cardinality(Clients) + MaxLate
        BY <3>3, RoomForOne DEF IInv
      <4>2. /\ Claims' = Claims \cup {<<r.client, "running">>}
            /\ <<r.client, "running">> \notin Claims
        BY <3>3, ClaimsChange
      <4>. QED
        BY <2>1, <3>1, <4>1, <4>2 DEF Moves
    <3>. QED
      BY <2>1, <2>2, <3>2, <3>3, ServedAttempts
  <2>. QED
    BY <2>3, <2>4
<1>4. CASE serve_login(r)
  BY <1>1, <1>4 DEF serve_login
<1>5. CASE serve_login_wrong(r)
  BY <1>1, <1>5 DEF serve_login_wrong, IInv, RouterInv
<1>6. CASE serve_login_locked(r)
  BY <1>1, <1>6 DEF serve_login_locked, router_vars
<1>7. CASE serve_rand(r) \/ serve_logout(r) \/ serve_set_info(r) \/ serve_read(r)
  <2>1. \E answer : Served(r, answer)
    BY <1>7 DEF serve_rand, serve_logout, serve_set_info, serve_read
  <2>2. /\ r.method \notin {"login", "get_retrytimes_and_time"}
        /\ retries' = retries
    BY <1>7 DEF serve_rand, serve_logout, serve_set_info, serve_read, router_vars
  <2>. QED
    BY <1>2, <2>1, <2>2
<1>. QED
  BY <1>3, <1>4, <1>5, <1>6, <1>7 DEF Router

\* Whatever is lost, late or locked in the three exchanges of a login, and however
\* many clients share the router, its guard is that of AttemptGuard, given that the
\* router reports the budget: an attempt is granted while two are left, costs one at
\* most, and is judged once.
THEOREM RefinesGuard ==
  ASSUME Reported
  PROVE  Spec => KeepsGuard
<1>1. Init => Guard!Init
  <2>. SUFFICES ASSUME Init PROVE Guard!Init
    OBVIOUS
  <2>1. Attempting = {} /\ LateLogins = {}
    BY DEF Init, Attempting, LateLogins
  <2>. QED
    BY <2>1 DEF Init, Guard!Init, Claims
<1>2. IInv /\ IInv' /\ LateInv /\ [Next]_vars => [Guard!Next]_(Guard!vars)
  <2>. SUFFICES ASSUME IInv, IInv', LateInv, [Next]_vars
                PROVE  Moves(retries, Claims, retries', Claims')
    BY MovesAreSteps
  <2>1. CASE session_expires \/ lock_expires \/ UNCHANGED vars
    <3>1. UNCHANGED <<pc, got, sent, late>> /\ retries' \in {retries, MaxRetries}
      BY <2>1 DEF session_expires, lock_expires, vars, client_vars, network_vars,
                  router_vars
    <3>2. Claims' = Claims
      BY <3>1 DEF Claims, Attempting, LateLogins
    <3>. QED
      BY <3>1, <3>2 DEF Moves
  <2>. QED
    BY <2>1, GuardClient, GuardRouter DEF Next
<1>3. BudgetInv => LateInv
  BY DEF BudgetInv
<1>4. IInv /\ IInv' /\ BudgetInv /\ [Next]_vars => BudgetInv'
  BY BudgetNext
<1>. QED
  BY <1>1, <1>2, <1>3, <1>4, BudgetInit, Invariance, PTL
     DEF Spec, KeepsGuard, Guard!Spec
=============================================================================
