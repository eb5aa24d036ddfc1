------------------------------ MODULE Session ------------------------------
(***************************************************************************)
(* The administrator session of NR2301Client: the challenge/response login *)
(* and its lockout guard, logout, the guard of every authenticated call,   *)
(* and the password change that adopts a new credential and logs in again. *)
(*                                                                         *)
(* A client is synchronous: it has at most one HTTP exchange outstanding   *)
(* and gives it up after the requests timeout.  The router may drop the    *)
(* request, drop the answer, answer with a body that does not decode, or   *)
(* serve a request after its client gave it up (MaxLate of them at once).  *)
(* The router side is external; it is modelled as far as the client code   *)
(* reads it: a budget of password attempts, a lock, a challenge per client *)
(* and a set of session tokens.                                            *)
(*                                                                         *)
(* A login draws a fresh user identifier (client.py:118), and the router   *)
(* keeps a challenge for each.  The model has one for each client: here a  *)
(* get_rand that was given up can replace the challenge of a later login,  *)
(* and a late login is judged by the later challenge, which the code rules *)
(* out.  The model can do more than the program, never less.               *)
(***************************************************************************)
EXTENDS Integers, FiniteSets

CONSTANTS
    Clients,     \* the SDK clients (one per process using the router)
    Passwords,   \* administrator passwords
    Rands,       \* challenges of account/get_rand
    Tokens,      \* values of the CGISID cookie
    None,        \* Python's None: no password, no cookie, no message
    MaxRetries,  \* password attempts the router grants before it locks
    Reported,    \* does the router report retry_times?
    MaxLate      \* bound: requests served after their client gave them up

ASSUME ClientsAssumption == IsFiniteSet(Clients) /\ Clients # {}
ASSUME NoneAssumption ==
    None \notin Passwords \cup Rands \cup Tokens /\ None \notin Nat
ASSUME RetriesAssumption == MaxRetries \in Nat /\ MaxRetries >= 1
ASSUME ReportedAssumption == Reported \in BOOLEAN
ASSUME LateAssumption == MaxLate \in Nat

VARIABLES
    \* the client
    password,       \* password[c]: client.password
    authenticated,  \* authenticated[c]: client._authenticated
    cookie,         \* cookie[c]: the CGISID in the cookie jar (session_id)
    pc,             \* pc[c]: the exchange the client is blocked in, or "idle"
    newPassword,    \* newPassword[c]: the argument of a running set_password
    outcome,        \* outcome[c]: how its last operation ended
    \* the network
    sent,           \* sent[c]: the request of c the router has not served
    got,            \* got[c]: the answer on its way back to c
    late,           \* requests given up by their client, still to be served
    \* the router (external)
    adminPassword,  \* the administrator password
    retries,        \* retry_times: attempts left
    locked,         \* remain_time > 0
    challenge,      \* challenge[c]: the rand issued last for a user_id of c
    sessions        \* session tokens the router accepts

client_vars == <<password, authenticated, cookie, pc, newPassword, outcome>>
network_vars == <<sent, got, late>>
router_vars == <<adminPassword, retries, locked, challenge, sessions>>
vars == <<client_vars, network_vars, router_vars>>

---------------------------------------------------------------------------
(* Messages                                                                *)

\* The methods of `account`, and "read": any other authenticated call.
Methods == {"get_retrytimes_and_time", "get_rand", "login", "logout",
            "set_info", "read"}

\* Calls made with authenticated=True.
Guarded == {"logout", "set_info", "read"}

\* Mutant of challenge_response: password and challenge in the wrong order.
SwappedResponse(rand, pw) == <<pw, rand>>

\* auth.challenge_response: MD5(rand + password), taken to be injective.
challenge_response(rand, pw) == <<rand, pw>>

Digests == Rands \X Passwords

Request ==
    {r \in [client: Clients,
            method: Methods,
            cookie: Tokens \cup {None},
            secret: Digests \cup Passwords \cup {None}] :
        r.method = "set_info" => r.secret \in Passwords}

\* Result codes: 0 success (and login's "username or password error"),
\* 1 refused, 3 login success, 4 pre-authentication refused, 6 account locked.
Results == {0, 1, 3, 4, 6}

Answer == [result: Results,
           retry_times: (0 .. MaxRetries) \cup {None},
           remain_time: {0, 1},
           rand: Rands \cup {None},
           cookie: Tokens \cup {None}]

Says(n, times, remain, rand, token) ==
    [result |-> n, retry_times |-> times, remain_time |-> remain,
     rand |-> rand, cookie |-> token]

Result(n) == Says(n, None, 0, None, None)

ASSUME MessageAssumption == None \notin Request /\ None \notin Answer

Outcomes == {"none", "returned", "AuthenticationError", "TransportError",
             "ProtocolError", "APIError"}

---------------------------------------------------------------------------
(* The client                                                              *)

\* client.session_id is truthy, or client._authenticated is set: the guard of
\* call() and multicall().
MayCall(c) == authenticated[c] \/ cookie[c] # None

\* transport.call: the request leaves with the cookie jar as it is.
Send(c, method, jar, secret) ==
    /\ sent' = [sent EXCEPT ![c] = [client |-> c, method |-> method,
                                    cookie |-> jar, secret |-> secret]]
    /\ pc' = [pc EXCEPT ![c] = method]

\* The running operation of c ends; logout() forgets the session in `finally`.
End(c, result, jar, auth) ==
    LET loggedOut == pc[c] = "logout"
    IN  /\ pc' = [pc EXCEPT ![c] = "idle"]
        /\ outcome' = [outcome EXCEPT ![c] = result]
        /\ cookie' = [cookie EXCEPT ![c] = IF loggedOut THEN None ELSE jar]
        /\ authenticated' =
               [authenticated EXCEPT ![c] = ~loggedOut /\ auth]
        /\ newPassword' = [newPassword EXCEPT ![c] = None]

\* An operation that ends before it sends anything.
Refuse(c, result) ==
    /\ pc[c] = "idle"
    /\ outcome' = [outcome EXCEPT ![c] = result]
    /\ UNCHANGED <<password, authenticated, cookie, pc, newPassword,
                   network_vars, router_vars>>

\* login(): forget the session, then ask for the attempts left.
StartLogin(c) ==
    /\ cookie' = [cookie EXCEPT ![c] = None]
    /\ authenticated' = [authenticated EXCEPT ![c] = FALSE]
    /\ Send(c, "get_retrytimes_and_time", None, None)

login(c) ==
    /\ pc[c] = "idle"
    /\ password[c] # None
    /\ StartLogin(c)
    /\ UNCHANGED <<password, newPassword, outcome, got, late, router_vars>>

login_no_password(c) ==
    /\ password[c] = None
    /\ Refuse(c, "AuthenticationError")

logout(c) ==
    /\ pc[c] = "idle"
    /\ MayCall(c)
    /\ Send(c, "logout", cookie[c], None)
    /\ UNCHANGED <<password, authenticated, cookie, newPassword, outcome,
                   got, late, router_vars>>

logout_nothing(c) ==
    /\ ~MayCall(c)
    /\ Refuse(c, "returned")

call(c) ==
    /\ pc[c] = "idle"
    /\ MayCall(c)
    /\ Send(c, "read", cookie[c], None)
    /\ UNCHANGED <<password, authenticated, cookie, newPassword, outcome,
                   got, late, router_vars>>

call_refused(c) ==
    /\ ~MayCall(c)
    /\ Refuse(c, "AuthenticationError")

\* The body carries the session id, which must be there to build it.
set_password(c, pw) ==
    /\ pc[c] = "idle"
    /\ cookie[c] # None
    /\ newPassword' = [newPassword EXCEPT ![c] = pw]
    /\ Send(c, "set_info", cookie[c], pw)
    /\ UNCHANGED <<password, authenticated, cookie, outcome, got, late,
                   router_vars>>

set_password_no_session(c) ==
    /\ cookie[c] = None
    /\ Refuse(c, "ProtocolError")

\* The answer of c is consumed.
Taken(c) == got' = [got EXCEPT ![c] = None] /\ UNCHANGED late

\* The cookie jar once an answer is in: requests stores what the answer sets.
Jar(c) == IF got[c].cookie # None THEN got[c].cookie ELSE cookie[c]

\* Mutant of AttemptAllowed: off by one, the last attempt may be used.
LastAttemptAllowed(answer) ==
    /\ answer.result = 0
    /\ answer.remain_time = 0
    /\ answer.retry_times = None \/ answer.retry_times > 0

\* The lockout guard of login(): a field the router leaves out guards nothing.
AttemptAllowed(answer) ==
    /\ answer.result = 0
    /\ answer.remain_time = 0
    /\ answer.retry_times = None \/ answer.retry_times > 1

\* login() after get_retrytimes_and_time.
retry_times_answered(c) ==
    /\ pc[c] = "get_retrytimes_and_time"
    /\ got[c] # None
    /\ Taken(c)
    /\ IF AttemptAllowed(got[c])
       THEN /\ Send(c, "get_rand", cookie[c], None)
            /\ UNCHANGED <<authenticated, cookie, newPassword, outcome>>
       ELSE /\ End(c, "AuthenticationError", Jar(c), FALSE)
            /\ UNCHANGED sent
    /\ UNCHANGED <<password, router_vars>>

\* Mutant of rand_answered: the client goes on with the challenge of an earlier
\* login.
stale_rand_answered(c) ==
    /\ pc[c] = "get_rand"
    /\ got[c] # None
    /\ Taken(c)
    /\ \E rand \in Rands :
          Send(c, "login", cookie[c], challenge_response(rand, password[c]))
    /\ UNCHANGED <<password, authenticated, cookie, newPassword, outcome,
                   router_vars>>

\* Mutant of rand_answered: a challenge that does not come is asked for again.
rand_asked_again(c) ==
    /\ pc[c] = "get_rand"
    /\ got[c] # None
    /\ Taken(c)
    /\ IF got[c].result = 0 /\ got[c].rand # None
       THEN Send(c, "login", cookie[c], challenge_response(got[c].rand, password[c]))
       ELSE Send(c, "get_rand", cookie[c], None)
    /\ UNCHANGED <<password, authenticated, cookie, newPassword, outcome,
                   router_vars>>

\* login() after get_rand: the digest is computed and sent.
rand_answered(c) ==
    /\ pc[c] = "get_rand"
    /\ got[c] # None
    /\ Taken(c)
    /\ IF got[c].result = 0 /\ got[c].rand # None
       THEN /\ Send(c, "login", cookie[c],
                    challenge_response(got[c].rand, password[c]))
            /\ UNCHANGED <<authenticated, cookie, newPassword, outcome>>
       ELSE /\ End(c, IF got[c].result = 0 THEN "ProtocolError"
                                           ELSE "AuthenticationError",
                   Jar(c), FALSE)
            /\ UNCHANGED sent
    /\ UNCHANGED <<password, router_vars>>

\* Mutant of login_answered: the session cookie is not asked for.
unchecked_login_answered(c) ==
    /\ pc[c] = "login"
    /\ got[c] # None
    /\ Taken(c)
    /\ LET accepted == got[c].result = 3
       IN  End(c, IF accepted THEN "returned" ELSE "AuthenticationError", Jar(c),
               accepted)
    /\ UNCHANGED <<password, sent, router_vars>>

\* login() after account/login.
login_answered(c) ==
    /\ pc[c] = "login"
    /\ got[c] # None
    /\ Taken(c)
    /\ LET accepted == got[c].result = 3
           established == Jar(c) # None
       IN  End(c, IF ~accepted THEN "AuthenticationError"
                  ELSE IF established THEN "returned" ELSE "ProtocolError",
               Jar(c), accepted /\ established)
    /\ UNCHANGED <<password, sent, router_vars>>

\* Mutant of set_info_refused: the password is adopted whatever the result.
set_info_refused_adopted(c) ==
    /\ pc[c] = "set_info"
    /\ got[c] # None
    /\ got[c].result # 0
    /\ Taken(c)
    /\ password' = [password EXCEPT ![c] = newPassword[c]]
    /\ End(c, "APIError", Jar(c), authenticated[c])
    /\ UNCHANGED <<sent, router_vars>>

\* set_password() after account/set_info: the router did not take it.
set_info_refused(c) ==
    /\ pc[c] = "set_info"
    /\ got[c] # None
    /\ got[c].result # 0
    /\ Taken(c)
    /\ End(c, "APIError", Jar(c), authenticated[c])
    /\ UNCHANGED <<password, sent, router_vars>>

\* set_password() after account/set_info: adopt the password and, unless the
\* caller declined (verify_login=False), prove it with a fresh login.
set_info_adopted(c) ==
    /\ pc[c] = "set_info"
    /\ got[c] # None
    /\ got[c].result = 0
    /\ Taken(c)
    /\ password' = [password EXCEPT ![c] = newPassword[c]]
    /\ \/ /\ StartLogin(c)
          /\ newPassword' = [newPassword EXCEPT ![c] = None]
          /\ UNCHANGED outcome
       \/ /\ End(c, "returned", Jar(c), authenticated[c])
          /\ UNCHANGED sent
    /\ UNCHANGED router_vars

\* logout() and call() hand the answer to the caller whatever it says.
other_answered(c) ==
    /\ pc[c] \in {"logout", "read"}
    /\ got[c] # None
    /\ Taken(c)
    /\ End(c, "returned", Jar(c), authenticated[c])
    /\ UNCHANGED <<password, sent, router_vars>>

\* The answer arrives but is no JSON object: the cookie it set is already in
\* the jar when _decode_json raises.
undecodable(c) ==
    /\ got[c] # None
    /\ Taken(c)
    /\ End(c, "ProtocolError", Jar(c), authenticated[c])
    /\ UNCHANGED <<password, sent, router_vars>>

\* Mutant of gives_up: a lost exchange is tried again, for ever.
tries_again(c) ==
    /\ pc[c] # "idle"
    /\ got[c] = None
    /\ Send(c, pc[c], cookie[c],
            IF pc[c] = "set_info" THEN newPassword[c] ELSE None)
    /\ UNCHANGED <<password, authenticated, cookie, newPassword, outcome, got,
                   late, router_vars>>

\* requests gives up (timeout, reset connection): TransportError.  The request
\* or its answer is lost, or the request is still to reach the router.
gives_up(c) ==
    /\ pc[c] # "idle"
    /\ End(c, "TransportError", cookie[c], authenticated[c])
    /\ sent' = [sent EXCEPT ![c] = None]
    /\ got' = [got EXCEPT ![c] = None]
    /\ \/ UNCHANGED late
       \/ /\ sent[c] # None
          /\ Cardinality(late) < MaxLate
          /\ late' = late \cup {sent[c]}
    /\ UNCHANGED <<password, router_vars>>

---------------------------------------------------------------------------
(* The router (external)                                                   *)

\* The router has served r; the answer of a late request goes nowhere.
Served(r, answer) ==
    /\ \/ /\ sent[r.client] = r
          /\ sent' = [sent EXCEPT ![r.client] = None]
          /\ got' = [got EXCEPT ![r.client] = answer]
          /\ UNCHANGED late
       \/ /\ r \in late
          /\ late' = late \ {r}
          /\ UNCHANGED <<sent, got>>
    /\ UNCHANGED client_vars

Pending == late \cup {sent[c] : c \in {d \in Clients : sent[d] # None}}

serve_retry_times(r) ==
    /\ r.method = "get_retrytimes_and_time"
    /\ \/ Served(r, Says(0, IF Reported THEN retries ELSE None,
                          IF locked THEN 1 ELSE 0, None, None))
       \/ Served(r, Result(4))
    /\ UNCHANGED router_vars

serve_rand(r) ==
    /\ r.method = "get_rand"
    /\ \/ \E rand \in Rands :
              /\ challenge' = [challenge EXCEPT ![r.client] = rand]
              /\ Served(r, Says(0, None, 0, rand, None))
       \/ /\ \E n \in {0, 4} : Served(r, Result(n))
          /\ UNCHANGED challenge
    /\ UNCHANGED <<adminPassword, retries, locked, sessions>>

\* A token nobody holds any more.
FreshTokens == Tokens \ (sessions \cup {cookie[c] : c \in Clients}
                                  \cup {r.cookie : r \in Pending})

RightDigest(r) ==
    r.secret = challenge_response(challenge[r.client], adminPassword)

serve_login(r) ==
    /\ r.method = "login"
    /\ ~locked
    /\ RightDigest(r)
    /\ \E token \in FreshTokens :
          /\ sessions' = sessions \cup {token}
          /\ \E set \in {token, None} :
                Served(r, Says(3, None, 0, None, set))
    /\ retries' = MaxRetries
    /\ UNCHANGED <<adminPassword, locked, challenge>>

serve_login_wrong(r) ==
    /\ r.method = "login"
    /\ ~locked
    /\ ~RightDigest(r)
    /\ retries' = retries - 1
    /\ locked' = (retries = 1)
    /\ Served(r, Result(0))
    /\ UNCHANGED <<adminPassword, challenge, sessions>>

serve_login_locked(r) ==
    /\ r.method = "login"
    /\ locked
    /\ Served(r, Result(6))
    /\ UNCHANGED router_vars

serve_logout(r) ==
    /\ r.method = "logout"
    /\ sessions' = sessions \ {r.cookie}
    /\ Served(r, Result(0))
    /\ UNCHANGED <<adminPassword, retries, locked, challenge>>

\* The new password is taken, or refused (-1001, or no such session).
serve_set_info(r) ==
    /\ r.method = "set_info"
    /\ \/ /\ r.cookie \in sessions
          /\ adminPassword' = r.secret
          /\ Served(r, Result(0))
       \/ /\ UNCHANGED adminPassword
          /\ Served(r, Result(1))
    /\ UNCHANGED <<retries, locked, challenge, sessions>>

serve_read(r) ==
    /\ r.method = "read"
    /\ Served(r, IF r.cookie \in sessions THEN Result(0) ELSE Result(1))
    /\ UNCHANGED router_vars

\* The session timeout, or a restart of the router.
session_expires ==
    /\ \E token \in sessions : sessions' = sessions \ {token}
    /\ UNCHANGED <<adminPassword, retries, locked, challenge>>
    /\ UNCHANGED <<client_vars, network_vars>>

lock_expires ==
    /\ locked
    /\ locked' = FALSE
    /\ retries' = MaxRetries
    /\ UNCHANGED <<adminPassword, challenge, sessions>>
    /\ UNCHANGED <<client_vars, network_vars>>

---------------------------------------------------------------------------
(* The specification                                                       *)

\* An unauthenticated client with or without a password, and a router that may
\* have counted failed attempts of others already.
Init ==
    /\ password \in [Clients -> Passwords \cup {None}]
    /\ authenticated = [c \in Clients |-> FALSE]
    /\ cookie = [c \in Clients |-> None]
    /\ pc = [c \in Clients |-> "idle"]
    /\ newPassword = [c \in Clients |-> None]
    /\ outcome = [c \in Clients |-> "none"]
    /\ sent = [c \in Clients |-> None]
    /\ got = [c \in Clients |-> None]
    /\ late = {}
    /\ adminPassword \in Passwords
    /\ retries \in 1 .. MaxRetries
    /\ locked = FALSE
    /\ challenge = [c \in Clients |-> None]
    /\ sessions = {}

\* The caller of client c starts an operation.
Caller(c) ==
    \/ login(c)
    \/ login_no_password(c)
    \/ logout(c)
    \/ logout_nothing(c)
    \/ call(c)
    \/ call_refused(c)
    \/ \E pw \in Passwords : set_password(c, pw)
    \/ set_password_no_session(c)

\* The running operation of client c goes on.
Progress(c) ==
    \/ retry_times_answered(c)
    \/ rand_answered(c)
    \/ login_answered(c)
    \/ set_info_refused(c)
    \/ set_info_adopted(c)
    \/ other_answered(c)
    \/ undecodable(c)
    \/ gives_up(c)

Router(r) ==
    \/ serve_retry_times(r)
    \/ serve_rand(r)
    \/ serve_login(r)
    \/ serve_login_wrong(r)
    \/ serve_login_locked(r)
    \/ serve_logout(r)
    \/ serve_set_info(r)
    \/ serve_read(r)

Next ==
    \/ \E c \in Clients : Caller(c) \/ Progress(c)
    \/ \E r \in Pending : Router(r)
    \/ session_expires
    \/ lock_expires

Spec == Init /\ [][Next]_vars

\* Every exchange ends: requests is always given a timeout (transport.py:46-48).
FairSpec == Spec /\ \A c \in Clients : WF_vars(Progress(c))

---------------------------------------------------------------------------
(* Properties                                                              *)

\* Every variable has its type.
TypeOK ==
    /\ password \in [Clients -> Passwords \cup {None}]
    /\ authenticated \in [Clients -> BOOLEAN]
    /\ cookie \in [Clients -> Tokens \cup {None}]
    /\ pc \in [Clients -> Methods \cup {"idle"}]
    /\ newPassword \in [Clients -> Passwords \cup {None}]
    /\ outcome \in [Clients -> Outcomes]
    /\ sent \in [Clients -> Request \cup {None}]
    /\ got \in [Clients -> Answer \cup {None}]
    /\ late \subseteq Request
    /\ adminPassword \in Passwords
    /\ retries \in 0 .. MaxRetries
    /\ locked \in BOOLEAN
    /\ challenge \in [Clients -> Rands \cup {None}]
    /\ sessions \subseteq Tokens

\* No authenticated request leaves without a session cookie, although the guard
\* of call() is satisfied by the _authenticated flag alone (client.py:186): the
\* flag and the cookie are set and cleared at different places, and an answer
\* can fail to set one, or set one and fail to decode.
CallsCarrySession ==
    \A r \in Pending : r.method \in Guarded => r.cookie # None

\* The clients that passed the login guard, or are about to by an answer already
\* on its way to them, and whose attempt the router has not judged.
Attempting ==
    {c \in Clients :
        \/ /\ pc[c] = "get_retrytimes_and_time"
           /\ got[c] # None
           /\ AttemptAllowed(got[c])
        \/ pc[c] = "get_rand"
        \/ pc[c] = "login" /\ sent[c] # None}

\* The attempts whose client has given them up.
LateLogins == {r \in late : r.method = "login"}

\* Check-then-act of the login guard (client.py:87-151) between clients, and
\* between a client and the logins it has given up: the router keeps an attempt
\* for every login that passed the guard and is not judged yet, short of one for
\* each client beyond the first two and one for each request that can come late.
\* Two clients can use up the budget between them, but, late requests aside,
\* neither meets a router the other has locked.
AttemptsCovered ==
    retries + MaxLate >=
        Cardinality(Attempting) + Cardinality(LateLogins)
        + 2 - Cardinality(Clients)

\* The logins past the guard, as the claims of AttemptGuard: those of the clients,
\* and those that stand for themselves.
Claims == (Attempting \X {"running"}) \cup (LateLogins \X {"late"})

Guard == INSTANCE AttemptGuard WITH left <- retries, granted <- Claims,
                                    Full <- MaxRetries,
                                    Most <- Cardinality(Clients) + MaxLate

\* The lockout guard is one, whatever is lost, late or locked in the three
\* exchanges of a login: a claim is granted by a reading of two attempts at least,
\* and costs one attempt at most (client.py:87-151).
KeepsGuard == Guard!Spec

\* The login guard keeps the last password attempt (client.py:87-116): a router
\* whose only user is one client, and which serves no request late, never gets
\* down to no attempt left, whatever answers are lost on the way and however
\* often the caller logs in with a wrong password.
FinalAttemptKept == retries >= 1

\* The router never charges an attempt to a client that holds the right
\* password: challenge, digest and password of one login belong together even
\* after lost answers, abandoned logins and password changes.
RightPasswordNotCharged ==
    [][retries' < retries => \E c \in Clients : password[c] # adminPassword]_vars

\* A client becomes authenticated only while it holds the administrator's
\* password, and set_password() makes it hold another one only when that is the
\* administrator's by then (account.py:92-102).
CredentialFollowsRouter ==
    [][\A c \in Clients :
          \/ ~authenticated[c] /\ authenticated'[c]
          \/ password'[c] # password[c]
          => password'[c] = adminPassword']_vars

\* What a running operation can still do at most: have an exchange answered, or
\* look at the answer.  A login is three exchanges, set_password one more.
Left(c) ==
    LET place == [m \in Methods \cup {"idle"} |->
                     CASE m = "set_info" -> 8
                       [] m = "get_retrytimes_and_time" -> 6
                       [] m = "get_rand" -> 4
                       [] m \in {"login", "logout", "read"} -> 2
                       [] m = "idle" -> 0]
    IN  place[pc[c]] - (IF got[c] = None THEN 0 ELSE 1)

\* Whatever is lost, late or refused, no exchange of an operation is repeated:
\* each of its steps brings it nearer to its end (client.py:87-151,
\* account.py:66-104), so that one login() is one password attempt at most.
OperationsShorten ==
    [][\A c \in Clients :
          pc[c] # "idle" /\ <<pc[c], got[c]>>' # <<pc[c], got[c]>>
          => Left(c)' \in 0 .. Left(c) - 1]_vars

\* Every operation comes back to its caller: a result or an exception.
EveryOperationReturns ==
    \A c \in Clients : pc[c] # "idle" ~> pc[c] = "idle"
============================================================================
