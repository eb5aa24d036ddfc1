---------------------------- MODULE Maintenance ----------------------------
(***************************************************************************)
(* The disruptive actions of the namespace maintenance: reboot, web server *)
(* restart, restoring a configuration backup and factory reset.            *)
(*                                                                         *)
(* Each reads the router's uptime (boot_time), sends its action, and then  *)
(* polls the uptime until it proves a new boot: it is smaller than before, *)
(* or an outage was observed and both uptimes are as fresh as the time     *)
(* since the action.  Time is counted in ticks; the slack of 10 or 15      *)
(* seconds that the client grants is Slack ticks.                          *)
(*                                                                         *)
(* One login is one step here; its exchanges are those of module Session.  *)
(***************************************************************************)
EXTENDS Integers

CONSTANTS
    Passwords,      \* administrator passwords
    ResetPassword,  \* the password after a factory reset or a restored backup
    Kinds,          \* the operations to consider, of those in AllKinds
    Chunks,         \* chunk_count of a backup
    Slack,          \* freshness slack, in ticks
    Attempts,       \* recovery_attempts
    MaxTime,        \* bound on uptime and on the time since the action
    MaxCalls,       \* bound: operations
    Lossy,          \* do answers get lost, sessions expire, power cuts happen?
    None            \* Python's None

AllKinds == {"reboot", "restart_web_server", "restore", "factory_reset"}

ASSUME KindsAssumption == Kinds \subseteq AllKinds /\ None \notin AllKinds
ASSUME PasswordsAssumption == ResetPassword \in Passwords /\ None \notin Passwords
ASSUME BoundsAssumption ==
    /\ Chunks \in Nat \ {0} /\ Attempts \in Nat \ {0}
    /\ Slack \in Nat /\ MaxTime \in Nat /\ MaxCalls \in Nat
    /\ None \notin Nat
ASSUME LossyAssumption == Lossy \in BOOLEAN

VARIABLES
    \* the client
    password,  \* client.password
    session,   \* "live", "expired" at the router, or "none" in the client
    pc,        \* where the running operation is, or "idle"
    op,        \* its kind
    secret,    \* factory_password or recovery_password, or None
    original,  \* original_password: the caller's credential
    before,    \* boot_time before the action
    got,       \* the boot_time on its way back
    chunk,     \* the chunk to upload
    outage,    \* outage_observed
    elapsed,   \* time since the action
    attempts,  \* polls left
    outcome,   \* how the last operation ended
    calls,     \* operations begun
    \* the router (external)
    up,        \* is it running?
    uptime,    \* boot_time
    owed,      \* the action it accepted and has not carried out, or None
    admin,     \* the administrator password
    \* history of the operation
    booted,    \* the router has booted since it began
    accepted,  \* the router has accepted its action
    charged,   \* logins with a wrong password it made
    unheard,   \* those of them whose answer was lost
    flight     \* time its last answer has been, or was, on its way

credential_vars == <<password, session>>
call_vars == <<op, secret, original, calls>>
poll_vars == <<before, got, chunk, outage, elapsed, attempts>>
router_vars == <<up, uptime, owed, admin>>
history_vars == <<booted, accepted, charged, unheard, flight>>
vars == <<credential_vars, call_vars, poll_vars, pc, outcome, router_vars,
          history_vars>>

\* "failed": an exception before the action; "aborted": the upload broke off
\* before its last chunk; "refused": file.cgi answered "other error"; "rejected":
\* the factory password was; "rebooted": a web server restart was a reboot;
\* "unverified": the recovery attempts are used up.
Outcomes == {"none", "returned", "failed", "aborted", "refused", "rejected",
             "rebooted", "unverified"}

---------------------------------------------------------------------------
(* Helpers                                                                 *)

End(o) ==
    /\ pc' = "idle"
    /\ outcome' = o
    /\ got' = None

\* login() with the client's password succeeds.
CanLogin == up /\ password = admin

\* The router is there and takes the password for wrong.
WrongLogin == up /\ password # None /\ password # admin

Charge ==
    /\ charged' = IF WrongLogin THEN charged + 1 ELSE charged
    /\ UNCHANGED unheard

\* The answer to a login is lost: the router may have judged the password.
ChargeUnheard ==
    \/ UNCHANGED <<charged, unheard>>
    \/ /\ Lossy
       /\ WrongLogin
       /\ charged' = charged + 1
       /\ unheard' = unheard + 1

\* _try_relogin: forgets the session; whatever it raises is only noted.
TryRelogin ==
    IF password = None THEN UNCHANGED <<session, charged, unheard>>
    ELSE \/ CanLogin /\ session' = "live" /\ UNCHANGED <<charged, unheard>>
         \/ ~CanLogin /\ session' = "none" /\ Charge
         \/ Lossy /\ session' = "none" /\ ChargeUnheard

\* A read of the uptime raises: no session, no router, or a lost answer.
ReadRaises == Lossy \/ session # "live" \/ ~up

\* Mutant of FreshProof: the uptime after the action is not looked at.
FreshBefore(current) == outage /\ before <= elapsed + Slack

\* The uptime proves a new boot.
ResetProof(current) == current < before
FreshProof(current) ==
    outage /\ current <= elapsed + Slack /\ before <= elapsed + Slack

\* Mutant of PollAgain: the last poll is not noticed.
PollPastTheLast ==
    /\ attempts' = attempts - 1
    /\ got' = None
    /\ pc' = IF op = "factory_reset" THEN "login" ELSE "read"
    /\ UNCHANGED <<password, outcome>>

\* Mutant of PollAgain: the polls are not counted.
PollForEver ==
    /\ got' = None
    /\ pc' = IF op = "factory_reset" THEN "login" ELSE "read"
    /\ UNCHANGED <<attempts, password, outcome>>

\* Mutant of PollAgain: the caller's credential is not given back.
PollAndForget ==
    \/ /\ attempts > 1
       /\ attempts' = attempts - 1
       /\ got' = None
       /\ pc' = IF op = "factory_reset" THEN "login" ELSE "read"
       /\ UNCHANGED <<password, outcome>>
    \/ /\ attempts = 1
       /\ attempts' = 0
       /\ End("unverified")
       /\ UNCHANGED password

\* Another poll, or the APIError after the last one.  factory_reset logs in
\* before each poll and gives the caller its credential back.
PollAgain ==
    \/ /\ attempts > 1
       /\ attempts' = attempts - 1
       /\ got' = None
       /\ pc' = IF op = "factory_reset" THEN "login" ELSE "read"
       /\ UNCHANGED <<password, outcome>>
    \/ /\ attempts = 1
       /\ attempts' = 0
       /\ End("unverified")
       /\ password' = IF op = "factory_reset" THEN original ELSE password

---------------------------------------------------------------------------
(* The operation up to its action                                          *)

begin(kind, pw) ==
    /\ pc = "idle"
    /\ calls < MaxCalls
    /\ calls' = calls + 1
    /\ op' = kind
    /\ secret' = pw
    /\ original' = password
    /\ pc' = "before"
    /\ outcome' = "none"
    /\ booted' = FALSE
    /\ accepted' = FALSE
    /\ charged' = 0
    /\ unheard' = 0
    /\ flight' = 0
    /\ UNCHANGED <<credential_vars, poll_vars, router_vars>>

\* The router answers the uptime the client is waiting for.
read_served ==
    /\ pc \in {"before", "read"}
    /\ got = None
    /\ session = "live"
    /\ up
    /\ got' = uptime
    /\ flight' = 0
    /\ UNCHANGED <<credential_vars, call_vars, before, chunk, outage, elapsed,
                   attempts, pc, outcome, router_vars, booted, accepted, charged,
                   unheard>>

before_read ==
    /\ pc = "before"
    /\ got # None
    /\ before' = got
    /\ got' = None
    /\ chunk' = 1
    /\ pc' = "act"
    /\ UNCHANGED <<credential_vars, call_vars, outage, elapsed, attempts,
                   outcome, router_vars, history_vars>>

before_fails ==
    /\ pc = "before"
    /\ ReadRaises
    /\ End("failed")
    /\ UNCHANGED <<credential_vars, call_vars, before, chunk, outage, elapsed,
                   attempts, router_vars, history_vars>>

\* The request that makes the router act reaches it, or does not.
Act ==
    \/ /\ up /\ session = "live"
       /\ owed' = op
       /\ accepted' = TRUE
    \/ /\ Lossy \/ ~up \/ session # "live"
       /\ UNCHANGED <<owed, accepted>>

\* The polls begin; an answered action has shown no outage, and neither has a
\* lost one, except to restore and factory_reset.  A password for the time
\* after replaces the caller's, and its session is forgotten.
StartPolling(answered) ==
    /\ outage' = (~answered /\ op \in {"restore", "factory_reset"})
    /\ elapsed' = 0
    /\ attempts' = Attempts
    /\ pc' = IF op = "factory_reset" THEN "login" ELSE "read"
    /\ IF secret # None
       THEN password' = secret /\ session' = "none"
       ELSE UNCHANGED credential_vars

\* The action request: of the call, or of the last chunk of a backup.
act ==
    /\ pc = "act"
    /\ op = "restore" => chunk = Chunks
    /\ Act
    /\ \/ up /\ StartPolling(TRUE)
       \/ (Lossy \/ ~up) /\ StartPolling(FALSE)
    /\ UNCHANGED <<call_vars, before, got, chunk, outcome, up, uptime, admin,
                   booted, charged, unheard, flight>>

upload_chunk ==
    /\ pc = "act"
    /\ op = "restore"
    /\ chunk < Chunks
    /\ up
    /\ chunk' = chunk + 1
    /\ UNCHANGED <<credential_vars, call_vars, before, got, outage, elapsed,
                   attempts, pc, outcome, router_vars, history_vars>>

\* Mutant of upload_aborted: the last chunk must be answered, too.
upload_aborted_at_any_chunk ==
    /\ pc = "act"
    /\ op = "restore"
    /\ IF chunk = Chunks THEN Act ELSE UNCHANGED <<owed, accepted>>
    /\ Lossy \/ ~up
    /\ End("aborted")
    /\ UNCHANGED <<credential_vars, call_vars, before, chunk, outage, elapsed,
                   attempts, up, uptime, admin, booted, charged, unheard, flight>>

\* A TransportError before the last chunk.
upload_aborted ==
    /\ pc = "act"
    /\ op = "restore"
    /\ chunk < Chunks
    /\ Lossy \/ ~up
    /\ End("aborted")
    /\ UNCHANGED <<credential_vars, call_vars, before, chunk, outage, elapsed,
                   attempts, router_vars, history_vars>>

\* file.cgi answers "other error" to a chunk.
upload_refused ==
    /\ pc = "act"
    /\ op = "restore"
    /\ up
    /\ End("refused")
    /\ UNCHANGED <<credential_vars, call_vars, before, chunk, outage, elapsed,
                   attempts, router_vars, history_vars>>

---------------------------------------------------------------------------
(* The polls                                                               *)

\* factory_reset logs in with the factory password before each poll.
login_succeeds ==
    /\ pc = "login"
    /\ CanLogin
    /\ session' = "live"
    /\ pc' = "read"
    /\ UNCHANGED <<password, call_vars, poll_vars, outcome, router_vars,
                   history_vars>>

\* Mutant of login_rejected: a rejected password is tried again.
login_tried_again ==
    /\ pc = "login"
    /\ WrongLogin
    /\ Charge
    /\ session' = "none"
    /\ PollAgain
    /\ UNCHANGED <<call_vars, before, chunk, outage, elapsed, router_vars, booted,
                   accepted, flight>>

\* AuthenticationError: no second try, which could cost the lockout budget.  It
\* is also what the guards before the attempt raise.
login_rejected ==
    /\ pc = "login"
    /\ \/ WrongLogin /\ Charge
       \/ Lossy /\ up /\ UNCHANGED <<charged, unheard>>
    /\ session' = "none"
    /\ password' = original
    /\ End("rejected")
    /\ UNCHANGED <<call_vars, before, chunk, outage, elapsed, attempts,
                   router_vars, booted, accepted, flight>>

\* Anything else a login raises, a lost answer among it, is an outage.
login_fails ==
    /\ pc = "login"
    /\ Lossy \/ ~up
    /\ session' = "none"
    /\ outage' = TRUE
    /\ ChargeUnheard
    /\ PollAgain
    /\ UNCHANGED <<call_vars, before, chunk, elapsed, router_vars, booted,
                   accepted, flight>>

boot_proved ==
    /\ pc = "read"
    /\ got # None
    /\ op # "restart_web_server"
    /\ ResetProof(got) \/ FreshProof(got)
    /\ End("returned")
    /\ UNCHANGED <<credential_vars, call_vars, before, chunk, outage, elapsed,
                   attempts, router_vars, history_vars>>

boot_not_proved ==
    /\ pc = "read"
    /\ got # None
    /\ op # "restart_web_server"
    /\ ~ResetProof(got) /\ ~FreshProof(got)
    /\ PollAgain
    /\ UNCHANGED <<session, call_vars, before, chunk, outage, elapsed,
                   router_vars, history_vars>>

web_server_back ==
    /\ pc = "read"
    /\ got # None
    /\ op = "restart_web_server"
    /\ End(IF ResetProof(got) THEN "rebooted" ELSE "returned")
    /\ UNCHANGED <<credential_vars, call_vars, before, chunk, outage, elapsed,
                   attempts, router_vars, history_vars>>

read_fails ==
    /\ pc = "read"
    /\ ReadRaises
    /\ outage' = TRUE
    /\ IF op = "factory_reset" THEN UNCHANGED <<session, charged, unheard>>
                              ELSE TryRelogin
    /\ PollAgain
    /\ UNCHANGED <<call_vars, before, chunk, elapsed, router_vars, booted,
                   accepted, flight>>

---------------------------------------------------------------------------
(* The caller and the router (external)                                    *)

login ==
    /\ pc = "idle"
    /\ session # "live"
    /\ CanLogin
    /\ session' = "live"
    /\ UNCHANGED <<password, call_vars, poll_vars, pc, outcome, router_vars,
                   history_vars>>

Expired == IF session = "live" THEN "expired" ELSE session

session_expires ==
    /\ Lossy
    /\ session = "live"
    /\ session' = Expired
    /\ UNCHANGED <<password, call_vars, poll_vars, pc, outcome, router_vars,
                   history_vars>>

\* The web server restarts and may forget its sessions.
web_server_restarts ==
    /\ up
    /\ owed = "restart_web_server"
    /\ owed' = None
    /\ session' \in {session, Expired}
    /\ UNCHANGED <<password, call_vars, poll_vars, pc, outcome, up, uptime,
                   admin, history_vars>>

\* The router goes down to carry out an action, or in a power cut.
shut_down ==
    /\ up
    /\ owed \in {"reboot", "restore", "factory_reset"} \/ Lossy
    /\ up' = FALSE
    /\ owed' = None
    /\ admin' = IF owed \in {"restore", "factory_reset"} THEN ResetPassword
                                                         ELSE admin
    /\ session' = Expired
    /\ UNCHANGED <<password, call_vars, poll_vars, pc, outcome, uptime,
                   history_vars>>

boot ==
    /\ ~up
    /\ up' = TRUE
    /\ uptime' = 0
    /\ booted' = TRUE
    /\ UNCHANGED <<credential_vars, call_vars, poll_vars, pc, outcome, owed,
                   admin, accepted, charged, unheard, flight>>

tick ==
    /\ uptime < MaxTime /\ elapsed < MaxTime
    /\ uptime' = IF up THEN uptime + 1 ELSE uptime
    /\ elapsed' = IF pc \in {"login", "read"} THEN elapsed + 1 ELSE elapsed
    /\ flight' = IF pc = "read" /\ got # None THEN flight + 1 ELSE flight
    /\ UNCHANGED <<credential_vars, call_vars, before, got, chunk, outage,
                   attempts, pc, outcome, up, owed, admin, booted, accepted,
                   charged, unheard>>

---------------------------------------------------------------------------
(* The specification                                                       *)

Init ==
    /\ admin \in Passwords
    /\ password \in {admin, None}
    /\ session = "live"
    /\ pc = "idle"
    /\ op = None
    /\ secret = None
    /\ original = None
    /\ before = 0
    /\ got = None
    /\ chunk = 1
    /\ outage = FALSE
    /\ elapsed = 0
    /\ attempts = 0
    /\ outcome = "none"
    /\ calls = 0
    /\ up = TRUE
    /\ uptime \in 0 .. MaxTime
    /\ owed = None
    /\ booted = FALSE
    /\ accepted = FALSE
    /\ charged = 0
    /\ unheard = 0
    /\ flight = 0

\* restore takes a recovery password or none, factory_reset needs its password.
Call(kind) ==
    \E pw \in Passwords \cup {None} :
        /\ kind \in {"reboot", "restart_web_server"} => pw = None
        /\ kind = "factory_reset" => pw # None
        /\ begin(kind, pw)

Progress ==
    \/ read_served
    \/ before_read
    \/ before_fails
    \/ act
    \/ upload_chunk
    \/ upload_aborted
    \/ upload_refused
    \/ login_succeeds
    \/ login_rejected
    \/ login_fails
    \/ boot_proved
    \/ boot_not_proved
    \/ web_server_back
    \/ read_fails

Router ==
    \/ session_expires
    \/ web_server_restarts
    \/ shut_down
    \/ boot
    \/ tick

Next ==
    \/ \E kind \in Kinds : Call(kind)
    \/ Progress
    \/ login
    \/ Router

Spec == Init /\ [][Next]_vars

\* Every HTTP exchange ends in an answer or an error: the requests timeout.
FairSpec == Spec /\ WF_vars(Progress)

---------------------------------------------------------------------------
(* Properties                                                              *)

\* Every variable has its type.
TypeOK ==
    /\ password \in Passwords \cup {None}
    /\ session \in {"live", "expired", "none"}
    /\ pc \in {"idle", "before", "act", "login", "read"}
    /\ op \in Kinds \cup {None}
    /\ secret \in Passwords \cup {None}
    /\ original \in Passwords \cup {None}
    /\ before \in 0 .. MaxTime
    /\ got \in (0 .. MaxTime) \cup {None}
    /\ chunk \in 1 .. Chunks
    /\ outage \in BOOLEAN
    /\ elapsed \in 0 .. MaxTime
    /\ attempts \in 0 .. Attempts
    /\ outcome \in Outcomes
    /\ calls \in 0 .. MaxCalls
    /\ up \in BOOLEAN
    /\ uptime \in 0 .. MaxTime
    /\ owed \in Kinds \cup {None}
    /\ admin \in Passwords
    /\ booted \in BOOLEAN
    /\ accepted \in BOOLEAN
    /\ charged \in 0 .. Attempts
    /\ unheard \in 0 .. Attempts
    /\ flight \in 0 .. MaxTime

\* How wrong the proof of a new boot can be (maintenance.py:235-246, 545-553): a
\* web server restart that reports a reboot is right, and an operation that
\* reports a boot that never was has observed an outage at a router that had
\* been up, when it began, for no longer than the slack and the flight of the
\* last answer.  How long the polls went on does not matter.
MistakenOnlyWhenFresh ==
    /\ outcome = "rebooted" => booted
    /\ outcome = "returned" /\ op # "restart_web_server" /\ ~booted
           => outage /\ before <= Slack + flight

\* An operation that ended before the request that makes the router act: the
\* router has not accepted it (an upload broken off before the last chunk).
AbortedUploadHarmless ==
    outcome \in {"failed", "aborted", "refused"} => ~accepted

\* The client's credential changes only once the router may have been reset: a
\* restore that is over before its last chunk was sent has kept the caller's, and
\* factory_reset gives it back unless it returns (maintenance.py:218, 381, 402).
\* A restore that is not verified leaves the recovery password.
CredentialFollowsAction ==
    LET moved == IF op = "factory_reset" THEN {"returned"}
                                         ELSE {"returned", "unverified"}
    IN  pc = "idle" /\ op # None =>
            password = IF secret # None /\ outcome \in moved THEN secret
                                                             ELSE original

\* factory_reset never tries again a password it has been told is wrong: at most
\* one of the wrong logins it is charged with was answered, and only a lost answer
\* makes it spend another attempt of the lockout (maintenance.py:350, 378-397).
ToldWrongOnce == op = "factory_reset" => charged <= unheard + 1

\* What maintenance.py:502-504 and 144-146 say: the action is considered
\* successful only after boot_time proves a new boot.
ReturnedMeansBooted ==
    outcome = "returned" /\ op # "restart_web_server" => booted

\* What a running operation can still do at most: send a request, a chunk, a login or
\* a read, or look at an uptime.  A poll is three of these.
Left ==
    LET place == [idle |-> 0,
                  before |-> 3 * Attempts + Chunks + 2,
                  act |-> 3 * Attempts + Chunks + 1 - chunk,
                  login |-> 3 * attempts,
                  read |-> 3 * attempts - 1]
    IN  place[pc] - (IF got = None THEN 0 ELSE 1)

\* Whatever fails, every step of a running operation brings it nearer to its end: no
\* recovery goes back to the action or to an earlier chunk, or gains a poll
\* (maintenance.py:224-286, 355-417, 520-585).
OperationsShorten ==
    [][pc # "idle" /\ <<pc, got, chunk, attempts>>' # <<pc, got, chunk, attempts>>
          => Left' \in 0 .. Left - 1]_vars

\* Every operation comes back to its caller.
EveryOperationReturns == pc # "idle" ~> pc = "idle"
============================================================================
