------------------------- MODULE MaintenanceProofs -------------------------
(***************************************************************************)
(* What holds of the disruptive actions for any number of polls, chunks    *)
(* and operations, any slack, and a router and a network that fail at any  *)
(* moment.                                                                 *)
(***************************************************************************)
EXTENDS Maintenance, TLAPS

USE KindsAssumption, PasswordsAssumption, BoundsAssumption, LossyAssumption

\* What an operation knows of itself: nothing is accepted and no password tried
\* before the polls begin, and each poll is worth at most one wrong login; the wrong
\* logins of a factory_reset that is still polling are those it has not heard of.
OperationInv ==
    /\ pc # "idle" => op \in Kinds /\ outcome = "none"
    /\ pc \in {"before", "act"} => ~accepted /\ charged = 0 /\ unheard = 0
    /\ pc \in {"login", "read"} => attempts >= 1 /\ charged + attempts <= Attempts
    /\ pc = "login" => op = "factory_reset"
    /\ pc \in {"idle", "act", "login"} => got = None
    /\ pc = "read" /\ got # None => flight <= elapsed
    /\ op = "factory_reset" => secret # None
    /\ op = "restart_web_server" => secret = None
    /\ unheard <= charged
    /\ op = "factory_reset" /\ pc # "idle" => charged = unheard

\* Whose password the client holds.
CredentialInv ==
    /\ pc \in {"before", "act"} => password = original
    /\ pc \in {"login", "read"} =>
           password = IF secret # None THEN secret ELSE original

\* As long as the router has not booted its uptime runs with the clock of the
\* polls, and so does an answer on its way; a router that is down answers nothing.
ClockInv ==
    ~booted =>
        /\ pc = "before" /\ got # None /\ up => got <= uptime
        /\ pc = "act" /\ up => before <= uptime
        /\ pc \in {"login", "read"} /\ up => before + elapsed <= uptime
        /\ pc = "read" /\ got # None => before + elapsed <= got + flight

Safe ==
    /\ MistakenOnlyWhenFresh
    /\ AbortedUploadHarmless
    /\ CredentialFollowsAction
    /\ ToldWrongOnce

IInv == TypeOK /\ OperationInv /\ CredentialInv /\ ClockInv /\ Safe

\* Initially it holds.
LEMMA InitSafe == Init => IInv
<1>. SUFFICES ASSUME Init PROVE IInv
  OBVIOUS
<1>. USE DEF Init
<1>1. TypeOK
  <2>1. /\ password \in Passwords \cup {None} /\ admin \in Passwords
        /\ secret \in Passwords \cup {None} /\ original \in Passwords \cup {None}
    OBVIOUS
  <2>2. /\ op \in Kinds \cup {None} /\ owed \in Kinds \cup {None}
        /\ session \in {"live", "expired", "none"}
        /\ pc \in {"idle", "before", "act", "login", "read"}
        /\ outcome \in Outcomes
        /\ outage \in BOOLEAN /\ up \in BOOLEAN /\ booted \in BOOLEAN
        /\ accepted \in BOOLEAN
    BY DEF Outcomes
  <2>3. /\ before \in 0 .. MaxTime /\ got \in (0 .. MaxTime) \cup {None}
        /\ chunk \in 1 .. Chunks /\ elapsed \in 0 .. MaxTime
        /\ attempts \in 0 .. Attempts /\ calls \in 0 .. MaxCalls
        /\ uptime \in 0 .. MaxTime /\ charged \in 0 .. Attempts
        /\ flight \in 0 .. MaxTime /\ unheard \in 0 .. Attempts
    OBVIOUS
  <2>. QED
    BY <2>1, <2>2, <2>3 DEF TypeOK
<1>. USE DEF AllKinds
<1>2. OperationInv /\ CredentialInv /\ ClockInv
  BY DEF OperationInv, CredentialInv, ClockInv
<1>3. Safe
  BY DEF Safe, MistakenOnlyWhenFresh, AbortedUploadHarmless,
         CredentialFollowsAction, ToldWrongOnce
<1>. QED
  BY <1>1, <1>2, <1>3 DEF IInv

---------------------------------------------------------------------------
(* The steps of the operation                                              *)

\* A new operation forgets the outcome of the last one.
LEMMA CallKeeps ==
    ASSUME IInv, NEW kind \in Kinds, Call(kind)
    PROVE  IInv'
<1>1. PICK pw \in Passwords \cup {None} :
          /\ kind = "restart_web_server" => pw = None
          /\ kind = "factory_reset" => pw # None
          /\ begin(kind, pw)
  BY DEF Call
<1>. USE <1>1 DEF IInv, begin, credential_vars, poll_vars, router_vars
<1>2. TypeOK'
  <2>. USE DEF TypeOK
  <2>1. /\ calls' \in 0 .. MaxCalls /\ op' \in Kinds \cup {None}
        /\ secret' \in Passwords \cup {None}
        /\ original' \in Passwords \cup {None}
        /\ charged' \in 0 .. Attempts /\ flight' \in 0 .. MaxTime
        /\ unheard' \in 0 .. Attempts
    OBVIOUS
  <2>2. /\ pc' \in {"idle", "before", "act", "login", "read"}
        /\ outcome' \in Outcomes /\ booted' \in BOOLEAN /\ accepted' \in BOOLEAN
    BY DEF Outcomes
  <2>. QED
    BY <2>1, <2>2
<1>3. OperationInv' /\ CredentialInv'
  BY DEF TypeOK, OperationInv, CredentialInv
<1>4. ClockInv'
  BY DEF ClockInv, OperationInv
<1>5. Safe'
  BY DEF Safe, MistakenOnlyWhenFresh, AbortedUploadHarmless,
         CredentialFollowsAction, ToldWrongOnce
<1>. QED
  BY <1>2, <1>3, <1>4, <1>5

\* The router's clock is on its way to the client.
LEMMA ReadServedKeeps ==
    ASSUME IInv, read_served
    PROVE  IInv'
<1>. USE DEF IInv, read_served, credential_vars, call_vars, poll_vars, router_vars,
             history_vars
<1>1. TypeOK'
  BY DEF TypeOK, Outcomes, OperationInv
<1>2. OperationInv' /\ CredentialInv'
  BY DEF TypeOK, OperationInv, CredentialInv
<1>3. ClockInv'
  BY DEF TypeOK, ClockInv, OperationInv
<1>4. Safe'
  BY DEF TypeOK, Safe, MistakenOnlyWhenFresh, AbortedUploadHarmless,
         CredentialFollowsAction, ToldWrongOnce, OperationInv, CredentialInv,
         ClockInv
<1>. QED
  BY <1>1, <1>2, <1>3, <1>4

\* It arrives.
LEMMA BeforeReadKeeps ==
    ASSUME IInv, before_read
    PROVE  IInv'
<1>. USE DEF IInv, before_read, credential_vars, call_vars, poll_vars, router_vars,
             history_vars
<1>1. TypeOK'
  BY DEF TypeOK, Outcomes, OperationInv
<1>2. OperationInv' /\ CredentialInv'
  BY DEF TypeOK, OperationInv, CredentialInv
<1>3. ClockInv'
  BY DEF TypeOK, ClockInv, OperationInv
<1>4. Safe'
  BY DEF TypeOK, Safe, MistakenOnlyWhenFresh, AbortedUploadHarmless,
         CredentialFollowsAction, ToldWrongOnce, OperationInv, CredentialInv,
         ClockInv
<1>. QED
  BY <1>1, <1>2, <1>3, <1>4

\* It does not: nothing was sent.
LEMMA BeforeFailsKeeps ==
    ASSUME IInv, before_fails
    PROVE  IInv'
<1>. USE DEF IInv, before_fails, credential_vars, call_vars, poll_vars, router_vars,
             history_vars, End
<1>1. TypeOK'
  BY DEF TypeOK, Outcomes, OperationInv
<1>2. OperationInv' /\ CredentialInv'
  BY DEF TypeOK, OperationInv, CredentialInv
<1>3. ClockInv'
  BY DEF TypeOK, ClockInv, OperationInv
<1>4. Safe'
  BY DEF TypeOK, Safe, MistakenOnlyWhenFresh, AbortedUploadHarmless,
         CredentialFollowsAction, ToldWrongOnce, OperationInv, CredentialInv,
         ClockInv
<1>. QED
  BY <1>1, <1>2, <1>3, <1>4

\* The action: from here on the router may carry it out.
LEMMA ActKeeps ==
    ASSUME IInv, act
    PROVE  IInv'
<1>. USE DEF IInv, act, credential_vars, call_vars, poll_vars, router_vars,
             history_vars, Act, StartPolling
<1>1. TypeOK'
  <2>. USE DEF TypeOK
  <2>1. owed' \in Kinds \cup {None} /\ accepted' \in BOOLEAN
    BY DEF OperationInv
  <2>2. elapsed' = 0 /\ attempts' = Attempts /\ pc' \in {"login", "read"}
    OBVIOUS
  <2>4. outage' \in BOOLEAN
    OBVIOUS
  <2>3. /\ password' \in Passwords \cup {None}
        /\ session' \in {"live", "expired", "none"}
    OBVIOUS
  <2>. QED
    BY <2>1, <2>2, <2>3, <2>4
<1>2. OperationInv' /\ CredentialInv'
  BY DEF TypeOK, OperationInv, CredentialInv
<1>3. ClockInv'
  BY DEF TypeOK, ClockInv, OperationInv
<1>4. Safe'
  BY DEF TypeOK, Safe, MistakenOnlyWhenFresh, AbortedUploadHarmless,
         CredentialFollowsAction, ToldWrongOnce, OperationInv, CredentialInv,
         ClockInv
<1>. QED
  BY <1>1, <1>2, <1>3, <1>4

\* A chunk before the last one.
LEMMA UploadChunkKeeps ==
    ASSUME IInv, upload_chunk
    PROVE  IInv'
<1>. USE DEF IInv, upload_chunk, credential_vars, call_vars, poll_vars, router_vars,
             history_vars
<1>1. TypeOK'
  BY DEF TypeOK, Outcomes, OperationInv
<1>2. OperationInv' /\ CredentialInv'
  BY DEF TypeOK, OperationInv, CredentialInv
<1>3. ClockInv'
  BY DEF TypeOK, ClockInv, OperationInv
<1>4. Safe'
  BY DEF TypeOK, Safe, MistakenOnlyWhenFresh, AbortedUploadHarmless,
         CredentialFollowsAction, ToldWrongOnce, OperationInv, CredentialInv,
         ClockInv
<1>. QED
  BY <1>1, <1>2, <1>3, <1>4

\* An upload that ends early.
LEMMA UploadAbortedKeeps ==
    ASSUME IInv, upload_aborted
    PROVE  IInv'
<1>. USE DEF IInv, upload_aborted, credential_vars, call_vars, poll_vars, router_vars,
             history_vars, End
<1>1. TypeOK'
  BY DEF TypeOK, Outcomes, OperationInv
<1>2. OperationInv' /\ CredentialInv'
  BY DEF TypeOK, OperationInv, CredentialInv
<1>3. ClockInv'
  BY DEF TypeOK, ClockInv, OperationInv
<1>4. Safe'
  BY DEF TypeOK, Safe, MistakenOnlyWhenFresh, AbortedUploadHarmless,
         CredentialFollowsAction, ToldWrongOnce, OperationInv, CredentialInv,
         ClockInv
<1>. QED
  BY <1>1, <1>2, <1>3, <1>4

\* An upload the router refuses.
LEMMA UploadRefusedKeeps ==
    ASSUME IInv, upload_refused
    PROVE  IInv'
<1>. USE DEF IInv, upload_refused, credential_vars, call_vars, poll_vars, router_vars,
             history_vars, End
<1>1. TypeOK'
  BY DEF TypeOK, Outcomes, OperationInv
<1>2. OperationInv' /\ CredentialInv'
  BY DEF TypeOK, OperationInv, CredentialInv
<1>3. ClockInv'
  BY DEF TypeOK, ClockInv, OperationInv
<1>4. Safe'
  BY DEF TypeOK, Safe, MistakenOnlyWhenFresh, AbortedUploadHarmless,
         CredentialFollowsAction, ToldWrongOnce, OperationInv, CredentialInv,
         ClockInv
<1>. QED
  BY <1>1, <1>2, <1>3, <1>4

\* A login between the polls.
LEMMA LoginSucceedsKeeps ==
    ASSUME IInv, login_succeeds
    PROVE  IInv'
<1>. USE DEF IInv, login_succeeds, credential_vars, call_vars, poll_vars, router_vars,
             history_vars
<1>1. TypeOK'
  BY DEF TypeOK, Outcomes, OperationInv
<1>2. OperationInv' /\ CredentialInv'
  BY DEF TypeOK, OperationInv, CredentialInv
<1>3. ClockInv'
  BY DEF TypeOK, ClockInv, OperationInv
<1>4. Safe'
  BY DEF TypeOK, Safe, MistakenOnlyWhenFresh, AbortedUploadHarmless,
         CredentialFollowsAction, ToldWrongOnce, OperationInv, CredentialInv,
         ClockInv
<1>. QED
  BY <1>1, <1>2, <1>3, <1>4

\* The one wrong login a factory reset is told of.
LEMMA LoginRejectedKeeps ==
    ASSUME IInv, login_rejected
    PROVE  IInv'
<1>. USE DEF IInv, login_rejected, credential_vars, call_vars, poll_vars, router_vars,
             history_vars, End, Charge
<1>1. TypeOK'
  BY DEF TypeOK, Outcomes, OperationInv
<1>2. OperationInv' /\ CredentialInv'
  BY DEF TypeOK, OperationInv, CredentialInv
<1>3. ClockInv'
  BY DEF TypeOK, ClockInv, OperationInv
<1>4. Safe'
  BY DEF TypeOK, Safe, MistakenOnlyWhenFresh, AbortedUploadHarmless,
         CredentialFollowsAction, ToldWrongOnce, OperationInv, CredentialInv,
         ClockInv
<1>. QED
  BY <1>1, <1>2, <1>3, <1>4

\* A poll without a login, or with one whose answer is lost.
LEMMA LoginFailsKeeps ==
    ASSUME IInv, login_fails
    PROVE  IInv'
<1>. USE DEF IInv, login_fails, credential_vars, call_vars, poll_vars, router_vars,
             history_vars, End, PollAgain, ChargeUnheard
<1>1. TypeOK'
  BY DEF TypeOK, Outcomes, OperationInv
<1>2. OperationInv' /\ CredentialInv'
  BY DEF TypeOK, OperationInv, CredentialInv
<1>3. ClockInv'
  BY DEF TypeOK, ClockInv, OperationInv
<1>4. Safe'
  BY DEF TypeOK, Safe, MistakenOnlyWhenFresh, AbortedUploadHarmless,
         CredentialFollowsAction, ToldWrongOnce, OperationInv, CredentialInv,
         ClockInv
<1>. QED
  BY <1>1, <1>2, <1>3, <1>4

\* A boot is proved: by ClockInv, wrongly only at a fresh router.
LEMMA BootProvedKeeps ==
    ASSUME IInv, boot_proved
    PROVE  IInv'
<1>. USE DEF IInv, boot_proved, credential_vars, call_vars, poll_vars, router_vars,
             history_vars, End, ResetProof, FreshProof
<1>1. TypeOK'
  BY DEF TypeOK, Outcomes, OperationInv
<1>2. OperationInv' /\ CredentialInv'
  BY DEF TypeOK, OperationInv, CredentialInv
<1>3. ClockInv'
  BY DEF TypeOK, ClockInv, OperationInv
<1>4. Safe'
  BY DEF TypeOK, Safe, MistakenOnlyWhenFresh, AbortedUploadHarmless,
         CredentialFollowsAction, ToldWrongOnce, OperationInv, CredentialInv,
         ClockInv
<1>. QED
  BY <1>1, <1>2, <1>3, <1>4

\* It is not, yet.
LEMMA BootNotProvedKeeps ==
    ASSUME IInv, boot_not_proved
    PROVE  IInv'
<1>. USE DEF IInv, boot_not_proved, credential_vars, call_vars, poll_vars, router_vars,
             history_vars, End, PollAgain
<1>1. TypeOK'
  BY DEF TypeOK, Outcomes, OperationInv
<1>2. OperationInv' /\ CredentialInv'
  BY DEF TypeOK, OperationInv, CredentialInv
<1>3. ClockInv'
  BY DEF TypeOK, ClockInv, OperationInv
<1>4. Safe'
  BY DEF TypeOK, Safe, MistakenOnlyWhenFresh, AbortedUploadHarmless,
         CredentialFollowsAction, ToldWrongOnce, OperationInv, CredentialInv,
         ClockInv
<1>. QED
  BY <1>1, <1>2, <1>3, <1>4

\* The web server is back.
LEMMA WebServerBackKeeps ==
    ASSUME IInv, web_server_back
    PROVE  IInv'
<1>. USE DEF IInv, web_server_back, credential_vars, call_vars, poll_vars, router_vars,
             history_vars, End, ResetProof
<1>1. TypeOK'
  BY DEF TypeOK, Outcomes, OperationInv
<1>2. OperationInv' /\ CredentialInv'
  BY DEF TypeOK, OperationInv, CredentialInv
<1>3. ClockInv'
  BY DEF TypeOK, ClockInv, OperationInv
<1>4. MistakenOnlyWhenFresh'
  <2>1. CASE ResetProof(got)
    <3>1. booted
      BY <2>1 DEF TypeOK, ClockInv, OperationInv
    <3>. QED
      BY <2>1, <3>1 DEF MistakenOnlyWhenFresh
  <2>2. CASE ~ResetProof(got)
    BY <2>2 DEF MistakenOnlyWhenFresh
  <2>. QED
    BY <2>1, <2>2
<1>5. AbortedUploadHarmless' /\ ToldWrongOnce'
  BY DEF Safe, AbortedUploadHarmless, ToldWrongOnce
<1>6. CredentialFollowsAction'
  BY DEF CredentialFollowsAction, OperationInv, CredentialInv
<1>. QED
  BY <1>1, <1>2, <1>3, <1>4, <1>5, <1>6 DEF Safe

\* A poll that fails, with at most one wrong login.
LEMMA ReadFailsKeeps ==
    ASSUME IInv, read_fails
    PROVE  IInv'
<1>. USE DEF IInv, read_fails, credential_vars, call_vars, poll_vars, router_vars,
             history_vars, End, PollAgain, TryRelogin, Charge, ChargeUnheard
<1>1. TypeOK'
  BY DEF TypeOK, Outcomes, OperationInv
<1>2. OperationInv' /\ CredentialInv'
  BY DEF TypeOK, OperationInv, CredentialInv
<1>3. ClockInv'
  BY DEF TypeOK, ClockInv, OperationInv
<1>4. Safe'
  BY DEF TypeOK, Safe, MistakenOnlyWhenFresh, AbortedUploadHarmless,
         CredentialFollowsAction, ToldWrongOnce, OperationInv, CredentialInv,
         ClockInv
<1>. QED
  BY <1>1, <1>2, <1>3, <1>4

---------------------------------------------------------------------------
(* The steps of the caller and the router                                  *)

\* The caller logs in again.
LEMMA LoginKeeps ==
    ASSUME IInv, login
    PROVE  IInv'
<1>. USE DEF IInv, login, credential_vars, call_vars, poll_vars, router_vars,
             history_vars
<1>1. TypeOK'
  BY DEF TypeOK, Outcomes, OperationInv
<1>2. OperationInv' /\ CredentialInv'
  BY DEF TypeOK, OperationInv, CredentialInv
<1>3. ClockInv'
  BY DEF TypeOK, ClockInv, OperationInv
<1>4. Safe'
  BY DEF TypeOK, Safe, MistakenOnlyWhenFresh, AbortedUploadHarmless,
         CredentialFollowsAction, ToldWrongOnce, OperationInv, CredentialInv,
         ClockInv
<1>. QED
  BY <1>1, <1>2, <1>3, <1>4

\* The router forgets a session.
LEMMA SessionExpiresKeeps ==
    ASSUME IInv, session_expires
    PROVE  IInv'
<1>. USE DEF IInv, session_expires, credential_vars, call_vars, poll_vars, router_vars,
             history_vars, Expired
<1>1. TypeOK'
  BY DEF TypeOK, Outcomes, OperationInv
<1>2. OperationInv' /\ CredentialInv'
  BY DEF TypeOK, OperationInv, CredentialInv
<1>3. ClockInv'
  BY DEF TypeOK, ClockInv, OperationInv
<1>4. Safe'
  BY DEF TypeOK, Safe, MistakenOnlyWhenFresh, AbortedUploadHarmless,
         CredentialFollowsAction, ToldWrongOnce, OperationInv, CredentialInv,
         ClockInv
<1>. QED
  BY <1>1, <1>2, <1>3, <1>4

\* The web server restarts.
LEMMA WebServerRestartsKeeps ==
    ASSUME IInv, web_server_restarts
    PROVE  IInv'
<1>. USE DEF IInv, web_server_restarts, credential_vars, call_vars, poll_vars, router_vars,
             history_vars, Expired
<1>1. TypeOK'
  BY DEF TypeOK, Outcomes, OperationInv
<1>2. OperationInv' /\ CredentialInv'
  BY DEF TypeOK, OperationInv, CredentialInv
<1>3. ClockInv'
  BY DEF TypeOK, ClockInv, OperationInv
<1>4. Safe'
  BY DEF TypeOK, Safe, MistakenOnlyWhenFresh, AbortedUploadHarmless,
         CredentialFollowsAction, ToldWrongOnce, OperationInv, CredentialInv,
         ClockInv
<1>. QED
  BY <1>1, <1>2, <1>3, <1>4

\* The router goes down.
LEMMA ShutDownKeeps ==
    ASSUME IInv, shut_down
    PROVE  IInv'
<1>. USE DEF IInv, shut_down, credential_vars, call_vars, poll_vars, router_vars,
             history_vars, Expired
<1>1. TypeOK'
  <2>. USE DEF TypeOK
  <2>1. admin' \in Passwords /\ session' \in {"live", "expired", "none"}
    OBVIOUS
  <2>2. up' \in BOOLEAN /\ owed' \in Kinds \cup {None}
    OBVIOUS
  <2>. QED
    BY <2>1, <2>2
<1>2. OperationInv' /\ CredentialInv'
  BY DEF TypeOK, OperationInv, CredentialInv
<1>3. ClockInv'
  BY DEF TypeOK, ClockInv, OperationInv
<1>4. Safe'
  BY DEF TypeOK, Safe, MistakenOnlyWhenFresh, AbortedUploadHarmless,
         CredentialFollowsAction, ToldWrongOnce, OperationInv, CredentialInv,
         ClockInv
<1>. QED
  BY <1>1, <1>2, <1>3, <1>4

\* It comes up, with a new clock.
LEMMA BootKeeps ==
    ASSUME IInv, boot
    PROVE  IInv'
<1>. USE DEF IInv, boot, credential_vars, call_vars, poll_vars, router_vars,
             history_vars
<1>1. TypeOK'
  BY DEF TypeOK, Outcomes, OperationInv
<1>2. OperationInv' /\ CredentialInv'
  BY DEF TypeOK, OperationInv, CredentialInv
<1>3. ClockInv'
  BY DEF TypeOK, ClockInv, OperationInv
<1>4. Safe'
  BY DEF TypeOK, Safe, MistakenOnlyWhenFresh, AbortedUploadHarmless,
         CredentialFollowsAction, ToldWrongOnce, OperationInv, CredentialInv,
         ClockInv
<1>. QED
  BY <1>1, <1>2, <1>3, <1>4

\* Time passes, for the router and for the polls.
LEMMA TickKeeps ==
    ASSUME IInv, tick
    PROVE  IInv'
<1>. USE DEF IInv, tick, credential_vars, call_vars, poll_vars, router_vars,
             history_vars
<1>1. TypeOK'
  <2>. USE DEF TypeOK
  <2>1. uptime' \in 0 .. MaxTime /\ elapsed' \in 0 .. MaxTime
    OBVIOUS
  <2>2. flight' \in 0 .. MaxTime
    BY DEF OperationInv
  <2>. QED
    BY <2>1, <2>2
<1>2. OperationInv' /\ CredentialInv'
  BY DEF TypeOK, OperationInv, CredentialInv
<1>3. ClockInv'
  BY DEF TypeOK, ClockInv, OperationInv
<1>4. Safe'
  BY DEF TypeOK, Safe, MistakenOnlyWhenFresh, AbortedUploadHarmless,
         CredentialFollowsAction, ToldWrongOnce, OperationInv, CredentialInv,
         ClockInv
<1>. QED
  BY <1>1, <1>2, <1>3, <1>4

---------------------------------------------------------------------------
(* The theorem                                                             *)

\* Every step of the specification keeps the invariant.
LEMMA NextKeeps ==
    ASSUME IInv, [Next]_vars
    PROVE  IInv'
<1>1. CASE UNCHANGED vars
  <2>. USE <1>1 DEF vars, credential_vars, call_vars, poll_vars, router_vars,
                    history_vars
  <2>1. TypeOK' /\ OperationInv' /\ CredentialInv' /\ ClockInv'
    BY DEF IInv, TypeOK, OperationInv, CredentialInv, ClockInv
  <2>2. Safe'
    BY DEF IInv, Safe, MistakenOnlyWhenFresh, AbortedUploadHarmless,
           CredentialFollowsAction, ToldWrongOnce
  <2>. QED
    BY <2>1, <2>2 DEF IInv
<1>2. ASSUME NEW kind \in Kinds, Call(kind) PROVE IInv'
  BY <1>2, CallKeeps
<1>3. CASE Progress
  BY <1>3, ReadServedKeeps, BeforeReadKeeps, BeforeFailsKeeps, ActKeeps,
     UploadChunkKeeps, UploadAbortedKeeps, UploadRefusedKeeps,
     LoginSucceedsKeeps, LoginRejectedKeeps, LoginFailsKeeps, BootProvedKeeps,
     BootNotProvedKeeps, WebServerBackKeeps, ReadFailsKeeps DEF Progress
<1>4. CASE login \/ Router
  BY <1>4, LoginKeeps, SessionExpiresKeeps, WebServerRestartsKeeps,
     ShutDownKeeps, BootKeeps, TickKeeps DEF Router
<1>. QED
  BY <1>1, <1>2, <1>3, <1>4 DEF Next

\* So it holds always.
LEMMA Inductive == Spec => []IInv
  BY InitSafe, NextKeeps, PTL DEF Spec

\* Types.
THEOREM TypeCorrect == Spec => []TypeOK
<1>1. IInv => TypeOK
  BY DEF IInv
<1>. QED
  BY <1>1, Inductive, PTL

\* A boot that never was is reported only after an outage at a router that had
\* just been started: how long the polls go on and how often they fail is nothing
\* to it (maintenance.py:235-246, 545-553).
THEOREM ProofIsSound == Spec => []MistakenOnlyWhenFresh
<1>1. IInv => MistakenOnlyWhenFresh
  BY DEF IInv, Safe
<1>. QED
  BY <1>1, Inductive, PTL

\* An operation that was over before its action has not reached the router.
THEOREM EarlyEndHarmless == Spec => []AbortedUploadHarmless
<1>1. IInv => AbortedUploadHarmless
  BY DEF IInv, Safe
<1>. QED
  BY <1>1, Inductive, PTL

\* Whose password the client holds when an operation is over.
THEOREM CredentialKept == Spec => []CredentialFollowsAction
<1>1. IInv => CredentialFollowsAction
  BY DEF IInv, Safe
<1>. QED
  BY <1>1, Inductive, PTL

\* However its polls and logins fail, a factory reset does not repeat a password it
\* has been told is wrong: what it is charged beyond that one login are lost answers.
THEOREM LockoutSpared == Spec => []ToldWrongOnce
<1>1. IInv => ToldWrongOnce
  BY DEF IInv, Safe
<1>. QED
  BY <1>1, Inductive, PTL

\* Every step of a running operation brings it nearer to its end, whatever fails:
\* an action is sent at most once, and a chunk, too.
THEOREM Shortens == Spec => OperationsShorten
<1>1. ASSUME IInv, [Next]_vars, pc # "idle",
             <<pc, got, chunk, attempts>>' # <<pc, got, chunk, attempts>>
      PROVE  Left' \in 0 .. Left - 1
  <2>. USE <1>1 DEF Left, StartPolling, PollAgain, End, credential_vars, call_vars,
                    poll_vars
  <2>1. /\ attempts \in 0 .. Attempts /\ Attempts \in Nat \ {0}
        /\ chunk \in 1 .. Chunks /\ Chunks \in Nat \ {0}
        /\ pc \in {"before", "act", "login", "read"}
        /\ pc \in {"login", "read"} => attempts >= 1
        /\ pc \in {"act", "login"} => got = None
    BY DEF IInv, TypeOK, OperationInv
  <2>2. CASE read_served
    <3>1. got = None /\ got' # None /\ UNCHANGED <<pc, chunk, attempts>>
          /\ pc \in {"before", "read"}
      BY <2>2 DEF read_served, IInv, TypeOK
    <3>. QED
      BY <2>1, <3>1
  <2>3. CASE before_read
    BY <2>1, <2>3 DEF before_read
  <2>4. CASE before_fails \/ boot_proved \/ web_server_back
    BY <2>1, <2>4 DEF before_fails, boot_proved, web_server_back
  <2>5. CASE act
    BY <2>1, <2>5 DEF act
  <2>6. CASE upload_chunk
    BY <2>1, <2>6 DEF upload_chunk
  <2>7. CASE upload_aborted \/ upload_refused
    BY <2>1, <2>7 DEF upload_aborted, upload_refused
  <2>8. CASE login_succeeds
    BY <2>1, <2>8 DEF login_succeeds
  <2>9. CASE login_rejected
    BY <2>1, <2>9 DEF login_rejected
  <2>10. CASE login_fails \/ boot_not_proved \/ read_fails
    <3>1. PollAgain /\ pc \in {"login", "read"} /\ chunk' = chunk
      BY <2>10 DEF login_fails, boot_not_proved, read_fails
    <3>2. CASE attempts > 1
      BY <2>1, <3>1, <3>2
    <3>3. CASE attempts = 1
      BY <2>1, <3>1, <3>3
    <3>. QED
      <4>1. attempts > 1 \/ attempts = 1
        BY <2>1, <3>1
      <4>. QED
        BY <3>2, <3>3, <4>1
  <2>11. ~\E kind \in Kinds : Call(kind)
    BY DEF Call, begin
  <2>. QED
    BY <2>2, <2>3, <2>4, <2>5, <2>6, <2>7, <2>8, <2>9, <2>10, <2>11
    DEF Next, Progress, login, Router, session_expires, web_server_restarts,
        shut_down, boot, tick, vars
<1>. QED
  BY <1>1, Inductive, PTL DEF Spec, OperationsShorten
=============================================================================
