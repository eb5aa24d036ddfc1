# A verification project for nr2301-python

`nr2301` is a Python SDK for the management API of the Zyxel NR2301 router. It is
synchronous: a client makes one HTTP exchange at a time, with a timeout, and most
of its difficulty lies in what an exchange does not tell: whether a request whose
answer was lost was served, whether a write that was answered took effect, whether
a router that answers again has rebooted, whose change a read-back shows. This
directory holds TLA+ models of the parts of the SDK that deal with this, the TLC
runs that check them, and TLAPS proofs of what they promise.

Line numbers are those of `src/nr2301/` in the repository, without that prefix.

## The system

| Component | State | Operations | What is hard | Correct if | Modules |
|---|---|---|---|---|---|
| client, account (`client.py`, `auth.py`, `namespaces/account.py`) | `password`, `_authenticated`, the `CGISID` cookie | `login`, `logout`, `call`, `multicall`, `set_password` | a login is three exchanges; the lockout guard reads a counter others change; lost answers | calls carry a session, the last attempt is kept, the right password costs nothing, the credential follows the router's | Session |
| transport (`transport.py`) | cookie jar | one request at a time | requests or answers lost, late, undecodable | an exchange ends | in Session |
| verified writes (`lan.py`, `wifi.py`, `mobile.py`, `device.py`) | none of its own between calls | read, compare, write once, poll and log in again | writes that take effect late or never; expired sessions; other clients | see "The contract" | VerifiedWrite, Setting, Settings |
| LAN settings | none | DHCP object, resolvers, address, static reservations | whole-object writes; a check on data read earlier | nothing else changes; reservations fit | Lan |
| Wi-Fi settings | none | modes, Guest, sections, top-level settings, WPS switch, WPS actions | the Guest state is carried through | nothing else changes | WiFi, Services |
| mobile settings | none | network mode, data roaming | one object, two writers | no update is lost | Mobile |
| mobile connection | none | `reconnect_mobile`, `select_network` | cuts the connection it uses | what is returned holds | Reconnect |
| maintenance | none between calls; changes `client.password` | reboot, web server restart, restore, factory reset, timed reboot | proving a reboot by uptimes; credentials that change underneath | see "Maintenance" | Maintenance, Services |
| VPN profiles | none | enable, add, edit, delete, activate | indices chosen by the router; unread answers | add returns its own profile | Vpn |
| SIM | none | five PIN and PUK operations | guard and command are two exchanges | the last attempt is kept | SimPin |
| device | none | work mode (verified write); language, sleep time (direct writes) | the language is compared with a value read before the list of languages | what is returned was there | Settings, Services |
| direct writes (`firewall.py`, `sms.py`, `phonebook.py`, `statistics.py` and setters of three others) | none | check, write once, at most one read-back | lost answers that are raised; answers nobody reads | no second write; a reported success happened | DirectWrite, Services |
| firewall | none | switches, DMZ, pass-through, rule lists and tables, URL filter | a rule table is written whole | slots as named, nothing else | Firewall |
| SMS | none | send, save_draft, delete | success is three fields of the answer | a confirmed send was sent, and once | Sms |
| phonebook | none | contacts and groups | contacts are named by an index read before | other entries stay | Phonebook |
| statistics | none | MAC filter, flags, aliases, counters | optional fields of one payload | an alias that is not given stays | Statistics |
| Wi-Fi security matrix (`examples/explore_wifi_security_matrix.py`) | report, current case | set, look, restore, for every section and token | exceptions and interrupts anywhere; a router that coerces tokens | restored before the next case; a true report | Matrix |
| ddns, ota, package, tr069, version | none | reads and single calls | | | no |

All namespaces hold a reference to the client and use `call`, `multicall` or the
transport; there are no callbacks and no threads. Concurrency comes from several
clients (processes, or the web interface) at one router, and from requests that the
router serves after their client has given them up. `PROJECT.json` lists the hazards
line by line.

## The modules

### Session

`Session.tla` models the client side exchange by exchange, with the messages on
their way as state. `login`, `retry_times_answered`, `rand_answered` and
`login_answered` are the four pieces of `NR2301Client.login`; `set_info_*` those of
`set_password`. `gives_up` is the requests timeout: the request may be lost, its
answer may be lost, or it is served later (`late`, at most `MaxLate` at once).
`undecodable` is a body that is no JSON object, whose cookie is in the jar already.
The router is external: attempts left, a lock, a challenge per client, tokens. The
digest is taken to be injective. A login draws a fresh user identifier
(`client.py:118`) and the router keeps a challenge for each; one challenge per client
is more than the code allows, since a `get_rand` that was given up can then replace the
challenge of a later login, and a late login is judged by the later challenge.

A recovery loop elsewhere in the SDK is, for this module, a caller that logs in and
calls in any order.

Properties: `CallsCarrySession` (although the guard of `call` is satisfied by the
flag alone), `FinalAttemptKept` and `AttemptsCovered` (the lockout guard for one
client, and for several, or late logins, whose readings are old),
`RightPasswordNotCharged`, `CredentialFollowsRouter`, `KeepsGuard` (below),
`EveryOperationReturns` and `OperationsShorten`, its safety half: every exchange
brings the running operation nearer to its end, by a measure (`Left`) that its steps
only lower and that the router and other clients cannot raise. The same pair of
properties is stated of VerifiedWrite, Maintenance, Reconnect and Matrix
(`CampaignShortens`).

### AttemptGuard

`AttemptGuard.tla` is the pattern that the lockout guard of `login` and the retry guard of
the PIN and PUK operations have in common: look at a budget of attempts in one exchange,
use an attempt in a later one. A claim is granted while two attempts are left, is used
up, withdrawn, or outlives the client that gave it up. `Covered` is what that is worth:
the budget covers the claims, short of one attempt for each claim there can be beyond
two. `KeepsGuard` says that `Session` implements it, its claims being the logins past the
guard and the late requests (`Claims`), and that `SimPin` implements it twice, once for
the PIN and once for the PUK (`Claims(s)`), the commands given up keeping a claim of
their own. Each module's bound on its claims (`Most`) is a consequence of how many clients
and late requests there are.

### VerifiedWrite and Setting

`VerifiedWrite.tla` is the control shared by `_write_dhcp_payload`,
`set_static_reservations`, `set_address_legacy`, `_write_config_and_verify_mode`,
`update_ap_section`, `update_global_settings`, `set_wps_enabled` and
`_set_string_setting`: read, return if nothing is to be done, write once, then poll.
What an operation writes and accepts are constant operators (`Same`, `Applied`,
`Met`, ...), so that the module is proved about once; `Settings` gives them their
values. A write goes to `owed`; the router applies or drops it at any
moment, after the operation has ended if `Late`. A read in an expired session raises,
since the router's answer has no such object; `set_address_legacy` alone does not look
(`Trusting`): it takes any answer for an address that differs, writes (`write_unread`),
and its polls neither raise on such an answer nor log in again (`lan.py:345-374`).

**The contract.** `Setting.tla` is what a caller is promised, without polls,
sessions and answers: an operation asks, issues at most one write, and returns only
if at some moment since then the setting was as asked; a raised error says nothing
about the write unless it came before it. `ImplementsSetting` maps `VerifiedWrite`
to it, `phase` being the refinement mapping of the program counter.

Further: `EffectAtMostOnce`, `NoHiddenEffect`, `ReturnedHolds` (which includes what an
operation looks after although it rewrites it, `Kept`) and `OnlyAskedChanges` for a
client alone, `EveryOperationReturns`, `OperationsShorten`.

### Settings, with Lan, WiFi, Mobile

`Settings` is the composition: one router that holds all settings changed by verified
writes, clients whose operations on different parts interleave, one `owed` for all of
them. The data are in three modules and, for `set_work_mode`, in `Settings` itself.
`Lan`: the combined DHCP object as address, pool and resolvers, and a table of
reservations known by the subnet they lie in; `None` in `pool` is an object that cannot
be written back. `WiFi`: mode tokens as two switches, blocks of fields per access
point, merged by the router; all fields of one call are one write. The router may
start some modes with a Guest block of its own, or with none (`Losing`,
`FactoryGuest`), which is what `_guest_matches` is there to notice: `ReturnedHolds`
says that a mode change that returned has kept the verified fields. `Mobile`:
single-field writes.

`OnlyAskedChanges` says of every step that what the operation taking effect did not
mention stays: the other parts, and the rest of its own. Where an operation writes back
what it has read, that holds for a client alone; for operations whose payload is one
field (`Mobile`, the work mode) it holds among several clients and for late writes, too.
`TableFittedOnce` is about the check of reservations, which reads the address in one
exchange, the table in the next and writes in a third, while another client changes the
address: a table is sent only into a LAN that it has fitted at some moment of the
operation.

### DirectWrite and Services

`DirectWrite` is the control of the setters that send one write and do not recover from
losing its answer. Three kinds: those that read before and once after (`set_ui_language`,
`set_sleep_wait_time`, `set_timed_reboot`), those whose answer must report success (SMS,
WPS actions), and those that hand over the answer (firewall, statistics, phonebook). A
write goes to `owed` as above; the router may accept it although its answer is lost, and
may apply it at any later moment. The answer to a confirmed operation is any combination
of the three status fields (`SmsAnswers`), or of the two places where a WPS result can
be (`WpsAnswers`); `SmsConfirms` and `WpsConfirms` are the client's checks. About the
router it is assumed that it says in one of the fields that it has not done what it was
asked (`Arriving`): all of them together say so, any two may not.

`Firewall`, `Sms`, `Phonebook` and `Statistics` are the data: the checks of arguments
and what each payload replaces. In `Firewall` these are the packing functions, with
the number of slots a constant; `Services` puts them together with the direct writes of
`device`, `wifi` and `maintenance` at one router. What the router does with a payload is
external: it keeps what the payload does not carry, and a new entry takes the first
free place.

`EffectAtMostOnce` (a lost answer to `sms.send` is raised and never a reason to send
again), `NoHiddenEffect` (an error before the write leaves nothing behind),
`ConfirmedHappened` (no answer passes the check that the router may give before it is
done), `OnlyAskedChanges`, `SlotsAsNamed` (rules are in the slots they were
named for, and no item has vanished under another one), and `ImplementsSetting`: the
direct writes keep the same contract as the verified ones as far as they read back. An
operation that hands over an answer promises nothing, which `promised` says.

### Matrix

The campaign of the research tool, case by case. `update_ap_section` is taken with its
polls in one step, since those are checked in `VerifiedWrite`; that it ends by returning
or raising, with or without a write, is left open. The router makes of a token what it
likes. Fields that are no configuration are those of a radio (`Radios`,
`_NON_CONFIG_FIELDS`): all of another section is compared and restored.
`RestoredBeforeNext` is what the script prints at its start (line 275 of the script). `ReportIsTrue` says that the rows are exactly the cases gone through whose
section there is, in order and once, and relates a classification to what the router
held. `CampaignShortens` says that no case is run twice and nothing restored twice, and
`CampaignEnds` that a campaign without faults is complete although
the router coerces tokens and changes channels.

### Maintenance

`reboot`, `restart_web_server`, `restore_config_backup` and `factory_reset`, with
time in ticks. The client reads the uptime before, acts, and polls until
`ResetProof` (smaller than before) or `FreshProof` (an outage was seen and both
uptimes are at most the time since the action plus the slack). A login is one step
(its exchanges are those of Session).
`MistakenOnlyWhenFresh` says exactly how wrong the proof can be: a boot that never
was is reported only if an outage was seen at a router that had been up for no
longer than the slack and the flight time of the last answer. `AbortedUploadHarmless`,
`CredentialFollowsAction` and `ToldWrongOnce` are about uploads and credentials: whatever
way an operation ends, the client holds the password that goes with that end, and a
factory reset is told at most once that its password is wrong. It may be charged for
more: a login that the router judged, and whose answer was lost, raises a
`TransportError`, which is caught at `maintenance.py:393` and followed by another login
(`ChargeUnheard`).

### Reconnect

`reconnect_mobile` and `select_network` with `_ensure_session`, which takes any
object for a live session: the model lets the status call in an expired session
answer with an object or raise. A client whose password was cleared (`hasPassword`)
cannot log in again.

### Vpn

The profile table, with any free index for a new profile. A write whose answer is lost
has been served, never is, or is still on its way (`stray`) and is served while its
client does something else. `OwnProfileReturned` says that comparing two tables is
enough for `add_profile` if no two callers write the same public fields: it returns a
profile that its client has written since the operation began. That is the one of its
own write, unless an earlier write of the client arrives between the two reads; TLC
shows that not only a repeated add can be taken for it, but an edit, too, which turns the
profile of somebody else into the same fields.

### SimPin

The retry guard of the five PIN and PUK operations. `FinalAttemptContested`: the
last attempt goes only where two secrets were past the guard at the same time.
`AttemptsCovered` counts what that can cost with any number of clients: `Covered` of
AttemptGuard for the PIN and for the PUK; it is proved from `KeepsGuard`.

## The runs

| Run | Instance | Shows |
|---|---|---|
| Session_solo | one client, no late requests, three attempts, fairness | all single-client properties, `KeepsGuard` with a single claim, termination and its measure |
| Session_pair | two clients, one late request, two attempts | `AttemptsCovered` |
| Settings_solo | one client, two operations on any parts, prompt writes, fairness | `ReturnedHolds` with a mode that loses Guest, frame, termination |
| Settings_pair | two clients, one without a password, late writes of single fields, addresses and reservations | at most once, nothing hidden, no lost update, the check of reservations, the contract |
| Services_pair | two clients, one operation each of seven namespaces | no second write, no answer passes for a success that is none, slots, frame, the contract |
| Matrix_all | two sections, two tokens, any first case, with and without faults, fairness | restored, true report, campaign complete and never run twice |
| Maintenance_all | all operations, losses, power cuts, fairness | how wrong a proof can be; credentials; termination |
| Maintenance_restore | one restore with a recovery password | **finding**: the outage is made by the client |
| Reconnect_all | two operations, with and without a password, one late command, fairness | what is returned holds; termination |
| Reconnect_skipped | one call | **finding**: the connect is never sent |
| Vpn_pair | two clients, two calls each, two indices, one write at a time that arrives late | `OwnProfileReturned`; unread answers hide nothing from a client that is alone |
| SimPin_pair | two clients, two calls each, late commands | `FinalAttemptContested`, `KeepsGuard` for PIN and PUK, with late commands |

**Bounds.** Two clients are enough for an interleaving of two operations, which is
what every hazard between clients needs; statements for more are proved. Two
recovery attempts give a poll that is followed by another and one that is the last.
Two or three password attempts give the boundary of the guard on both sides. Two
indices let an index be freed and given out again. One late request at a time is
one more than the client knows of. Clients and passwords are symmetric in Session_pair
(they are only compared), clients in SimPin_pair, clients with their profiles and indices in
Vpn_pair. `KeepsGuard` of Session is checked with one claim
at a time; among several clients and with late logins, where `SimPin_pair` checks it for the
PIN and the PUK, it is proved, and `Session_pair` checks what follows from it there.
`OperationsShorten` is checked for Session and `CampaignShortens` for Matrix; for the other
three modules it is proved. The type invariants of Services, Matrix, Reconnect, Vpn and SimPin
are proved and not checked. Counters of calls bound the runs
(`MaxCalls`), and are no part of the program; `MaxTime` exceeds the slack by enough
for fresh and stale uptimes. The firewall tables have two slots and one, which is enough for
a slot named twice, one left empty, and an index beyond the last; `MaxSent` counts one
message more than the clients can send. Two sections and two tokens give the step from a
token to the next and from a section to the next; one of the sections is a radio. `Settings_pair` takes
operations whose write replaces one field or one object, because those are what its frame
property is true of. `Late` is FALSE in
`Matrix_all`: a write takes effect before its polls have ended, or never. Where a run sets `CHECK_DEADLOCK FALSE`, the system
stops when the calls are used up (or time has reached its bound).

**Fairness.** `FairSpec` asks for weak fairness of a running operation only, never
of the router: every exchange ends, because every request is given a timeout
(`transport.py:46-48`) and every sleep is finite. `EveryOperationReturns` rests on
nothing else; nothing is promised about writes taking effect. `Matrix` is the exception: a
campaign can only be complete if the router carries out what it accepted, so that its
`FairSpec` asks for that, too, and `CampaignEnds` promises completeness only for a run
without faults.

**Violations.** Runs named in `findings` check one property that a document or a
comment states, and TLC finds the code to violate it. They are the normal price of
an HTTP API without transactions, but a reader of the documents would not expect
them.

**Limits without a run.** What the instances above leave out, because the code does not
promise it; larger instances make TLC show each.

* `FinalAttemptKept` of Session fails with `MaxLate = 1` in `Session_solo.cfg`: a login
  that its client gave up is served after the next one has passed the guard, which then
  takes the last attempt (`CHANGELOG.md:99`: the SDK "refuses to consume the final
  remaining password attempt"). `RightPasswordNotCharged` and `CredentialFollowsRouter`
  fail then, too. `AttemptsCovered` is what is left, and is proved.
* `OnlyAskedChanges` of Settings fails for two clients in the LAN (`set_dns` writes the complete DHCP
  object back, `lan.py:478`) and in Wi-Fi (a mode switch writes the Guest token back,
  `wifi.py:320`). `README.md:282` and `README.md:326` promise it of the values
  read, not of those current at the write.
* A table of reservations can take effect in a LAN it does not fit, if another client changes
  the address after the check or the write is late: `set_static_reservations` reads the
  address once (`lan.py:262-281`). `TableFittedOnce` says that it fitted during the operation.
* A wrong factory password can cost as many attempts as there are polls, if the answer to
  each login is lost (`maintenance.py:350`, `393-397`). `restore_config_backup` goes on
  polling, and logging in, after a rejected recovery password (`_try_relogin`,
  `maintenance.py:687-694`); the code promises a single try for the factory reset only.
* `FinalAttemptKept` of SimPin fails for two clients that both read two attempts;
  `FinalAttemptContested` says that nothing else makes it fail.
* `ReturnedMeansBooted` fails for a plain reboot, too, if the router has booted shortly
  before and one poll is lost; `MistakenOnlyWhenFresh` says that it needs that much.
* `factory_reset` reports the supplied password as rejected (`maintenance.py:382-384`) when
  its first login reaches a router that has accepted the reset and not yet carried it out;
  the router then comes up with that password and the client holds the old one
  (`login_rejected` with `secret = ResetPassword`).
* `RestoredBeforeNext` of Matrix fails with `Late = TRUE`: a write that takes effect after
  the restoration was read back leaves the synthetic key in a section
  (`examples/explore_wifi_security_matrix.py:275`). An interrupt during `_restore_section`
  leaves it, too, but then no case follows. The script names REJECTED among its outcomes
  (line 9); a token the router did not take is classified as COERCED.
* `ReturnedHolds` of VerifiedWrite is for writes that take effect before the operation
  ends; with late ones only the contract is left. That of Vpn is void once a write of the
  client is late.
* `add_profile` returns a profile of its client that is not the one of its own write, if an
  earlier write to the same fields arrives between its two reads and its own is refused or
  undone: it compares fields and knows no more (`vpn.py:138-146`).

## The proofs

All proofs are for arbitrary constants that meet the named assumptions.

* `SessionProofs`: the type invariant; `CallsCarry`; `BudgetCovered`, by an
  invariant that counts the logins past the guard, those on their way and those given
  up, against the attempts the router keeps. It needs that the router reports the
  budget. `FinalAttempt` is its consequence for a single client without late requests.
  `NotCharged`, for any number of clients without late requests, follows challenge,
  digest and password through the two exchanges of a login (`LoginInv`). Late requests are
  excluded: a late login with an old password is charged after the password has changed,
  and in the model, not in the code, a late `get_rand` replaces the challenge of a running
  login. `FollowsAdmin` is for one client:
  another could change the password between an answer and its use.
  `RefinesGuard` maps every step to a step of AttemptGuard or to none: `Moves` lists what a
  step can do to the claims, `ClaimsBounded` that there is room for another whenever the
  guard lets one through. It needs, as `BudgetCovered` does, that the router reports the
  budget: where it does not, the code goes on without a guard.
* `SettingsProofs`, first part, about `VerifiedWrite`: the inductive invariant says which
  writes may be owed or applied in each phase of an operation (a call that has not written
  owes nothing, one that has owes at most its own write, exactly if it has not been
  applied), and gives `AtMostOnce` and `NothingHidden`. `KeepsContract` is the refinement
  step by step. Its hypotheses about the operations are `Same` implies `Asked`, and `Met`
  implies `Asked`. `ReturnedStays` and `FrameKept` are for one client without late writes.
* `SettingsProofs`, second part: the operations of all four namespaces meet those hypotheses, so that
  the three theorems hold for any networks, pools, resolvers, fields, values and modes.
  `NoUpdateLost` is the frame property for single-field operations among any clients, with
  late writes, where no invariant about the snapshot is to be had and none is needed.
  `SettingsInstance` says which operators the instance gives to `VerifiedWrite`.
  `ReservationsFit` rests on `CheckPassed` of the first part: from its check to its write,
  an operation has found the check to hold of something the router held meanwhile
  (`held`), for any clients and late writes.
* `ServicesProofs`: the inductive invariant of `DirectWrite` is the one of `VerifiedWrite`
  without sessions; its only hypothesis, `WritesStay`, is that a write leaves a
  configuration of the router, and is discharged for all namespaces in `ServicesStay`,
  where the work is the packing: whatever items pass the checks, `PositionalSlots` and
  `IndexedSlots` are total functions on the slots. `ServicesConfirmedHappens` rests on
  an invariant of `DirectWrite`, `ConfirmedHappens`, with the hypothesis `ChecksSuffice`: an
  answer the client takes for a success is one the router means as such. It is discharged
  for the status fields of SMS and the two envelopes of WPS. `RulesAsNamed` needs that accepted
  indexes are distinct; without it the last item for a slot replaces the others.
* `MaintenanceProofs`: `ProofIsSound` by relating `elapsed`, the uptimes and the flight of
  the last answer to the time since the router's boot: as long as it has not booted since
  the action, its uptime grows at least as fast as the time the client measures.
  `CredentialKept` follows the password through every place; `LockoutSpared` and
  `EarlyEndHarmless` count what the router was sent, the former the logins with a wrong
  password and those of them whose answer was lost.
* `ReconnectProofs`: `ReturnedStands`; commands are sent only before the polls, so that
  nothing but a transition or a late command can change what a poll has returned.
* `VpnProofs`: `OwnProfile`, by `NewAreMine`: from its first reading on, a profile
  with the operation's fields at an index that was free then was written by its client.
  Without it the property is not inductive, since matching compares fields only. That
  the profile is the one of the operation's own write needs that no write of the client is
  late (`StraysKnown`). `ReturnedStands` needs no more than that operations are counted
  before their first exchange: a step of another client, or a late write, voids the promise,
  a client's own operation ends in a read.
* `SimPinProofs`: `Contested`, by `GuardStands`: as long as a secret is not
  contested, whoever is past the guard has two attempts before it; and
  `FinalAttempt` for a single client. `RefinesGuard` is for any finite, nonempty set of
  clients (`ClientsAssumption`) and any number of late commands; what is counted is `MostClaims`.
  `Covers` follows from it, by an invariant of AttemptGuard alone (`Kept`): a grant finds
  two attempts left, and every attempt spent uses up a claim.
* `MatrixProofs`: `TypeCorrect`; `ReportTrue`, late writes or not, where the row of a case
  is its place in `_ordered_cases` and the history of a case reaches back to its first
  reading; `Restored`, without late writes, by `RestInv`: between cases nothing is owed and
  every section is configured as at first, and during one that holds of all other sections
  and of `original`.
* `Shortens`, in the proofs of Session, VerifiedWrite (`SettingsProofs`), Maintenance,
  Reconnect and Matrix: every step of an operation lowers its measure, which is a natural
  number. That and the fairness named above are the whole argument for
  `EveryOperationReturns` and `CampaignEnds`.

Only model-checked: liveness itself, since the prover has no rules for it under fairness.
No definition the proofs use is recursive.

## Not modelled

* The wire: URLs, headers, JSON, base64, GSM-7 and UTF-16 encodings, file bodies; checks of
  types and formats, which raise before anything is sent and appear as arguments that are
  refused. (`static_reservation_list` can raise `ValueError` or `TypeError` on a malformed
  entry in a poll, which is not an `NR2301Error` and ends the operation at once: not
  modelled.)
* Reads that change nothing, `backup_config` and `download_config_backup` (one call each,
  no state in the client), `set_timeout`, `protect_retries=False`.
* The namespaces ddns, ota, package, tr069 and version: reads and single calls. The other
  programs under `examples/`: a few reads or one operation that is modelled.
* What is left of these has no state to relate to another: a model would repeat the code.

## Plan

Done, in this order: Session, Setting and VerifiedWrite with Lan, WiFi, Maintenance,
Mobile, Reconnect, Vpn, SimPin; then the composition Settings with the work mode,
DirectWrite with Firewall, Sms, Phonebook, Statistics and their composition Services, the
proofs of Maintenance, Settings, Services and Reconnect, and Matrix.

Then the proofs of Matrix, the measures of termination, and AttemptGuard, the abstract
specification that Session and SimPin both implement.

1. What VerifiedWrite, Maintenance and Reconnect take of a session (none, live, expired, and
   back to live only through a login) as an abstract specification that Session implements.
2. What a caller of several settings may rely on, stated of Setting alone and carried over
   to Settings and Services through `ImplementsSetting`.
