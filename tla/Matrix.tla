------------------------------- MODULE Matrix -------------------------------
(***************************************************************************)
(* The campaign of examples/explore_wifi_security_matrix.py: for each      *)
(* Wi-Fi section and each encryption token, set the token with a synthetic *)
(* key, read back what the router made of it, restore the section, check   *)
(* that it is restored, and only then add a row to the report.             *)
(*                                                                         *)
(* Both the setting and the restoring are calls of wifi.update_ap_section, *)
(* whose polls are one step here (they are those of VerifiedWrite) and     *)
(* whose exception is only noted in the row.  The router may make anything *)
(* of a token and a key; a section it changes is the one it was sent.      *)
(***************************************************************************)
EXTENDS Integers, Sequences

CONSTANTS
    SectionList,  \* SECTIONS
    Radios,       \* wifi_if_24G and wifi_if_5G, of which _NON_CONFIG_FIELDS knows
                  \*   fields that are no configuration
    TokenList,    \* TOKENS
    Open,         \* the token "none"
    Keys,         \* Wi-Fi keys
    EmptyKey,     \* the synthetic key of Open
    TestKey,      \* and of the other tokens
    Channels,     \* cur_channel: those fields; of another section, the fields
                  \*   that are neither token nor key
    Late,         \* may a write take effect after its polls?
    None          \* Python's None, or a section that is no mapping

Sections == {SectionList[i] : i \in 1 .. Len(SectionList)}
Tokens == {TokenList[i] : i \in 1 .. Len(TokenList)}

ASSUME ListsAssumption ==
    SectionList \in Seq(Sections) /\ TokenList \in Seq(Tokens)
ASSUME KeysAssumption == {EmptyKey, TestKey} \subseteq Keys /\ Late \in BOOLEAN

ASSUME RadiosAssumption == Radios \subseteq Sections

Blocks == [encryption: Tokens, key: Keys, cur_channel: Channels]

\* _ordered_cases: section by section, token by token.
CaseCount == Len(SectionList) * Len(TokenList)
SectionOf(i) == SectionList[((i - 1) \div Len(TokenList)) + 1]
TokenOf(i) == TokenList[((i - 1) % Len(TokenList)) + 1]

VARIABLES
    faults,       \* may anything fail in this run, or the operator interrupt it?
    pc,           \* where the program is
    start,        \* the first case, of NR2301_SECURITY_START
    case,         \* the current case
    initial,      \* the configuration read at first
    original,     \* the section before the case
    actual,       \* actual_block
    class,        \* its classification
    interrupted,  \* an exception is on its way through `finally`
    rows,         \* the cases in the report
    complete,     \* complete_requested_range of the report
    config,       \* the router (external): its sections
    owed,         \* writes it has accepted and not applied
    held          \* history: what the section has been since the case began

report_vars == <<start, rows, complete>>
case_vars == <<case, initial, original, actual, class, interrupted>>
router_vars == <<config, owed, held>>
vars == <<faults, pc, report_vars, case_vars, router_vars>>

Classes == {"UNVERIFIED", "COERCED", "ACCEPTED", "ACCEPTED_TOKEN_KEY_IGNORED",
            "TOKEN_ACCEPTED_KEY_DIFFERENT"}

ASSUME NoneAssumption == None \notin Blocks \cup Classes

Write == [section: Sections, block: Blocks]

---------------------------------------------------------------------------
(* Helpers                                                                 *)

section == SectionOf(case)
token == TokenOf(case)

\* _test_key
KeyFor(t) == IF t = Open THEN EmptyKey ELSE TestKey

\* What a case sets of a section.
Credentials(block) == [encryption |-> block.encryption, key |-> block.key]

\* Mutant of View: the channel belongs to it.
WholeBlock(s, block) == block

\* _configurable_view
View(s, block) ==
    IF block = None THEN None
    ELSE IF s \in Radios THEN Credentials(block) ELSE block

\* The section is there and has the changes already.
Carries(block, changes) ==
    block # None /\ \A k \in DOMAIN changes : block[k] = changes[k]

\* The block that update_ap_section posts: the current one with the changes.
Posted(block, changes) ==
    [k \in DOMAIN block |-> IF k \in DOMAIN changes THEN changes[k] ELSE block[k]]

\* Mutant of Classify: a token that is read back is accepted.
TokenOnly(block) ==
    IF block = None THEN "UNVERIFIED"
    ELSE IF block.encryption # token THEN "COERCED" ELSE "ACCEPTED"

\* _classify
Classify(block) ==
    IF block = None THEN "UNVERIFIED"
    ELSE IF block.encryption # token THEN "COERCED"
    ELSE IF block.key = KeyFor(token) THEN "ACCEPTED"
    ELSE IF token = Open THEN "ACCEPTED_TOKEN_KEY_IGNORED"
    ELSE "TOKEN_ACCEPTED_KEY_DIFFERENT"

Goto(place) ==
    /\ pc' = place
    /\ UNCHANGED <<faults, report_vars>>

\* An exception that nobody catches, once the section is restored or given up.
Abort ==
    /\ Goto("closed")
    /\ UNCHANGED <<case_vars, router_vars>>

---------------------------------------------------------------------------
(* The campaign                                                            *)

\* router.login() and the first configuration.
read_initial ==
    /\ pc = "start"
    /\ initial' = config
    /\ Goto("case")
    /\ UNCHANGED <<case, original, actual, class, interrupted, router_vars>>

skip_section ==
    /\ pc = "case"
    /\ case <= CaseCount
    /\ initial[section] = None
    /\ case' = case + 1
    /\ Goto("case")
    /\ UNCHANGED <<initial, original, actual, class, interrupted, router_vars>>

begin_case ==
    /\ pc = "case"
    /\ case <= CaseCount
    /\ initial[section] # None
    /\ config[section] # None
    /\ original' = config[section]
    /\ actual' = None
    /\ class' = None
    /\ held' = {Credentials(config[section])}
    /\ Goto("set")
    /\ UNCHANGED <<case, initial, interrupted, config, owed>>

\* What the running update_ap_section is to change.
Wanted ==
    IF pc \in {"set", "sent"}
    THEN [encryption |-> token, key |-> KeyFor(token)]
    ELSE View(section, original)

\* Where the campaign goes on, whether it returned or raised.
Updated == IF pc \in {"set", "sent"} THEN "look" ELSE "final"

\* update_ap_section: the section has the changes, or cannot be read.
update_ends ==
    /\ pc \in {"set", "reset"}
    /\ Carries(config[section], Wanted) \/ faults
    /\ Goto(Updated)
    /\ UNCHANGED <<case_vars, router_vars>>

\* It writes; the router accepts that or never sees it.
update_writes ==
    /\ pc \in {"set", "reset"}
    /\ config[section] # None
    /\ ~Carries(config[section], Wanted)
    /\ \/ owed' = owed \cup {[section |-> section,
                              block |-> Posted(config[section], Wanted)]}
       \/ faults /\ UNCHANGED owed
    /\ Goto(IF pc = "set" THEN "sent" ELSE "resent")
    /\ UNCHANGED <<case_vars, config, held>>

\* It has polled: the changes are there, or it was polling long enough.
update_polled ==
    /\ pc \in {"sent", "resent"}
    /\ owed = {} \/ faults
    /\ owed' = IF Late THEN owed ELSE {}
    /\ Goto(Updated)
    /\ UNCHANGED <<case_vars, config, held>>

\* The read after the setting may fail, and its section be no mapping.
look ==
    /\ pc = "look"
    /\ \/ actual' = config[section]
       \/ faults /\ actual' = None
    /\ class' = Classify(actual')
    /\ Goto("restore")
    /\ UNCHANGED <<case, initial, original, interrupted, router_vars>>

\* An interrupt while the case runs: `finally` restores first.
interrupt ==
    /\ pc \in {"set", "sent", "look"}
    /\ faults
    /\ interrupted' = TRUE
    /\ Goto("restore")
    /\ UNCHANGED <<case, initial, original, actual, class, router_vars>>

\* _restore_section: writes only if the section differs from the original.
restore ==
    /\ pc = "restore"
    /\ Goto(IF View(section, config[section]) = View(section, original) THEN "final" ELSE "reset")
    /\ UNCHANGED <<case_vars, router_vars>>

\* Mutant of restored: the setter is believed.
believed ==
    /\ pc = "final"
    /\ ~interrupted
    /\ rows' = Append(rows, case)
    /\ case' = case + 1
    /\ pc' = "case"
    /\ UNCHANGED <<faults, start, complete, initial, original, actual, class,
                   interrupted, router_vars>>

\* The final read-back is the original: a row, and the next case.
restored ==
    /\ pc = "final"
    /\ View(section, config[section]) = View(section, original)
    /\ ~interrupted
    /\ rows' = Append(rows, case)
    /\ case' = case + 1
    /\ pc' = "case"
    /\ UNCHANGED <<faults, start, complete, initial, original, actual, class,
                   interrupted, router_vars>>

\* Mutant of not_restored: the restoration is tried again.
restores_again ==
    /\ pc = "final"
    /\ View(section, config[section]) # View(section, original) \/ interrupted
    /\ Goto("restore")
    /\ UNCHANGED <<case_vars, router_vars>>

\* It is not, or the exception goes on.
not_restored ==
    /\ pc = "final"
    /\ View(section, config[section]) # View(section, original) \/ interrupted
    /\ Abort

\* The last configuration; the report is complete.
finish ==
    /\ pc = "case"
    /\ case > CaseCount
    /\ complete' = TRUE
    /\ pc' = "closed"
    /\ UNCHANGED <<faults, start, rows, case_vars, router_vars>>

\* A read that nobody guards fails, or the operator interrupts there.
aborted ==
    /\ pc \notin {"set", "sent", "look", "closed"}
    /\ faults
    /\ Abort

Campaign ==
    \/ read_initial
    \/ skip_section
    \/ begin_case
    \/ update_ends
    \/ update_writes
    \/ update_polled
    \/ look
    \/ interrupt
    \/ restore
    \/ restored
    \/ not_restored
    \/ finish
    \/ aborted

---------------------------------------------------------------------------
(* The router (external)                                                   *)

\* It makes of a block what it likes, but in a run without faults it takes back
\* the token and the key it held at first, and all of a section without a radio;
\* the channel of a radio is its own.
apply(w) ==
    /\ \E block \in Blocks :
          /\ ~faults /\ Credentials(w.block) = Credentials(initial[w.section])
                 => /\ Credentials(block) = Credentials(w.block)
                    /\ w.section \in Radios \/ block = w.block
          /\ config' = [config EXCEPT ![w.section] = block]
          /\ held' = IF w.section = section
                     THEN held \cup {Credentials(block)} ELSE held
    /\ owed' = owed \ {w}
    /\ UNCHANGED <<faults, pc, report_vars, case_vars>>

Router == case <= CaseCount /\ \E w \in owed : apply(w)

---------------------------------------------------------------------------
(* The specification                                                       *)

Init ==
    /\ faults \in BOOLEAN
    /\ pc = "start"
    /\ start \in 1 .. CaseCount
    /\ case = start
    /\ config \in [Sections -> Blocks \cup {None}]
    /\ initial = config
    /\ original = None
    /\ actual = None
    /\ class = None
    /\ interrupted = FALSE
    /\ rows = <<>>
    /\ complete = FALSE
    /\ owed = {}
    /\ held = {}

Next == Campaign \/ Router

Spec == Init /\ [][Next]_vars

\* The requests time out, and the router applies what it accepted.
FairSpec == Spec /\ WF_vars(Campaign) /\ WF_vars(Router)

---------------------------------------------------------------------------
(* Properties                                                              *)

\* Every variable has its type.
TypeOK ==
    /\ faults \in BOOLEAN
    /\ pc \in {"start", "case", "set", "sent", "look", "restore", "reset",
               "resent", "final", "closed"}
    /\ start \in 1 .. CaseCount
    /\ case \in 1 .. CaseCount + 1
    /\ initial \in [Sections -> Blocks \cup {None}]
    /\ original \in Blocks \cup {None}
    /\ actual \in Blocks \cup {None}
    /\ class \in Classes \cup {None}
    /\ interrupted \in BOOLEAN
    /\ rows \in Seq(1 .. CaseCount)
    /\ complete \in BOOLEAN
    /\ config \in [Sections -> Blocks \cup {None}]
    /\ owed \subseteq Write
    /\ held \subseteq [encryption: Tokens, key: Keys]

\* Each section is restored before the next case (lines 5 and 275), whatever the
\* router made of the token, and whatever the setter said: between two cases and
\* at the end of a complete campaign all sections are configured as at first.
RestoredBeforeNext ==
    pc = "case" \/ complete =>
        \A s \in Sections : View(s, config[s]) = View(s, initial[s])

\* The cases behind the campaign are in the report: each of the requested range
\* whose section there is, in order, and once.
RowsInOrder ==
    /\ \A j, k \in DOMAIN rows : j < k => rows[j] < rows[k]
    /\ {rows[k] : k \in DOMAIN rows} =
           {i \in start .. case - 1 : initial[SectionOf(i)] # None}

\* What a case is classified as, the router has held while it ran.
ClassifiedTruly ==
    pc \in {"restore", "reset", "resent", "final"} =>
        /\ class = "ACCEPTED" =>
               [encryption |-> token, key |-> KeyFor(token)] \in held
        /\ class = "COERCED" => \E v \in held : v.encryption # token

ReportIsTrue == RowsInOrder /\ ClassifiedTruly

\* The steps the campaign can still make at most.
Left ==
    LET place == [start |-> 9, case |-> 8, set |-> 7, sent |-> 6, look |-> 5,
                  restore |-> 4, reset |-> 3, resent |-> 2, final |-> 1, closed |-> 0]
    IN  IF pc = "closed" THEN 0 ELSE 8 * (CaseCount + 1 - case) + place[pc]

\* Whatever the router makes of the tokens, every step of the campaign brings it
\* nearer to its end: no case is run twice, nothing is set again once it is being
\* restored, and nothing restored twice (lines 115-140, 297-374).
CampaignShortens ==
    [][<<pc, case>>' # <<pc, case>> => Left' \in 0 .. Left - 1]_vars

\* The campaign ends, and where nothing fails it is complete: that the router
\* coerces tokens and chooses other channels does not break it off.
CampaignEnds == <>(pc = "closed" /\ (faults \/ complete))
============================================================================
