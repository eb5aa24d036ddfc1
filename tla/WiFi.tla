-------------------------------- MODULE WiFi --------------------------------
(***************************************************************************)
(* The writes of the namespace wifi: mode, Guest, access point sections,   *)
(* top-level settings and WPS.  The control they share is the module       *)
(* VerifiedWrite.                                                          *)
(*                                                                         *)
(* The router keeps a mode token, a block of fields per access point       *)
(* section (or none), the top-level fields and the WPS switch, and merges  *)
(* a written block field by field.  That it keeps the Guest block in a     *)
(* change of the mode is what the client verifies, so there are modes in   *)
(* which it does not.                                                      *)
(***************************************************************************)
EXTENDS VerifiedWrite

CONSTANTS Sections,      \* the four access points, and wifi_timed_off
          AccessPoints,  \* wifi_if_24G, wifi_if_5G, wifi_if_DUAL, wifi_if_GUEST
          Guest,         \* wifi_if_GUEST
          Fields,        \* the fields of a section
          GuestVerified, \* _GUEST_VERIFY_FIELDS
          GlobalFields,  \* switch, maxassoc, power_level
          Values,        \* of a field
          Losing,        \* the modes in which the router starts with a Guest
                         \*   block of its own
          FactoryGuest   \* that block

ASSUME SectionsAssumption ==
    AccessPoints \subseteq Sections /\ Guest \in AccessPoints

ASSUME FieldsAssumption == GuestVerified \subseteq Fields

\* The four mode tokens the client knows: DUAL or "2.4G 5G", with or without
\* GUEST.  None is any other token.
Modes == [separate: BOOLEAN, guest: BOOLEAN]

Blocks == [Fields -> Values]

\* None is neither a mode the client knows nor a block.
ASSUME NoneAssumption == None \notin Modes /\ None \notin Blocks

ASSUME LosingAssumption == Losing \subseteq Modes /\ FactoryGuest \in Blocks \cup {None}

WiFiConfigs ==
    [mode: Modes \cup {None}, ap: [Sections -> Blocks \cup {None}],
     global: [GlobalFields -> Values], wps: BOOLEAN]

\* The changes argument: a non-empty mapping from some fields to values.
Changes(S) == UNION {[T -> Values] : T \in SUBSET S \ {{}}}

\* set_separate_ssids, set_guest_enabled, update_ap_section (set_security is a
\* call of it), update_global_settings, set_wps_enabled.
WiFiOps ==
    [kind: {"separate", "guest", "wps"}, on: BOOLEAN]
    \cup [kind: {"ap"}, section: Sections, changes: Changes(Fields)]
    \cup [kind: {"global"}, changes: Changes(GlobalFields)]

\* f has the values of changes.
Carries(f, changes) == \A k \in DOMAIN changes : f[k] = changes[k]

\* Mutant of WantedMode: a switch of the main mode drops the Guest token.
ModeWithoutGuest(o, mode) ==
    IF o.kind = "separate" THEN [separate |-> o.on, guest |-> FALSE]
                           ELSE [mode EXCEPT !.guest = o.on]

\* The mode that the operation writes and waits for.
WantedMode(o, mode) ==
    [separate |-> IF o.kind = "separate" THEN o.on ELSE mode.separate,
     guest |-> IF o.kind = "guest" THEN o.on ELSE mode.guest]

\* An unknown mode token is not interpreted; Guest is not toggled and a section
\* is not updated without its block.
WiFiPreparable(o, cfg) ==
    /\ o.kind \in {"separate", "guest"} => cfg.mode # None
    /\ o.kind = "guest" => cfg.ap[Guest] # None
    /\ o.kind = "ap" => cfg.ap[o.section] # None

WiFiSame(o, cfg) ==
    \/ o.kind = "separate" /\ cfg.mode # None /\ cfg.mode.separate = o.on
    \/ o.kind = "guest" /\ cfg.mode # None /\ cfg.mode.guest = o.on
    \/ /\ o.kind = "ap"
       /\ cfg.ap[o.section] # None
       /\ Carries(cfg.ap[o.section], o.changes)
    \/ o.kind = "global" /\ Carries(cfg.global, o.changes)
    \/ o.kind = "wps" /\ cfg.wps = o.on

\* The router merges what it is sent into what it holds; the client merges the
\* changes into the block it has read.
Merged(f, g) ==
    [k \in DOMAIN f \cup DOMAIN g |-> IF k \in DOMAIN f THEN f[k] ELSE g[k]]

\* The blocks a payload carries: all the access points, Guest, or the updated
\* section.
PayloadBlocks(o, snapshot) ==
    IF o.kind = "separate"
    THEN [s \in {t \in AccessPoints : snapshot.ap[t] # None} |-> snapshot.ap[s]]
    ELSE IF o.kind = "guest" THEN [s \in {Guest} |-> snapshot.ap[s]]
    ELSE [s \in {o.section} |-> Merged(o.changes, snapshot.ap[s])]

\* The change of the mode is one in which the router loses its Guest block.
LosesGuest(o, snapshot, cfg) ==
    /\ o.kind \in {"separate", "guest"}
    /\ cfg.mode # WantedMode(o, snapshot.mode)
    /\ WantedMode(o, snapshot.mode) \in Losing

BlocksApplied(o, snapshot, cfg) ==
    LET merged == Merged(PayloadBlocks(o, snapshot), cfg.ap)
    IN  IF LosesGuest(o, snapshot, cfg)
        THEN [merged EXCEPT ![Guest] = FactoryGuest] ELSE merged

WiFiApplied(o, snapshot, cfg) ==
    [mode |-> IF o.kind \in {"separate", "guest"}
              THEN WantedMode(o, snapshot.mode) ELSE cfg.mode,
     ap |-> IF o.kind \in {"separate", "guest", "ap"}
            THEN BlocksApplied(o, snapshot, cfg) ELSE cfg.ap,
     global |-> IF o.kind = "global"
                THEN Merged(o.changes, cfg.global) ELSE cfg.global,
     wps |-> IF o.kind = "wps" THEN o.on ELSE cfg.wps]

\* _guest_verifiable_fields and _guest_matches; no block, nothing to match.
GuestPreserved(snapshot, actual) ==
    snapshot.ap[Guest] # None =>
        /\ actual.ap[Guest] # None
        /\ \A k \in GuestVerified : actual.ap[Guest][k] = snapshot.ap[Guest][k]

\* Mutant of WiFiMet: a mode change looks at the mode only.
ModeOnly(o, snapshot, actual) ==
    IF o.kind \in {"separate", "guest"}
    THEN actual.mode = WantedMode(o, snapshot.mode)
    ELSE WiFiSame(o, actual)

WiFiMet(o, snapshot, actual) ==
    IF o.kind \in {"separate", "guest"}
    THEN /\ actual.mode = WantedMode(o, snapshot.mode)
         /\ GuestPreserved(snapshot, actual)
    ELSE WiFiSame(o, actual)

---------------------------------------------------------------------------
(* Properties                                                              *)

\* What the caller of each operation asked for.
WiFiAsked(o, cfg) ==
    /\ o.kind \in {"separate", "guest"} => cfg.mode # None
    /\ o.kind = "separate" => cfg.mode.separate = o.on
    /\ o.kind = "guest" => cfg.mode.guest = o.on
    /\ o.kind = "ap" => /\ cfg.ap[o.section] # None
                        /\ \A k \in DOMAIN o.changes :
                               cfg.ap[o.section][k] = o.changes[k]
    /\ o.kind = "global" =>
           \A k \in DOMAIN o.changes : cfg.global[k] = o.changes[k]
    /\ o.kind = "wps" => cfg.wps = o.on

\* What a change of the mode looks after: the verified fields of Guest.
WiFiKept(o, snapshot, cfg) ==
    o.kind \in {"separate", "guest"} /\ snapshot.ap[Guest] # None =>
        /\ cfg.ap[Guest] # None
        /\ \A k \in GuestVerified : cfg.ap[Guest][k] = snapshot.ap[Guest][k]

Without(f, S) == [k \in DOMAIN f \ S |-> f[k]]

\* The mode that o leads to from cfg is one that the router enters without Guest.
LeadsToLoss(o, cfg) ==
    /\ o.kind \in {"separate", "guest"}
    /\ cfg.mode # None
    /\ WantedMode(o, cfg.mode) \in Losing

\* What it did not mention, part by part.
WiFiFrame(o, cfg) ==
    [mode |-> IF o.kind \notin {"separate", "guest"} THEN cfg.mode
              ELSE IF cfg.mode = None THEN None
              ELSE IF o.kind = "separate" THEN cfg.mode.guest
              ELSE cfg.mode.separate,
     ap |-> IF o.kind = "ap" THEN Without(cfg.ap, {o.section})
            ELSE IF LeadsToLoss(o, cfg) THEN Without(cfg.ap, {Guest})
            ELSE cfg.ap,
     block |-> IF o.kind # "ap" THEN None
               ELSE IF cfg.ap[o.section] = None THEN None
               ELSE Without(cfg.ap[o.section], DOMAIN o.changes),
     global |-> IF o.kind # "global" THEN cfg.global
                ELSE Without(cfg.global, DOMAIN o.changes),
     wps |-> IF o.kind = "wps" THEN None ELSE cfg.wps]
=============================================================================
