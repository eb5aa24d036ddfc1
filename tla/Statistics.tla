----------------------------- MODULE Statistics -----------------------------
(***************************************************************************)
(* The writes of the namespace statistics: the MAC filter, the lists of    *)
(* Wi-Fi clients it works on, and the counters.  None of them reads        *)
(* anything.  The control is the module DirectWrite.                       *)
(***************************************************************************)
EXTENDS DirectWrite

CONSTANTS Macs,     \* Wi-Fi clients; an empty MAC is None
          Aliases   \* their names

ASSUME StatisticsAssumption == None \notin Macs \cup Aliases

FilterModes == {"black", "white"}

StatisticsConfigs ==
    [mode: FilterModes, allow: SUBSET Macs, forbidden: SUBSET Macs,
     alias: [Macs -> Aliases \cup {None}], offline: SUBSET Macs,
     traffic: BOOLEAN]

AnyMac == Macs \cup {None}

\* set_filter_mode, where None is any other mode; set_allow and set_forbidden,
\* with or without an alias; set_alias; clear_offline_user; clear_traffic.
StatisticsOps ==
    [kind: {"mode"}, mode: FilterModes \cup {None}]
    \cup [kind: {"allow", "forbidden"}, mac: AnyMac, on: BOOLEAN,
          alias: Aliases \cup {None}]
    \cup [kind: {"alias"}, mac: AnyMac, alias: Aliases]
    \cup [kind: {"offline"}, mac: AnyMac]
    \cup [kind: {"traffic"}]

StatisticsValid(o) ==
    /\ o.kind = "mode" => o.mode # None
    /\ o.kind \in {"allow", "forbidden", "alias", "offline"} => o.mac # None

Flagged(S, o) == IF o.on THEN S \cup {o.mac} ELSE S \ {o.mac}

\* Mutant of CarriesAlias: a flag carries an alias, given or not.
AlwaysCarriesAlias(o) == o.kind \in {"alias", "allow", "forbidden"}

\* A flag carries an alias only if the caller gave one.
CarriesAlias(o) ==
    o.kind = "alias" \/ (o.kind \in {"allow", "forbidden"} /\ o.alias # None)

StatisticsApplied(o, cfg) ==
    [mode |-> IF o.kind = "mode" THEN o.mode ELSE cfg.mode,
     allow |-> IF o.kind = "allow" THEN Flagged(cfg.allow, o) ELSE cfg.allow,
     forbidden |-> IF o.kind = "forbidden" THEN Flagged(cfg.forbidden, o)
                   ELSE cfg.forbidden,
     alias |-> IF CarriesAlias(o)
               THEN [cfg.alias EXCEPT ![o.mac] = o.alias] ELSE cfg.alias,
     offline |-> IF o.kind = "offline" THEN cfg.offline \ {o.mac}
                 ELSE cfg.offline,
     traffic |-> IF o.kind = "traffic" THEN FALSE ELSE cfg.traffic]

---------------------------------------------------------------------------
(* Properties                                                              *)

\* What an operation does not mention: the other clients of the router, and the
\* alias of its own if the caller gave none.
StatisticsFrame(o, cfg) ==
    [mode |-> IF o.kind = "mode" THEN None ELSE cfg.mode,
     allow |-> IF o.kind = "allow" THEN cfg.allow \ {o.mac} ELSE cfg.allow,
     forbidden |-> IF o.kind = "forbidden" THEN cfg.forbidden \ {o.mac}
                   ELSE cfg.forbidden,
     alias |-> IF o.kind = "alias" THEN Except(cfg.alias, {o.mac})
               ELSE IF o.kind \in {"allow", "forbidden"} /\ o.alias # None
               THEN Except(cfg.alias, {o.mac})
               ELSE cfg.alias,
     offline |-> IF o.kind = "offline" THEN cfg.offline \ {o.mac}
                 ELSE cfg.offline,
     traffic |-> IF o.kind = "traffic" THEN None ELSE cfg.traffic]
=============================================================================
