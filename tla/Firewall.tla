------------------------------ MODULE Firewall ------------------------------
(***************************************************************************)
(* The writes of the namespace firewall.  None of them reads anything:     *)
(* what the caller gives is checked, packed into a complete list of slots  *)
(* where the router wants one, and sent.  The control is the module        *)
(* DirectWrite.                                                            *)
(*                                                                         *)
(* The router keeps what a request does not carry.  Ten slots for a table  *)
(* of rules and five for port forwarding are the constants RuleSlots and   *)
(* ForwardSlots here.                                                      *)
(***************************************************************************)
EXTENDS DirectWrite, Sequences

CONSTANTS
    Switches,      \* dmz_disable, ping_from_wan, admin_from_wan, upnp,
                   \*   ip_filter_disable, port_filter_disable
    Protocols,     \* pptp, l2tp, ipsec
    Hosts,         \* IPv4 addresses
    Rules,         \* what a slot may hold besides None: "0" or "" on the wire
    RuleSlots,     \* 10
    ForwardSlots   \* 5

ASSUME FirewallAssumption ==
    RuleSlots \in Nat /\ ForwardSlots \in Nat /\ None \notin Rules \cup Hosts

Lists == {"ip_filter", "port_filter"}
Tables == {"port_trigger", "port_forward"}
UrlLists == {"blacklist", "whitelist"}

Size(table) == IF table = "port_forward" THEN ForwardSlots ELSE RuleSlots

Slots(table) == [0 .. Size(table) - 1 -> Rules \cup {None}]

FirewallConfigs ==
    [switch: [Switches -> BOOLEAN], host: Hosts, vpn: [Protocols -> BOOLEAN],
     on: [Tables -> BOOLEAN], url: UrlLists \cup {"disable"},
     slots: [ip_filter: Slots("ip_filter"), port_filter: Slots("port_filter"),
             port_trigger: Slots("port_trigger"),
             port_forward: Slots("port_forward"),
             blacklist: Slots("blacklist"), whitelist: Slots("whitelist")]]

\* The items of a rule list are positional; those of a rule table name a slot.
Items(table) ==
    UNION {[1 .. n -> IF table \in Tables
                      THEN [index: -1 .. Size(table), rule: Rules]
                      ELSE Rules \cup {None}] : n \in 0 .. Size(table) + 1}

\* replace_*_filter_rules; set_port_trigger and set_port_forward, with or without
\* items; set_url_filter.
ListOps == UNION {[kind: {"list"}, table: {t}, items: Items(t)] : t \in Lists}
TableOps == UNION {[kind: {"table"}, table: {t}, on: BOOLEAN,
                    items: Items(t) \cup {None}] : t \in Tables}
UrlOps == UNION {[kind: {"url"}, table: {t}, on: BOOLEAN, items: Items(t)] :
                    t \in UrlLists}

\* set_*_enabled and set_*_from_wan; set_dmz_destination, whose text is known by
\* the address it spells, if any; set_vpn_passthrough; the operations on rules.
FirewallOps ==
    [kind: {"switch"}, name: Switches, on: BOOLEAN]
    \cup [kind: {"host"}, host: Hosts \cup {None}]
    \cup [kind: {"vpn"}, flags: [Protocols -> BOOLEAN]]
    \cup ListOps \cup TableOps \cup UrlOps

\* Mutant of IndexesAccepted: the last of two items for a slot wins.
IndexesInRange(table, items) ==
    \A k \in DOMAIN items : items[k].index \in 0 .. Size(table) - 1

\* _populate_indexed_slots: every index is in range, and none is used twice.
IndexesAccepted(table, items) ==
    /\ \A k \in DOMAIN items : items[k].index \in 0 .. Size(table) - 1
    /\ \A j, k \in DOMAIN items : items[j].index = items[k].index => j = k

\* items or ()
Given(o) == IF o.items = None THEN <<>> ELSE o.items

\* Disabling takes no items; a list is not longer than the slots.
FirewallValid(o) ==
    /\ o.kind = "host" => o.host # None
    /\ o.kind = "table" /\ ~o.on => o.items = None
    /\ o.kind = "url" /\ ~o.on => o.items = <<>>
    /\ o.kind \in {"list", "table", "url"} => Len(Given(o)) <= Size(o.table)
    /\ o.kind = "table" => IndexesAccepted(o.table, Given(o))

\* _string_rule_slots and _url_filter_slots: the position is the index.
PositionalSlots(table, items) ==
    [i \in 0 .. Size(table) - 1 |->
        IF i < Len(items) THEN items[i + 1] ELSE None]

\* _port_trigger_slots and _port_forward_slots: every slot empty at first, then
\* item after item into the slot it names, the last one for it staying there.
IndexedSlots(table, items) ==
    [i \in 0 .. Size(table) - 1 |->
        LET named == {k \in DOMAIN items : items[k].index = i}
        IN  IF named = {} THEN None
            ELSE items[CHOOSE k \in named : \A j \in named : j <= k].rule]

\* What the payload of a rule operation carries of the slots, if anything.
Packed(o) ==
    IF o.kind = "table" THEN IndexedSlots(o.table, Given(o))
                        ELSE PositionalSlots(o.table, Given(o))

\* Mutant of CarriesSlots: disabling writes the empty slots, too.
AlwaysCarriesSlots(o) == o.kind \in {"list", "table", "url"}

CarriesSlots(o) == o.kind = "list" \/ (o.kind \in {"table", "url"} /\ o.on)

FirewallApplied(o, cfg) ==
    [switch |-> IF o.kind = "switch"
                THEN [cfg.switch EXCEPT ![o.name] = o.on] ELSE cfg.switch,
     host |-> IF o.kind = "host" THEN o.host ELSE cfg.host,
     vpn |-> IF o.kind = "vpn" THEN o.flags ELSE cfg.vpn,
     on |-> IF o.kind = "table" THEN [cfg.on EXCEPT ![o.table] = o.on] ELSE cfg.on,
     url |-> IF o.kind # "url" THEN cfg.url ELSE IF o.on THEN o.table ELSE "disable",
     slots |-> IF CarriesSlots(o)
               THEN [cfg.slots EXCEPT ![o.table] = Packed(o)] ELSE cfg.slots]

---------------------------------------------------------------------------
(* Properties                                                              *)

\* What an operation does not mention: disabling does not mention the rules, nor
\* does the DMZ switch its destination.
FirewallFrame(o, cfg) ==
    [switch |-> IF o.kind = "switch" THEN Except(cfg.switch, {o.name})
                                     ELSE cfg.switch,
     host |-> IF o.kind = "host" THEN None ELSE cfg.host,
     vpn |-> IF o.kind = "vpn" THEN None ELSE cfg.vpn,
     on |-> IF o.kind = "table" THEN Except(cfg.on, {o.table}) ELSE cfg.on,
     url |-> IF o.kind = "url" THEN None ELSE cfg.url,
     slots |-> IF o.kind = "list" \/ (o.kind \in {"table", "url"} /\ o.on)
               THEN Except(cfg.slots, {o.table}) ELSE cfg.slots]

\* What the caller of a rule operation named is in its slots, and nothing else:
\* the rules that were there and are not named are gone.
AsNamed(o, slots) ==
    \A i \in 0 .. Size(o.table) - 1, r \in Rules :
        slots[i] = r <=>
            \E k \in DOMAIN Given(o) :
                IF o.kind = "table" THEN Given(o)[k] = [index |-> i, rule |-> r]
                                    ELSE k = i + 1 /\ Given(o)[k] = r
=============================================================================
