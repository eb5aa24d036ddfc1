-------------------------------- MODULE Lan --------------------------------
(***************************************************************************)
(* The writes of the namespace lan: what each operation asks for, what it  *)
(* builds from the object it read, and what it accepts as the read-back.   *)
(* The control they share is the module VerifiedWrite.                     *)
(*                                                                         *)
(* The router holds the combined DHCP object of 12 fields, here the LAN    *)
(* address and netmask (net), the resolvers (dns) and the other five       *)
(* (pool), and the table of static reservations.  A reservation is known   *)
(* by the subnet its address lies in.  The address that the dedicated      *)
(* setter changes is the one in the combined object.                       *)
(***************************************************************************)
EXTENDS VerifiedWrite

CONSTANTS Nets,       \* LAN address and netmask
          Pools,      \* disabled, start, end, leasetime, mtu
          Resolvers   \* dnsmode, dns1, dns2, ipv6dns1, ipv6dns2

Tables == SUBSET Nets

\* pool = None: the router's object misses a field, or holds a value that the
\* validation of the payload refuses.
LanConfigs == [net: Nets, pool: Pools \cup {None}, dns: Resolvers, table: Tables]

\* set_dns and set_dns_auto; set_dhcp_settings with a complete object;
\* set_address_legacy; set_static_reservations.
LanOps ==
    [kind: {"dns"}, dns: Resolvers]
    \cup [kind: {"dhcp"}, net: Nets, pool: Pools, dns: Resolvers]
    \cup [kind: {"address"}, net: Nets, force: BOOLEAN]
    \cup [kind: {"reservations"}, table: Tables]

LanChecked == {o \in LanOps : o.kind = "reservations"}

\* Mutant of LanAdmissible: the reservations are not checked.
AnyReservation(o, cfg) == TRUE

\* _validate_reservations_against_lan, on the address read first.
LanAdmissible(o, cfg) == \A item \in o.table : item = cfg.net

\* _normalize_dhcp_payload of the object read with the DNS fields replaced.
LanPreparable(o, cfg) == o.kind = "dns" => cfg.pool # None

Comb(cfg) == [net |-> cfg.net, pool |-> cfg.pool, dns |-> cfg.dns]

\* Mutant of Payload: set_dns writes its own fields only.
DnsFieldsOnly(o, snapshot) ==
    IF o.kind = "dns"
    THEN [net |-> snapshot.net, pool |-> None, dns |-> o.dns]
    ELSE [net |-> o.net, pool |-> o.pool, dns |-> o.dns]

\* The 12-field payload: the caller's, or the snapshot with other resolvers.
Payload(o, snapshot) ==
    IF o.kind = "dns"
    THEN [net |-> snapshot.net, pool |-> snapshot.pool, dns |-> o.dns]
    ELSE [net |-> o.net, pool |-> o.pool, dns |-> o.dns]

\* The object read holds the wanted values already.
LanSame(o, cfg) ==
    \/ o.kind \in {"dns", "dhcp"} /\ LanPreparable(o, cfg) /\ Payload(o, cfg) = Comb(cfg)
    \/ o.kind = "address" /\ ~o.force /\ cfg.net = o.net
    \/ o.kind = "reservations" /\ cfg.table = o.table

LanApplied(o, snapshot, cfg) ==
    IF o.kind \in {"dns", "dhcp"}
    THEN [net |-> Payload(o, snapshot).net, pool |-> Payload(o, snapshot).pool,
          dns |-> Payload(o, snapshot).dns, table |-> cfg.table]
    ELSE IF o.kind = "address" THEN [cfg EXCEPT !.net = o.net]
    ELSE [cfg EXCEPT !.table = o.table]

\* Mutant of LanMet: reservations that should be gone are not looked for.
NoneMissing(o, snapshot, actual) ==
    \/ o.kind \in {"dns", "dhcp"} /\ Comb(actual) = Payload(o, snapshot)
    \/ o.kind = "address" /\ actual.net = o.net
    \/ o.kind = "reservations" /\ o.table \subseteq actual.table

LanMet(o, snapshot, actual) ==
    \/ o.kind \in {"dns", "dhcp"} /\ Comb(actual) = Payload(o, snapshot)
    \/ o.kind = "address" /\ actual.net = o.net
    \/ o.kind = "reservations" /\ actual.table = o.table

---------------------------------------------------------------------------
(* Properties                                                              *)

\* What the caller of each operation asked for.
LanAsked(o, cfg) ==
    \/ o.kind = "dns" /\ cfg.dns = o.dns
    \/ o.kind = "dhcp" /\ <<cfg.net, cfg.pool, cfg.dns>> = <<o.net, o.pool, o.dns>>
    \/ o.kind = "address" /\ cfg.net = o.net
    \/ o.kind = "reservations" /\ cfg.table = o.table

\* What it did not mention.
LanFrame(o, cfg) ==
    IF o.kind = "dns" THEN <<cfg.net, cfg.pool, cfg.table>>
    ELSE IF o.kind = "dhcp" THEN cfg.table
    ELSE IF o.kind = "address" THEN <<cfg.pool, cfg.dns, cfg.table>>
    ELSE <<cfg.net, cfg.pool, cfg.dns>>
============================================================================
