----------------------------- MODULE MCSettings -----------------------------
(***************************************************************************)
(* Instances of Settings for TLC.  The Wi-Fi has three sections, Guest     *)
(* among them, with two fields, of which the read-back of a mode change    *)
(* verifies one.                                                           *)
(***************************************************************************)
EXTENDS Settings

CONSTANTS c1, c2, net1, net2, pool1, auto, manual, lte, nr5g, gsm, dual, guest,
          timed_off, key, isolate, power_level

OneClient == {c1}
TwoClients == {c1, c2}
TwoNets == {net1, net2}
OnePool == {pool1}
TwoResolvers == {auto, manual}
ThreeModes == {lte, nr5g, gsm}
TwoModes == {lte, nr5g}
AllSections == {dual, guest, timed_off}
TwoAccessPoints == {dual, guest}
TwoFields == {key, isolate}
OneField == {key}
OneGlobal == {power_level}
TwoValues == {0, 1}

\* What differs in a run, besides the mode: the key of Guest, if there is a
\* Guest; or what is written as a single field.
Block(k, i) == [f \in TwoFields |-> IF f = key THEN k ELSE i]
WiFiWith(mode, block, level, wps) ==
    [mode |-> mode,
     ap |-> [s \in AllSections |-> IF s = guest THEN block ELSE Block(0, 0)],
     global |-> [f \in OneGlobal |-> level], wps |-> wps]

SeparateOnly == {[separate |-> TRUE, guest |-> FALSE]}
DefaultGuest == Block(0, 1)

FixedLan == [net |-> net1, pool |-> pool1, dns |-> auto, table |-> {}]
FixedMobile == [network_mode |-> lte, data_roaming |-> FALSE, other |-> 0]

\* The instance of one client: whole objects.
WholeObjects ==
    [lan: {cfg \in LanConfigs :
              cfg.table \subseteq {net1} /\ (cfg.pool = None => cfg.dns = auto)},
     wifi: {WiFiWith(m, b, 0, FALSE) : m \in Modes, b \in {None, Block(0, 1), Block(1, 1)}}
           \cup {WiFiWith(None, b, 0, FALSE) : b \in {Block(0, 1), Block(1, 1)}},
     mobile: {FixedMobile}, work: {"router"}]

\* A factory-fresh router: no reservations, automatic resolvers, no Guest.  The
\* object of the LAN may be one that cannot be written back, and the Wi-Fi mode
\* one that the client does not know.
Fresh ==
    {cfg \in WholeObjects :
        /\ cfg.lan.table = {} /\ cfg.lan.dns = auto /\ cfg.lan.net = net1
        /\ cfg.wifi.mode = None \/ ~cfg.wifi.mode.guest
        /\ cfg.wifi.ap[guest] \in {None, Block(0, 1)}}

WholeObjectOps ==
    [part: {"lan"}, do: {o \in LanOps : o.kind = "reservations" => o.table \subseteq {net1}}]
    \cup [part: {"wifi"},
          do: [kind: {"separate", "guest"}, on: {FALSE, TRUE}]
              \cup [kind: {"ap"}, section: {guest}, changes: [{key} -> {1}]]]
WholeObjectChecked == WholeObjectOps \cap SettingsChecked
WholeObjectTrusting == WholeObjectOps \cap SettingsTrusting

\* The instance of two clients: single fields.
SingleFields ==
    [lan: {[FixedLan EXCEPT !.net = net, !.table = table] :
              net \in TwoNets, table \in {{}, {net1}}},
     wifi: {WiFiWith(None, None, level, wps) : level \in {0, 1}, wps \in {FALSE, TRUE}},
     mobile: {cfg \in MobileConfigs : cfg.other = 0 /\ cfg.network_mode # gsm},
     work: WorkModes \cup {OtherMode}]

\* Nothing is as an operation wants it, and the work mode is one the client does not
\* know: what finds its value there already, finds that of the other client.
Unset ==
    {cfg \in SingleFields :
        /\ cfg.lan = FixedLan /\ cfg.mobile = FixedMobile /\ cfg.work = OtherMode
        /\ cfg.wifi.global[power_level] = 0 /\ ~cfg.wifi.wps}

SingleFieldOps ==
    [part: {"lan"}, do: [kind: {"address"}, net: {net2}, force: {FALSE}]
                        \cup [kind: {"reservations"}, table: {{net1}}]]
    \cup [part: {"mobile"}, do: [field: {"network_mode"}, expected: {nr5g}]
                                \cup [field: {"data_roaming"}, expected: {TRUE}]]
    \cup [part: {"work"}, do: {o \in WorkOps : o.force => o.mode = "router"}]
    \cup [part: {"wifi"}, do: [kind: {"wps"}, on: {TRUE}]
                              \cup [kind: {"global"}, changes: [{power_level} -> {1}]]]
SingleFieldChecked == SingleFieldOps \cap SettingsChecked
SingleFieldTrusting == SingleFieldOps \cap SettingsTrusting
=============================================================================
