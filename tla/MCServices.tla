----------------------------- MODULE MCServices -----------------------------
(***************************************************************************)
(* An instance of Services for TLC: two slots per table of rules, one for  *)
(* port forwarding, and the operations that differ in what they do.        *)
(***************************************************************************)
EXTENDS Services

CONSTANTS c1, c2, upnp, dmz, pptp, host, rule1, rule2, hello, alice, bob,
          friends, mac1, mac2, phone, en, de, fr, noon

TwoClients == {c1, c2}
TwoSwitches == {upnp, dmz}
OneProtocol == {pptp}
OneHost == {host}
TwoRules == {rule1, rule2}
TwoIds == {0, 1}
OneText == {hello}
TwoNames == {alice, bob}
OneGroup == {friends}
TwoMacs == {mac1, mac2}
OneAlias == {phone}
ThreeLanguages == {en, de, fr}
TwoLanguages == {en, de}
TwoTimes == {0, 10}
OneTime == {noon}

\* A router in use, with and without rules.
Rule(s, i) == [index |-> i, rule |-> s]
Table(n, s) == [i \in 0 .. n - 1 |-> s]
InUse ==
    {[firewall |->
         [switch |-> [t \in TwoSwitches |-> FALSE], host |-> host,
          vpn |-> [p \in OneProtocol |-> FALSE],
          on |-> [t \in Tables |-> TRUE], url |-> "blacklist",
          slots |-> [ip_filter |-> Table(2, None), port_filter |-> Table(2, s),
                     port_trigger |-> Table(2, s), port_forward |-> Table(1, s),
                     blacklist |-> Table(2, s), whitelist |-> Table(2, None)]],
      sms |-> [sent |-> 0, stored |-> [i \in TwoIds |-> IF i = 0 THEN hello ELSE None]],
      phonebook |->
         [contacts |->
             [p \in 0 .. 1 |->
                 [i \in TwoIds |-> IF i = p THEN [name |-> alice, group |-> 0]
                                   ELSE None]],
          groups |-> [i \in TwoIds |-> None]],
      statistics |-> [mode |-> "black", allow |-> {}, forbidden |-> {mac1},
                      alias |-> [m \in TwoMacs |-> phone], offline |-> {mac2},
                      traffic |-> TRUE],
      device |-> [language |-> en, sleep |-> 10,
                  reboot |-> [enable |-> FALSE, time |-> noon, repeat |-> 128]],
      wps |-> "off"] : s \in {None, rule1}}

FewFirewallOps ==
    [kind: {"switch"}, name: {dmz}, on: {TRUE}]
    \cup [kind: {"host"}, host: {host, None}]
    \cup [kind: {"vpn"}, flags: [OneProtocol -> {TRUE}]]
    \cup [kind: {"list"}, table: {"ip_filter"}, items: {<<rule1>>, <<None, rule2>>}]
    \cup [kind: {"table"}, table: {"port_trigger"}, on: {TRUE},
          items: {None, <<Rule(rule2, 1)>>, <<Rule(rule2, 1), Rule(rule1, 0)>>,
                  <<Rule(rule1, 0), Rule(rule2, 0)>>, <<Rule(rule1, 2)>>}]
    \cup [kind: {"table"}, table: {"port_forward"}, on: {FALSE}, items: {None, <<>>}]
    \cup [kind: {"url"}, table: {"blacklist"}, on: BOOLEAN,
          items: {<<>>, <<rule1, rule2, rule1>>}]

FewOps ==
    [part: {"firewall"}, do: FewFirewallOps]
    \cup [part: {"sms"},
          do: [kind: {"send"}, body: {hello, None}]
              \cup [kind: {"save"}, id: {-1, 0}, body: {hello}]
              \cup [kind: {"delete"}, id: {-1, 0}]]
    \cup [part: {"phonebook"},
          do: [kind: {"add"}, place: {0}, contact: [name: {bob}, group: {0}]]
              \cup [kind: {"update"}, place: {0}, index: {0},
                    contact: [name: {bob}, group: {0}]]
              \cup [kind: {"delete"}, place: {0}, indexes: {<<0>>, <<0, 0>>}]
              \cup [kind: {"move"}, indexes: {<<0, 1>>}, group: {1}]
              \cup [kind: {"copy"}]
              \cup [kind: {"add_group"}, name: {friends}]
              \cup [kind: {"delete_group"}, index: {0}]]
    \cup [part: {"statistics"},
          do: [kind: {"mode"}, mode: {"white", None}]
              \cup [kind: {"allow", "forbidden"}, mac: {mac1}, on: {FALSE},
                    alias: {None}]
              \cup [kind: {"alias"}, mac: {None, mac2}, alias: {phone}]
              \cup [kind: {"offline"}, mac: {mac2}]
              \cup [kind: {"traffic"}]]
    \cup [part: {"device"},
          do: [field: {"language"}, value: {en, de, fr, None}]
              \cup [field: {"sleep"}, value: {0}]
              \cup [field: {"reboot"},
                    value: [enable: BOOLEAN, time: {noon}, repeat: {128, 256}]]]
    \cup [part: {"wps"}, do: [start: {"pbc", "off", None}]]

FewReadBack == {o \in FewOps : IsReadBack(o)}
FewChecked == {o \in FewOps : IsChecked(o)}
FewConfirmed == {o \in FewOps : IsConfirmed(o)}
=============================================================================
