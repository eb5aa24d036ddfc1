------------------------------ MODULE Settings ------------------------------
(***************************************************************************)
(* All the settings of one router that are changed by a verified write:    *)
(* the namespaces lan, wifi and mobile, and the work mode of the namespace *)
(* device.  An operation changes one of the four parts; the operations of  *)
(* a client on different parts interleave with those of other clients.     *)
(***************************************************************************)
EXTENDS Lan, WiFi, Mobile

CONSTANT OtherMode  \* any work mode the client does not know

WorkModes == {"router", "bridge"}

\* set_work_mode; with force, a mode that is there already is written, too.
WorkOps == [mode: WorkModes, force: BOOLEAN]

WorkSame(o, cfg) == cfg = o.mode /\ ~o.force

WorkMet(o, actual) == actual = o.mode

SettingsConfigs ==
    [lan: LanConfigs, wifi: WiFiConfigs, mobile: MobileConfigs,
     work: WorkModes \cup {OtherMode}]

SettingsOps ==
    [part: {"lan"}, do: LanOps] \cup [part: {"wifi"}, do: WiFiOps]
    \cup [part: {"mobile"}, do: MobileOps] \cup [part: {"work"}, do: WorkOps]

SettingsChecked ==
    [part: {"lan"}, do: LanChecked] \cup [part: {"mobile"}, do: MobileChecked]

\* set_address_legacy.
SettingsTrusting == {o \in SettingsOps : o.part = "lan" /\ o.do.kind = "address"}

SettingsAdmissible(o, cfg) ==
    /\ o.part = "lan" => LanAdmissible(o.do, cfg.lan)
    /\ o.part = "mobile" => MobileAdmissible(o.do, cfg.mobile)

SettingsPreparable(o, cfg) ==
    /\ o.part = "lan" => LanPreparable(o.do, cfg.lan)
    /\ o.part = "wifi" => WiFiPreparable(o.do, cfg.wifi)

SettingsSame(o, cfg) ==
    \/ o.part = "lan" /\ LanSame(o.do, cfg.lan)
    \/ o.part = "wifi" /\ WiFiSame(o.do, cfg.wifi)
    \/ o.part = "mobile" /\ MobileSame(o.do, cfg.mobile)
    \/ o.part = "work" /\ WorkSame(o.do, cfg.work)

SettingsApplied(o, snapshot, cfg) ==
    [lan |-> IF o.part = "lan"
             THEN LanApplied(o.do, snapshot.lan, cfg.lan) ELSE cfg.lan,
     wifi |-> IF o.part = "wifi"
              THEN WiFiApplied(o.do, snapshot.wifi, cfg.wifi) ELSE cfg.wifi,
     mobile |-> IF o.part = "mobile"
                THEN MobileApplied(o.do, snapshot.mobile, cfg.mobile)
                ELSE cfg.mobile,
     work |-> IF o.part = "work" THEN o.do.mode ELSE cfg.work]

SettingsMet(o, snapshot, actual) ==
    \/ o.part = "lan" /\ LanMet(o.do, snapshot.lan, actual.lan)
    \/ o.part = "wifi" /\ WiFiMet(o.do, snapshot.wifi, actual.wifi)
    \/ o.part = "mobile" /\ MobileMet(o.do, snapshot.mobile, actual.mobile)
    \/ o.part = "work" /\ WorkMet(o.do, actual.work)

---------------------------------------------------------------------------
(* Properties                                                              *)

\* What the caller of each operation asked for.
SettingsAsked(o, cfg) ==
    /\ o.part = "lan" => LanAsked(o.do, cfg.lan)
    /\ o.part = "wifi" => WiFiAsked(o.do, cfg.wifi)
    /\ o.part = "mobile" => MobileAsked(o.do, cfg.mobile)
    /\ o.part = "work" => cfg.work = o.do.mode

\* What it carries along and looks after.
SettingsKept(o, snapshot, cfg) ==
    o.part = "wifi" => WiFiKept(o.do, snapshot.wifi, cfg.wifi)

\* What it did not mention: the other parts, and the rest of its own.
SettingsFrame(o, cfg) ==
    [lan |-> IF o.part = "lan" THEN LanFrame(o.do, cfg.lan) ELSE cfg.lan,
     wifi |-> IF o.part = "wifi" THEN WiFiFrame(o.do, cfg.wifi) ELSE cfg.wifi,
     mobile |-> IF o.part = "mobile"
                THEN MobileFrame(o.do, cfg.mobile) ELSE cfg.mobile,
     work |-> IF o.part = "work" THEN None ELSE cfg.work]

\* The verified write is used with these operations and the configurations S, as
\* the instances for TLC say by what they give its operator constants.
SettingsInstance(S) ==
    /\ Ops \subseteq SettingsOps
    /\ S \subseteq SettingsConfigs
    /\ \A o \in Ops, b \in S :
          /\ Preparable(o, b) <=> SettingsPreparable(o, b)
          /\ Same(o, b) <=> SettingsSame(o, b)
          /\ Asked(o, b) <=> SettingsAsked(o, b)
          /\ Frame(o, b) = SettingsFrame(o, b)
          /\ Preparable(o, b) =>
                \A cfg \in S :
                    /\ Applied(o, b, cfg) = SettingsApplied(o, b, cfg)
                    /\ Met(o, b, cfg) <=> SettingsMet(o, b, cfg)
                    /\ Kept(o, b, cfg) <=> SettingsKept(o, b, cfg)

\* A table of reservations is sent only into a LAN that it has fitted at some
\* moment of the operation: the check reads the address, the comparison reads the
\* table, and the write comes after both (lan.py:262-281).  So a table that does
\* not fit comes from an address that changed during the operation, and from
\* nothing else.
TableFittedOnce ==
    [][\A c \in Clients :
          pc[c] = "read" /\ pc'[c] = "verify"
          /\ op[c].part = "lan" /\ op[c].do.kind = "reservations"
          => \E cfg \in held[c] : op[c].do.table \subseteq {cfg.lan.net}]_vars
=============================================================================
