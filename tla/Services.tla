------------------------------ MODULE Services ------------------------------
(***************************************************************************)
(* All the direct writes of one router: the namespaces firewall, sms,      *)
(* phonebook and statistics, the WPS actions of wifi, the timed reboot of  *)
(* maintenance, and the user interface language and sleep time of device.  *)
(* The operations of a client on one part interleave with those of other   *)
(* clients on all parts.                                                   *)
(***************************************************************************)
EXTENDS Firewall, Sms, Phonebook, Statistics

CONSTANTS Languages,     \* languages a caller may ask for
          Advertised,    \* lang_list of the router
          SleepMinutes,  \* 0, 10, 20, 30, 40, 60
          Times          \* of a day

ASSUME ServicesAssumption ==
    Advertised \subseteq Languages /\ None \notin Languages \cup SleepMinutes

---------------------------------------------------------------------------
(* The writes that are read back                                           *)

\* enable, time and repeat; a time of day is the same with and without leading
\* zeros, and an answer with other values is unusable.
Schedules == [enable: BOOLEAN, time: Times, repeat: 0 .. 255]

DeviceConfigs ==
    [language: Languages, sleep: SleepMinutes, reboot: Schedules]

\* set_ui_language, set_sleep_wait_time, set_timed_reboot.  A time that is none
\* and other minutes are None; a mask is a byte.
DeviceOps ==
    [field: {"language"}, value: Languages \cup {None}]
    \cup [field: {"sleep"}, value: SleepMinutes \cup {None}]
    \cup [field: {"reboot"},
          value: [enable: BOOLEAN, time: Times \cup {None}, repeat: -1 .. 256]]

DeviceValid(o) ==
    IF o.field = "reboot" THEN o.value \in Schedules ELSE o.value # None

\* The language is compared after it was looked up in the list of the router.
DeviceAdmissible(o) == o.field = "language" => o.value \in Advertised

\* Mutant of DeviceSame: a mask and a time are what a schedule is known by.
SameTimeAndDays(o, cfg) ==
    IF o.field = "reboot"
    THEN cfg.reboot.time = o.value.time /\ cfg.reboot.repeat = o.value.repeat
    ELSE cfg[o.field] = o.value

DeviceSame(o, cfg) == cfg[o.field] = o.value

DeviceApplied(o, cfg) ==
    [language |-> IF o.field = "language" THEN o.value ELSE cfg.language,
     sleep |-> IF o.field = "sleep" THEN o.value ELSE cfg.sleep,
     reboot |-> IF o.field = "reboot" THEN o.value ELSE cfg.reboot]

DeviceFrame(o, cfg) == Except(cfg, {o.field})

---------------------------------------------------------------------------
(* The WPS actions                                                         *)

\* call_wps_pbc, call_wps_pin and call_wps_cancel: what WPS is waiting for.
\* A PIN that is empty is refused.
WpsStates == {"off", "pbc", "pin"}

WpsOps == [start: WpsStates \cup {None}]

\* The result of the action at the top level of the answer and under wireless.
WpsAnswers == [top: {"OK", "FAIL", None}, nested: {"OK", "FAIL", None}]

WpsConfirms(answer) ==
    \/ answer.top = "OK"
    \/ answer.top = None /\ answer.nested = "OK"

\* A router that has not started the action says OK at neither place.
WpsReportsDone(answer) == "OK" \in {answer.top, answer.nested}

---------------------------------------------------------------------------
(* All the direct writes                                                   *)

ServicesConfigs ==
    [firewall: FirewallConfigs, sms: SmsConfigs, phonebook: PhonebookConfigs,
     statistics: StatisticsConfigs, device: DeviceConfigs, wps: WpsStates]

ServicesOps ==
    [part: {"firewall"}, do: FirewallOps] \cup [part: {"sms"}, do: SmsOps]
    \cup [part: {"phonebook"}, do: PhonebookOps]
    \cup [part: {"statistics"}, do: StatisticsOps]
    \cup [part: {"device"}, do: DeviceOps] \cup [part: {"wps"}, do: WpsOps]

IsReadBack(o) == o.part = "device"
IsChecked(o) == o.part = "device" /\ o.do.field = "language"
IsConfirmed(o) == o.part \in {"sms", "wps"}

ServicesValid(o) ==
    /\ o.part = "firewall" => FirewallValid(o.do)
    /\ o.part = "sms" => SmsValid(o.do)
    /\ o.part = "phonebook" => PhonebookValid(o.do)
    /\ o.part = "statistics" => StatisticsValid(o.do)
    /\ o.part = "device" => DeviceValid(o.do)
    /\ o.part = "wps" => o.do.start # None

ServicesAdmissible(o, cfg) == o.part = "device" => DeviceAdmissible(o.do)

ServicesSame(o, cfg) == o.part = "device" /\ DeviceSame(o.do, cfg.device)

ServicesAnswers(o) == IF o.part = "sms" THEN SmsAnswers ELSE WpsAnswers

ServicesConfirms(o, answer) ==
    IF o.part = "sms" THEN SmsConfirms(answer) ELSE WpsConfirms(answer)

ServicesReportsDone(o, answer) ==
    IF o.part = "sms" THEN SmsReportsDone(answer) ELSE WpsReportsDone(answer)

ServicesApplied(o, cfg) ==
    [firewall |-> IF o.part = "firewall"
                  THEN FirewallApplied(o.do, cfg.firewall) ELSE cfg.firewall,
     sms |-> IF o.part = "sms" THEN SmsApplied(o.do, cfg.sms) ELSE cfg.sms,
     phonebook |-> IF o.part = "phonebook"
                   THEN PhonebookApplied(o.do, cfg.phonebook) ELSE cfg.phonebook,
     statistics |-> IF o.part = "statistics"
                    THEN StatisticsApplied(o.do, cfg.statistics)
                    ELSE cfg.statistics,
     device |-> IF o.part = "device"
                THEN DeviceApplied(o.do, cfg.device) ELSE cfg.device,
     wps |-> IF o.part = "wps" THEN o.do.start ELSE cfg.wps]

---------------------------------------------------------------------------
(* Properties                                                              *)

\* What the caller of an operation that reads back asked for, field by field.
ServicesAsked(o, cfg) ==
    o.part = "device" =>
        /\ o.do.field = "language" => cfg.device.language = o.do.value
        /\ o.do.field = "sleep" => cfg.device.sleep = o.do.value
        /\ o.do.field = "reboot" =>
              \A f \in {"enable", "time", "repeat"} :
                  cfg.device.reboot[f] = o.do.value[f]

\* What an operation did not mention: the other parts, and the rest of its own.
ServicesFrame(o, cfg) ==
    [firewall |-> IF o.part = "firewall"
                  THEN FirewallFrame(o.do, cfg.firewall) ELSE cfg.firewall,
     sms |-> IF o.part = "sms" THEN SmsFrame(o.do, cfg.sms) ELSE cfg.sms,
     phonebook |-> IF o.part = "phonebook"
                   THEN PhonebookFrame(o.do, cfg.phonebook) ELSE cfg.phonebook,
     statistics |-> IF o.part = "statistics"
                    THEN StatisticsFrame(o.do, cfg.statistics)
                    ELSE cfg.statistics,
     device |-> IF o.part = "device"
                THEN DeviceFrame(o.do, cfg.device) ELSE cfg.device,
     wps |-> IF o.part = "wps" THEN None ELSE cfg.wps]

\* Once a write of rules has taken effect, each slot of its table holds what the
\* caller named for it, and nothing else: also when the caller enabled the feature
\* without any items, which empties every slot (firewall.py:456-458, 521-591).
SlotsAsNamed ==
    [][\A w \in owed :
          /\ config' = ServicesApplied(w.op, config)
          /\ w \notin owed'
          /\ w.op.part = "firewall"
          /\ \/ w.op.do.kind = "list"
             \/ w.op.do.kind \in {"table", "url"} /\ w.op.do.on
          => AsNamed(w.op.do, config'.firewall.slots[w.op.do.table])]_vars

\* The direct write is used with these operations and the configurations S, as
\* the instance for TLC says by what it gives its operator constants.
ServicesInstance(S) ==
    /\ Ops \subseteq ServicesOps
    /\ S = ServicesConfigs
    /\ ReadBack = {o \in Ops : IsReadBack(o)}
    /\ Confirmed = {o \in Ops : IsConfirmed(o)}
    /\ \A o \in Confirmed :
          /\ Answers(o) = ServicesAnswers(o)
          /\ \A a \in ServicesAnswers(o) :
                /\ Confirms(o, a) <=> ServicesConfirms(o, a)
                /\ ReportsDone(o, a) <=> ServicesReportsDone(o, a)
    /\ \A o \in Ops :
          /\ Valid(o) <=> ServicesValid(o)
          /\ \A cfg \in S :
                /\ Same(o, cfg) <=> ServicesSame(o, cfg)
                /\ Met(o, cfg) <=> ServicesSame(o, cfg)
                /\ Asked(o, cfg) <=> ServicesAsked(o, cfg)
                /\ Applied(o, cfg) = ServicesApplied(o, cfg)
                /\ Frame(o, cfg) = ServicesFrame(o, cfg)
=============================================================================
