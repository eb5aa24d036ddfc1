-------------------------------- MODULE Sms --------------------------------
(***************************************************************************)
(* The writes of the namespace sms: send, save_draft and delete.  Each     *)
(* must be confirmed by the three status fields of its answer.  The        *)
(* control is the module DirectWrite.                                      *)
(*                                                                         *)
(* A message is known by its text, a recipient and a text that are refused *)
(* by None, and an identifier that is no number by -2.  The router chooses *)
(* the identifier of a draft; a draft that is saved again becomes another  *)
(* one and the old one stays.                                              *)
(***************************************************************************)
EXTENDS DirectWrite

CONSTANTS Ids,      \* identifiers the router uses
          Texts,    \* messages
          MaxSent   \* bound: sent messages the model counts

ASSUME SmsAssumption == Ids \subseteq Nat /\ MaxSent \in Nat /\ None \notin Texts

SmsConfigs == [sent: 0 .. MaxSent, stored: [Ids -> Texts \cup {None}]]

SmsOps ==
    [kind: {"send"}, body: Texts \cup {None}]
    \cup [kind: {"save"}, id: {-2, -1} \cup Ids, body: Texts \cup {None}]
    \cup [kind: {"delete"}, id: {-2, -1} \cup Ids]

\* Only a draft may be new: its identifier is -1.
SmsValid(o) ==
    /\ o.kind \in {"send", "save"} => o.body # None
    /\ o.kind = "save" => o.id >= -1
    /\ o.kind = "delete" => o.id >= 0

SmsApplied(o, cfg) ==
    [sent |-> IF o.kind = "send" /\ cfg.sent < MaxSent THEN cfg.sent + 1
              ELSE cfg.sent,
     stored |-> IF o.kind = "save" THEN Entered(cfg.stored, o.body)
                ELSE IF o.kind = "delete"
                THEN [i \in Ids |-> IF i = o.id THEN None ELSE cfg.stored[i]]
                ELSE cfg.stored]

\* The three status fields of an answer, resp and the numbers of messages done and
\* failed: what int() makes of them, or None for a field that is missing, a
\* boolean or no number, and for an answer without an sms object.
SmsAnswers == [resp: {0, 1, None}, succ: {0, 1, None}, fail: {0, 1, None}]

\* Mutant of SmsConfirms: the number of failures is not looked at.
SentWithoutError(answer) == answer.resp = 0 /\ answer.succ = 1

SmsConfirms(answer) == answer.resp = 0 /\ answer.succ = 1 /\ answer.fail = 0

\* A router that has not done what it was asked says so in one of the fields.
SmsReportsDone(answer) ==
    ~(answer.resp # 0 \/ answer.succ # 1 \/ answer.fail # 0)

---------------------------------------------------------------------------
(* Properties                                                              *)

\* What an operation does not mention.
SmsFrame(o, cfg) ==
    [sent |-> IF o.kind = "send" THEN None ELSE cfg.sent,
     stored |-> IF o.kind = "save" THEN None
                ELSE IF o.kind = "delete" THEN Except(cfg.stored, {o.id})
                ELSE cfg.stored]
=============================================================================
