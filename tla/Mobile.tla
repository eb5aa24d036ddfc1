------------------------------- MODULE Mobile -------------------------------
(***************************************************************************)
(* The settings of the namespace mobile: network mode and data roaming.    *)
(* The control they share is the module VerifiedWrite.                     *)
(*                                                                         *)
(* Unlike in lan and wifi, a write carries the one field it sets, and what *)
(* was read before it does not matter to the router.  The router also      *)
(* reports the network modes it offers, which set_network_mode checks      *)
(* first.                                                                  *)
(***************************************************************************)
EXTENDS VerifiedWrite

CONSTANTS NetworkModes,  \* the modes the router may offer
          Offered        \* get_available_network_mode: those it does offer

\* The network_settings block; other stands for the fields nothing here sets.
MobileConfigs ==
    [network_mode: NetworkModes, data_roaming: BOOLEAN, other: {0, 1}]

\* set_network_mode and set_data_roaming.
MobileOps ==
    [field: {"network_mode"}, expected: NetworkModes]
    \cup [field: {"data_roaming"}, expected: BOOLEAN]

MobileChecked == {o \in MobileOps : o.field = "network_mode"}

MobileAdmissible(o, cfg) == o.expected \in Offered

\* The payload {field: expected} needs nothing of the object read.
MobilePreparable(o, cfg) == TRUE

MobileSame(o, cfg) == cfg[o.field] = o.expected

\* Mutant of MobileApplied: the settings read are written back.
WholeObject(o, snapshot, cfg) == [snapshot EXCEPT ![o.field] = o.expected]

MobileApplied(o, snapshot, cfg) == [cfg EXCEPT ![o.field] = o.expected]

MobileMet(o, snapshot, actual) == actual[o.field] = o.expected

---------------------------------------------------------------------------
(* Properties                                                              *)

MobileAsked(o, cfg) == cfg[o.field] = o.expected

\* What it did not mention.
MobileFrame(o, cfg) == [f \in DOMAIN cfg \ {o.field} |-> cfg[f]]
=============================================================================
