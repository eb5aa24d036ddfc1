----------------------------- MODULE Phonebook -----------------------------
(***************************************************************************)
(* The writes of the namespace phonebook.  None of them reads anything:    *)
(* contacts and groups are named by the index the caller read before.  The *)
(* control is the module DirectWrite.                                      *)
(*                                                                         *)
(* The router keeps contacts in two places, the SIM (1) and itself (0).    *)
(***************************************************************************)
EXTENDS DirectWrite, Sequences

CONSTANTS Indexes,     \* indexes the router uses
          Names,       \* of contacts, with their numbers
          GroupNames

Contacts == [name: Names, group: Indexes]

ASSUME PhonebookAssumption ==
    Indexes \subseteq Nat /\ None \notin Contacts /\ None \notin GroupNames

\* A place of the phonebook, and its groups.
Book == [Indexes -> Contacts \cup {None}]

PhonebookConfigs ==
    [contacts: [0 .. 1 -> Book], groups: [Indexes -> GroupNames \cup {None}]]

\* A negative index or location is refused.
AnyIndex == {-1} \cup Indexes

\* add_contact and update_contact; delete_contacts; move_contacts_to_group;
\* copy_all_from_sim_to_local; add_group, update_group and delete_group.
PhonebookOps ==
    [kind: {"add"}, place: 0 .. 1, contact: Contacts]
    \cup [kind: {"update"}, place: 0 .. 1, index: AnyIndex, contact: Contacts]
    \cup [kind: {"delete"}, place: 0 .. 1, indexes: Seq(AnyIndex)]
    \cup [kind: {"move"}, indexes: Seq(AnyIndex), group: AnyIndex]
    \cup [kind: {"copy"}]
    \cup [kind: {"add_group"}, name: GroupNames]
    \cup [kind: {"update_group"}, index: AnyIndex, name: GroupNames]
    \cup [kind: {"delete_group"}, index: AnyIndex]

\* _normalize_contact_indexes
IndexesGood(indexes) ==
    /\ indexes # <<>>
    /\ \A j \in DOMAIN indexes : indexes[j] >= 0
    /\ \A j, k \in DOMAIN indexes : indexes[j] = indexes[k] => j = k

PhonebookValid(o) ==
    /\ o.kind \in {"update", "update_group", "delete_group"} => o.index >= 0
    /\ o.kind \in {"delete", "move"} => IndexesGood(o.indexes)
    /\ o.kind = "move" => o.group >= 0

Named(o) == {o.indexes[k] : k \in DOMAIN o.indexes}

\* The entry i of a book becomes v, if there is one.
Replaced(book, i, v) ==
    [j \in DOMAIN book |-> IF j = i /\ book[j] # None THEN v ELSE book[j]]

ContactsAfter(o, contacts) ==
    IF o.kind = "add"
    THEN [contacts EXCEPT ![o.place] = Entered(contacts[o.place], o.contact)]
    ELSE IF o.kind = "update"
    THEN [contacts EXCEPT ![o.place] =
             Replaced(contacts[o.place], o.index, o.contact)]
    ELSE IF o.kind = "delete"
    THEN [contacts EXCEPT ![o.place] =
             [i \in Indexes |-> IF i \in Named(o) THEN None ELSE contacts[o.place][i]]]
    ELSE IF o.kind = "move"
    THEN [contacts EXCEPT ![0] =
             [i \in Indexes |->
                 IF i \in Named(o) /\ contacts[0][i] # None
                 THEN [name |-> contacts[0][i].name, group |-> o.group]
                 ELSE contacts[0][i]]]
    ELSE IF o.kind = "copy"
    THEN [contacts EXCEPT ![0] =
             [i \in Indexes |-> IF contacts[0][i] = None THEN contacts[1][i]
                                ELSE contacts[0][i]]]
    ELSE contacts

PhonebookApplied(o, cfg) ==
    [contacts |-> ContactsAfter(o, cfg.contacts),
     groups |-> IF o.kind = "add_group" THEN Entered(cfg.groups, o.name)
                ELSE IF o.kind = "update_group"
                THEN Replaced(cfg.groups, o.index, o.name)
                ELSE IF o.kind = "delete_group"
                THEN Replaced(cfg.groups, o.index, None)
                ELSE cfg.groups]

---------------------------------------------------------------------------
(* Properties                                                              *)

\* What an operation does not mention: the contacts at other indexes, and the
\* names of those that move to a group.
PhonebookFrame(o, cfg) ==
    [sim |-> IF o.kind \in {"add", "update", "delete"} /\ o.place = 1
             THEN None ELSE cfg.contacts[1],
     others |-> IF o.kind \in {"add", "copy"} THEN None
                ELSE IF o.kind = "update" /\ o.place = 0
                THEN Except(cfg.contacts[0], {o.index})
                ELSE IF o.kind = "move" \/ (o.kind = "delete" /\ o.place = 0)
                THEN Except(cfg.contacts[0], Named(o))
                ELSE cfg.contacts[0],
     names |-> IF o.kind # "move" THEN None
               ELSE [i \in Named(o) \cap Indexes |->
                        IF cfg.contacts[0][i] = None THEN None
                        ELSE cfg.contacts[0][i].name],
     groups |-> IF o.kind = "add_group" THEN None
                ELSE IF o.kind \in {"update_group", "delete_group"}
                THEN Except(cfg.groups, {o.index})
                ELSE cfg.groups]
=============================================================================
