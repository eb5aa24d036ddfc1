---------------------------- MODULE MatrixProofs ----------------------------
(***************************************************************************)
(* Proofs about Matrix, for all lists of sections and tokens, all keys and *)
(* channels, and whatever the router makes of what it is sent.             *)
(*                                                                         *)
(* The report is true whether or not writes take effect late.  That each   *)
(* section is restored before the next case needs that they do not: then   *)
(* nothing is owed when a case has been added to the report.               *)
(***************************************************************************)
EXTENDS Matrix, SequenceTheorems, TLAPS

USE ListsAssumption, RadiosAssumption, KeysAssumption, NoneAssumption

\* Where a case is under way.
Running == pc \in {"set", "sent", "look", "restore", "reset", "resent", "final"}

\* A case is about a section that is there, and its history reaches up to now.
CaseInv ==
    /\ start <= case
    /\ pc = "start" => initial = config /\ owed = {}
    /\ Running =>
           /\ case <= CaseCount
           /\ initial[section] # None
           /\ original # None
           /\ config[section] # None
           /\ Credentials(config[section]) \in held
    /\ pc \in {"set", "sent", "look"} => class = None

IInv == TypeOK /\ CaseInv /\ ReportIsTrue

---------------------------------------------------------------------------
(* The order of the cases                                                  *)

\* Division of a positive number by a positive one.
LEMMA Quotient ==
    ASSUME NEW n \in Nat, NEW m \in Nat, NEW k \in Nat, k < n * m
    PROVE  /\ m > 0
           /\ k \div m \in 0 .. n - 1
           /\ k % m \in 0 .. m - 1
<1>1. m > 0
  <2>. SUFFICES ASSUME m = 0 PROVE FALSE
    OBVIOUS
  <2>1. n * m = 0
    OBVIOUS
  <2>. QED
    BY <2>1
<1>2. k % m \in 0 .. m - 1 /\ k \div m \in Int /\ k = m * (k \div m) + (k % m)
  BY <1>1
<1>3. k \div m >= 0
  BY <1>1
<1>4. k \div m < n
  <2>. DEFINE q == k \div m
  <2>1. q \in Int
    BY <1>2
  <2>. HIDE DEF q
  <2>2. SUFFICES ASSUME q >= n PROVE FALSE
    BY <2>1 DEF q
  <2>3. m * q >= m * n
    BY <1>1, <2>1, <2>2
  <2>4. k >= m * q
    BY <1>2 DEF q
  <2>. QED
    BY <2>1, <2>3, <2>4
<1>. QED
  BY <1>1, <1>2, <1>3, <1>4

\* Every case has a section and a token.
LEMMA CaseTypes ==
    /\ CaseCount \in Nat
    /\ \A i \in 1 .. CaseCount : SectionOf(i) \in Sections /\ TokenOf(i) \in Tokens
<1>1. Len(SectionList) \in Nat /\ Len(TokenList) \in Nat
  BY LenProperties
<1>2. CaseCount \in Nat
  BY <1>1 DEF CaseCount
<1>3. ASSUME NEW i \in 1 .. CaseCount
      PROVE  SectionOf(i) \in Sections /\ TokenOf(i) \in Tokens
  <2>1. i - 1 \in Nat /\ i - 1 < Len(SectionList) * Len(TokenList)
    BY <1>2 DEF CaseCount
  <2>2. /\ (i - 1) \div Len(TokenList) \in 0 .. Len(SectionList) - 1
        /\ (i - 1) % Len(TokenList) \in 0 .. Len(TokenList) - 1
    BY <1>1, <2>1, Quotient
  <2>3. /\ ((i - 1) \div Len(TokenList)) + 1 \in 1 .. Len(SectionList)
        /\ ((i - 1) % Len(TokenList)) + 1 \in 1 .. Len(TokenList)
    BY <1>1, <2>2
  <2>. QED
    BY <2>3 DEF SectionOf, TokenOf, Sections, Tokens
<1>. QED
  BY <1>2, <1>3

---------------------------------------------------------------------------
(* Types and the truth of the report                                       *)

\* A section that is there has a token and a key.
LEMMA CredentialsTypes ==
    \A b \in Blocks : b # None /\ Credentials(b) \in [encryption: Tokens, key: Keys]
BY DEF Credentials, Blocks

\* At first nothing is in the report and nothing on its way.
LEMMA InitInv == Init => IInv
<1>. SUFFICES ASSUME Init PROVE IInv
  OBVIOUS
<1>1. CaseCount \in Nat
  BY CaseTypes
<1>2. TypeOK
  <2>1. /\ start \in 1 .. CaseCount
        /\ case \in 1 .. CaseCount + 1
    BY <1>1 DEF Init
  <2>2. rows \in Seq(1 .. CaseCount)
    BY DEF Init
  <2>3. /\ initial \in [Sections -> Blocks \cup {None}]
        /\ config \in [Sections -> Blocks \cup {None}]
    BY DEF Init
  <2>4. owed \subseteq Write /\ held \subseteq [encryption: Tokens, key: Keys]
    BY DEF Init
  <2>. QED
    BY <2>1, <2>2, <2>3, <2>4 DEF Init, TypeOK
<1>3. CaseInv
  BY <1>1 DEF Init, CaseInv, Running
<1>4. rows = <<>> /\ case = start /\ start \in 1 .. CaseCount
  BY DEF Init
<1>5. DOMAIN rows = {} /\ start .. case - 1 = {}
  BY <1>1, <1>4
<1>6. RowsInOrder
  BY <1>5 DEF RowsInOrder
<1>7. ClassifiedTruly
  BY DEF Init, ClassifiedTruly
<1>. QED
  BY <1>2, <1>3, <1>6, <1>7 DEF IInv, ReportIsTrue

\* The rows of the report stay in order where the campaign does not advance.
LEMMA SameRows ==
    ASSUME RowsInOrder, UNCHANGED <<rows, start, case, initial>>
    PROVE  RowsInOrder'
BY DEF RowsInOrder

\* A case that is skipped has no row.
LEMMA SkippedRow ==
    ASSUME TypeOK, RowsInOrder, skip_section
    PROVE  RowsInOrder'
<1>1. /\ UNCHANGED <<rows, start, initial>>
      /\ case' = case + 1
      /\ initial[SectionOf(case)] = None
  BY DEF skip_section, Goto, report_vars, section
<1>2. start \in Int /\ case \in Int
  BY CaseTypes DEF TypeOK
<1>3. \A i : i \in start .. case' - 1 <=> (i \in start .. case - 1 \/ (i = case /\ start <= case))
  BY <1>1, <1>2
<1>4. {i \in start .. case' - 1 : initial[SectionOf(i)] # None} =
      {i \in start .. case - 1 : initial[SectionOf(i)] # None}
  BY <1>1, <1>3
<1>. QED
  BY <1>1, <1>4 DEF RowsInOrder

\* A case that ends gets its row, behind those before it.
LEMMA NewRow ==
    ASSUME IInv, restored
    PROVE  RowsInOrder' /\ rows' \in Seq(1 .. CaseCount) /\ case' \in 1 .. CaseCount + 1
<1>1. /\ UNCHANGED <<start, initial>>
      /\ case' = case + 1
      /\ rows' = Append(rows, case)
      /\ case \in 1 .. CaseCount
  BY CaseTypes DEF restored, IInv, TypeOK, CaseInv, Running
<1>2. start \in Int /\ case \in Int /\ start <= case /\ CaseCount \in Nat
  BY CaseTypes DEF IInv, TypeOK, CaseInv
<1>3. initial[SectionOf(case)] # None
  BY DEF restored, IInv, CaseInv, Running, section
<1>4. rows \in Seq(1 .. CaseCount)
  BY DEF IInv, TypeOK
<1>5. /\ rows' \in Seq(1 .. CaseCount)
      /\ DOMAIN rows = 1 .. Len(rows) /\ Len(rows) \in Nat
      /\ DOMAIN rows' = 1 .. Len(rows) + 1
      /\ \A k \in 1 .. Len(rows) : rows'[k] = rows[k]
      /\ rows'[Len(rows) + 1] = case
  BY <1>1, <1>4, AppendProperties, LenProperties
<1>6. /\ \A j, k \in DOMAIN rows : j < k => rows[j] < rows[k]
      /\ {rows[k] : k \in DOMAIN rows} =
             {i \in start .. case - 1 : initial[SectionOf(i)] # None}
  BY DEF IInv, ReportIsTrue, RowsInOrder
<1>7. \A k \in DOMAIN rows : rows[k] \in start .. case - 1
  BY <1>6
<1>8. \A j, k \in DOMAIN rows' : j < k => rows'[j] < rows'[k]
  <2>. SUFFICES ASSUME NEW j \in DOMAIN rows', NEW k \in DOMAIN rows', j < k
                PROVE  rows'[j] < rows'[k]
    OBVIOUS
  <2>1. j \in DOMAIN rows
    BY <1>5
  <2>2. CASE k \in DOMAIN rows
    BY <1>5, <1>6, <2>1, <2>2
  <2>3. CASE k = Len(rows) + 1
    BY <1>2, <1>5, <1>7, <2>1, <2>3
  <2>. QED
    BY <1>5, <2>2, <2>3
<1>9. {rows'[k] : k \in DOMAIN rows'} = {rows[k] : k \in DOMAIN rows} \cup {case}
  <2>1. ASSUME NEW x \in {rows'[k] : k \in DOMAIN rows'}
        PROVE  x \in {rows[k] : k \in DOMAIN rows} \cup {case}
    <3>1. PICK k \in DOMAIN rows' : x = rows'[k]
      OBVIOUS
    <3>. QED
      BY <1>5, <3>1
  <2>2. ASSUME NEW x \in {rows[k] : k \in DOMAIN rows} \cup {case}
        PROVE  x \in {rows'[k] : k \in DOMAIN rows'}
    <3>1. CASE x = case
      BY <1>5, <3>1
    <3>2. CASE x \in {rows[k] : k \in DOMAIN rows}
      <4>1. PICK k \in DOMAIN rows : x = rows[k]
        BY <3>2
      <4>. QED
        BY <1>5, <4>1
    <3>. QED
      BY <3>1, <3>2
  <2>. QED
    BY <2>1, <2>2
<1>10. start .. case' - 1 = (start .. case - 1) \cup {case}
  BY <1>1, <1>2
<1>11. {i \in start .. case' - 1 : initial'[SectionOf(i)] # None} =
       {i \in start .. case - 1 : initial[SectionOf(i)] # None} \cup {case}
  BY <1>1, <1>3, <1>10
<1>12. {rows'[k] : k \in DOMAIN rows'} =
           {i \in start' .. case' - 1 : initial'[SectionOf(i)] # None}
  BY <1>1, <1>6, <1>9, <1>11
<1>13. RowsInOrder'
  BY <1>8, <1>12 DEF RowsInOrder
<1>. QED
  BY <1>1, <1>2, <1>5, <1>13

\* A block in flight is one: the changes are fields of a block.
LEMMA WantedTypes ==
    ASSUME IInv, Running
    PROVE  /\ section \in Sections /\ token \in Tokens
           /\ case \in 1 .. CaseCount
           /\ config[section] \in Blocks
           /\ original \in Blocks
           /\ Posted(config[section], Wanted) \in Blocks
<1>1. case \in 1 .. CaseCount /\ section \in Sections /\ token \in Tokens
  BY CaseTypes DEF IInv, TypeOK, CaseInv, section, token
<1>2. config[section] \in Blocks /\ original \in Blocks
  BY <1>1 DEF IInv, TypeOK, CaseInv
<1>3. KeyFor(token) \in Keys
  BY DEF KeyFor
<1>4. Wanted \in [encryption: Tokens, key: Keys] \cup Blocks
  BY <1>1, <1>2, <1>3, CredentialsTypes DEF Wanted, View
<1>5. Posted(config[section], Wanted) \in Blocks
  <2>. DEFINE b == config[section]
              p == Posted(b, Wanted)
  <2>1. /\ DOMAIN b = {"encryption", "key", "cur_channel"}
        /\ b.encryption \in Tokens /\ b.key \in Keys /\ b.cur_channel \in Channels
    BY <1>2 DEF Blocks
  <2>2. /\ "encryption" \in DOMAIN Wanted => Wanted.encryption \in Tokens
        /\ "key" \in DOMAIN Wanted => Wanted.key \in Keys
        /\ "cur_channel" \in DOMAIN Wanted => Wanted.cur_channel \in Channels
    BY <1>4 DEF Blocks
  <2>3. p = [encryption |-> p.encryption, key |-> p.key, cur_channel |-> p.cur_channel]
    BY <2>1 DEF Posted
  <2>4. p.encryption \in Tokens /\ p.key \in Keys /\ p.cur_channel \in Channels
    BY <2>1, <2>2 DEF Posted
  <2>. QED
    BY <2>3, <2>4 DEF Blocks
<1>. QED
  BY <1>1, <1>2, <1>5

\* Classify names one of the classes.
LEMMA ClassTypes == \A block : Classify(block) \in Classes
BY DEF Classify, Classes

\* The steps of the campaign that do not end a case or pass one over.
LEMMA CampaignInv ==
    ASSUME IInv, Campaign
    PROVE  IInv'
<1>. USE DEF Goto, case_vars, report_vars, router_vars
<1>1. TypeOK /\ CaseInv /\ RowsInOrder /\ ClassifiedTruly
  BY DEF IInv, ReportIsTrue
<1>2. CaseCount \in Nat /\ case \in Int /\ start \in Int /\ start <= case
  BY <1>1, CaseTypes DEF TypeOK, CaseInv
<1>3. CASE read_initial
  <2>1. TypeOK'
    BY <1>1, <1>3 DEF read_initial, TypeOK
  <2>2. initial' = initial
    BY <1>1, <1>3 DEF read_initial, CaseInv
  <2>3. RowsInOrder'
    BY <1>1, <1>3, <2>2, SameRows DEF read_initial
  <2>4. CaseInv' /\ ClassifiedTruly'
    BY <1>1, <1>3 DEF read_initial, CaseInv, Running, ClassifiedTruly
  <2>. QED
    BY <2>1, <2>3, <2>4 DEF IInv, ReportIsTrue
<1>4. CASE skip_section
  <2>1. TypeOK'
    BY <1>1, <1>2, <1>4 DEF skip_section, TypeOK
  <2>2. RowsInOrder'
    BY <1>1, <1>4, SkippedRow
  <2>3. CaseInv' /\ ClassifiedTruly'
    BY <1>1, <1>2, <1>4 DEF skip_section, CaseInv, Running, ClassifiedTruly
  <2>. QED
    BY <2>1, <2>2, <2>3 DEF IInv, ReportIsTrue
<1>5. CASE begin_case
  <2>1. case \in 1 .. CaseCount /\ section \in Sections
    BY <1>1, <1>2, <1>5, CaseTypes DEF begin_case, TypeOK, section
  <2>2. config[section] \in Blocks
    BY <1>1, <1>5, <2>1 DEF begin_case, TypeOK
  <2>3. TypeOK'
    BY <1>1, <1>5, <2>2, CredentialsTypes DEF begin_case, TypeOK
  <2>4. RowsInOrder'
    BY <1>1, <1>5, SameRows DEF begin_case
  <2>5. CaseInv' /\ ClassifiedTruly'
    BY <1>1, <1>5, <2>2 DEF begin_case, CaseInv, Running, ClassifiedTruly, section
  <2>. QED
    BY <2>3, <2>4, <2>5 DEF IInv, ReportIsTrue
<1>6. CASE update_ends
  <2>1. TypeOK'
    BY <1>1, <1>6 DEF update_ends, Updated, TypeOK
  <2>2. RowsInOrder'
    BY <1>1, <1>6, SameRows DEF update_ends
  <2>3. CaseInv' /\ ClassifiedTruly'
    BY <1>1, <1>6 DEF update_ends, Updated, CaseInv, Running, ClassifiedTruly, section, token
  <2>. QED
    BY <2>1, <2>2, <2>3 DEF IInv, ReportIsTrue
<1>7. CASE update_writes
  <2>1. Running
    BY <1>7 DEF update_writes, Running
  <2>2. [section |-> section, block |-> Posted(config[section], Wanted)] \in Write
    BY <2>1, WantedTypes DEF Write
  <2>3. owed' \subseteq Write
    BY <1>1, <1>7, <2>2 DEF update_writes, TypeOK
  <2>4. TypeOK'
    BY <1>1, <1>7, <2>3 DEF update_writes, TypeOK
  <2>5. RowsInOrder'
    BY <1>1, <1>7, SameRows DEF update_writes
  <2>6. CaseInv' /\ ClassifiedTruly'
    BY <1>1, <1>7 DEF update_writes, CaseInv, Running, ClassifiedTruly, section, token
  <2>. QED
    BY <2>4, <2>5, <2>6 DEF IInv, ReportIsTrue
<1>8. CASE update_polled
  <2>1. TypeOK'
    BY <1>1, <1>8 DEF update_polled, Updated, TypeOK
  <2>2. RowsInOrder'
    BY <1>1, <1>8, SameRows DEF update_polled
  <2>3. CaseInv' /\ ClassifiedTruly'
    BY <1>1, <1>8 DEF update_polled, Updated, CaseInv, Running, ClassifiedTruly, section, token
  <2>. QED
    BY <2>1, <2>2, <2>3 DEF IInv, ReportIsTrue
<1>9. CASE look
  <2>1. Running
    BY <1>9 DEF look, Running
  <2>2. /\ config[section] \in Blocks /\ actual' \in {config[section], None}
        /\ Credentials(config[section]) \in held
    BY <1>1, <1>9, <2>1, WantedTypes DEF look, CaseInv
  <2>3. TypeOK'
    <3>1. actual' \in Blocks \cup {None} /\ class' \in Classes
      BY <1>9, <2>2, ClassTypes DEF look
    <3>. QED
      BY <1>1, <1>9, <3>1 DEF look, TypeOK
  <2>4. RowsInOrder'
    BY <1>1, <1>9, SameRows DEF look
  <2>5. CaseInv'
    BY <1>1, <1>9 DEF look, CaseInv, Running, section
  <2>6. ClassifiedTruly'
    <3>1. CASE actual' = None
      BY <1>9, <3>1 DEF look, ClassifiedTruly, Classify
    <3>2. CASE actual' = config[section]
      <4>1. Credentials(config[section]) =
            [encryption |-> config[section].encryption, key |-> config[section].key]
        BY DEF Credentials
      <4>2. class' = "ACCEPTED" =>
                [encryption |-> token, key |-> KeyFor(token)] \in held
        BY <1>9, <2>2, <3>2, <4>1 DEF look, Classify
      <4>3. class' = "COERCED" => \E v \in held : v.encryption # token
        BY <1>9, <2>2, <3>2, <4>1 DEF look, Classify
      <4>. QED
        BY <1>9, <4>2, <4>3 DEF look, ClassifiedTruly, token
    <3>. QED
      BY <2>2, <3>1, <3>2
  <2>. QED
    BY <2>3, <2>4, <2>5, <2>6 DEF IInv, ReportIsTrue
<1>10. CASE interrupt
  <2>1. TypeOK'
    BY <1>1, <1>10 DEF interrupt, TypeOK
  <2>2. RowsInOrder'
    BY <1>1, <1>10, SameRows DEF interrupt
  <2>3. CaseInv'
    BY <1>1, <1>10 DEF interrupt, CaseInv, Running, section
  <2>4. class' \notin Classes
    BY <1>1, <1>10 DEF interrupt, CaseInv
  <2>5. ClassifiedTruly'
    BY <2>4 DEF ClassifiedTruly, Classes
  <2>. QED
    BY <2>1, <2>2, <2>3, <2>5 DEF IInv, ReportIsTrue
<1>11. CASE restore
  <2>1. TypeOK'
    BY <1>1, <1>11 DEF restore, TypeOK
  <2>2. RowsInOrder'
    BY <1>1, <1>11, SameRows DEF restore
  <2>3. CaseInv' /\ ClassifiedTruly'
    BY <1>1, <1>11 DEF restore, CaseInv, Running, ClassifiedTruly, section, token
  <2>. QED
    BY <2>1, <2>2, <2>3 DEF IInv, ReportIsTrue
<1>12. CASE restored
  <2>1. RowsInOrder' /\ rows' \in Seq(1 .. CaseCount) /\ case' \in 1 .. CaseCount + 1
    BY <1>12, NewRow
  <2>2. TypeOK'
    BY <1>1, <1>12, <2>1 DEF restored, TypeOK
  <2>3. CaseInv' /\ ClassifiedTruly'
    BY <1>1, <1>2, <1>12 DEF restored, CaseInv, Running, ClassifiedTruly
  <2>. QED
    BY <2>1, <2>2, <2>3 DEF IInv, ReportIsTrue
<1>13. CASE finish
  <2>1. TypeOK'
    BY <1>1, <1>13 DEF finish, TypeOK
  <2>2. RowsInOrder'
    BY <1>1, <1>13, SameRows DEF finish
  <2>3. CaseInv' /\ ClassifiedTruly'
    BY <1>1, <1>13 DEF finish, CaseInv, Running, ClassifiedTruly
  <2>. QED
    BY <2>1, <2>2, <2>3 DEF IInv, ReportIsTrue
<1>14. CASE not_restored \/ aborted
  <2>1. pc' = "closed" /\ UNCHANGED <<faults, report_vars, case_vars, router_vars>>
    BY <1>14 DEF not_restored, aborted, Abort
  <2>2. TypeOK'
    BY <1>1, <2>1 DEF TypeOK
  <2>3. RowsInOrder'
    BY <1>1, <2>1, SameRows
  <2>4. CaseInv' /\ ClassifiedTruly'
    BY <1>1, <2>1 DEF CaseInv, Running, ClassifiedTruly
  <2>. QED
    BY <2>2, <2>3, <2>4 DEF IInv, ReportIsTrue
<1>. QED
  BY <1>3, <1>4, <1>5, <1>6, <1>7, <1>8, <1>9, <1>10, <1>11, <1>12, <1>13, <1>14
  DEF Campaign

\* What the router makes of a block is added to what the section has been.
LEMMA ApplyInv ==
    ASSUME IInv, NEW w \in owed, apply(w)
    PROVE  IInv'
<1>1. TypeOK /\ CaseInv /\ RowsInOrder /\ ClassifiedTruly
  BY DEF IInv, ReportIsTrue
<1>2. PICK block \in Blocks :
          /\ config' = [config EXCEPT ![w.section] = block]
          /\ held' = IF w.section = section THEN held \cup {Credentials(block)} ELSE held
  BY DEF apply
<1>3. /\ owed' = owed \ {w}
      /\ UNCHANGED <<faults, pc, start, rows, complete, case, initial, original,
                     actual, class, interrupted>>
  BY DEF apply, report_vars, case_vars
<1>4. w.section \in Sections /\ w \in Write
  BY <1>1 DEF TypeOK, Write
<1>5. TypeOK'
  <2>1. config' \in [Sections -> Blocks \cup {None}]
    BY <1>1, <1>2, <1>4 DEF TypeOK
  <2>2. held' \subseteq [encryption: Tokens, key: Keys]
    BY <1>1, <1>2, CredentialsTypes DEF TypeOK
  <2>3. owed' \subseteq Write
    BY <1>1, <1>3 DEF TypeOK
  <2>. QED
    BY <1>1, <1>3, <2>1, <2>2, <2>3 DEF TypeOK
<1>6. RowsInOrder'
  BY <1>1, <1>3, SameRows
<1>7. CaseInv'
  <2>1. pc # "start"
    BY <1>1 DEF CaseInv
  <2>2. ASSUME Running
        PROVE  config'[section] # None /\ Credentials(config'[section]) \in held'
    <3>1. config[section] # None /\ Credentials(config[section]) \in held
      BY <1>1, <2>2 DEF CaseInv
    <3>2. section \in Sections
      BY <2>2, WantedTypes
    <3>3. CASE w.section = section
      BY <1>1, <1>2, <1>4, <3>3, CredentialsTypes DEF TypeOK
    <3>4. CASE w.section # section
      BY <1>1, <1>2, <3>1, <3>2, <3>4 DEF TypeOK
    <3>. QED
      BY <3>3, <3>4
  <2>. QED
    BY <1>1, <1>3, <2>1, <2>2 DEF CaseInv, Running, section
<1>8. ClassifiedTruly'
  <2>1. held \subseteq held'
    BY <1>2
  <2>. QED
    BY <1>1, <1>3, <2>1 DEF ClassifiedTruly, token
<1>. QED
  BY <1>5, <1>6, <1>7, <1>8 DEF IInv, ReportIsTrue

\* Every step of the campaign and of the router preserves it.
LEMMA StepInv == IInv /\ [Next]_vars => IInv'
<1>. SUFFICES ASSUME IInv, [Next]_vars PROVE IInv'
  OBVIOUS
<1>1. CASE Campaign
  BY <1>1, CampaignInv
<1>2. CASE Router
  BY <1>2, ApplyInv DEF Router
<1>3. CASE UNCHANGED vars
  BY <1>3 DEF vars, report_vars, case_vars, router_vars, IInv, TypeOK, CaseInv,
     Running, ReportIsTrue, RowsInOrder, ClassifiedTruly, section, token
<1>. QED
  BY <1>1, <1>2, <1>3 DEF Next

\* Every variable keeps its type.
THEOREM TypeCorrect == Spec => []TypeOK
<1>1. IInv => TypeOK
  BY DEF IInv
<1>. QED
  BY <1>1, InitInv, StepInv, PTL DEF Spec

\* The report has a row for each case the campaign is past whose section there
\* is, in order and once, and classifies as accepted or coerced only what the
\* router held while the case ran: also when writes take effect late.
THEOREM ReportTrue == Spec => []ReportIsTrue
<1>1. IInv => ReportIsTrue
  BY DEF IInv
<1>. QED
  BY <1>1, InitInv, StepInv, PTL DEF Spec

---------------------------------------------------------------------------
(* Restoring                                                               *)

\* While a case runs only its section is not as at first, and only writes to it
\* are on their way: none when the program has polled for them, unless it was
\* interrupted there and is on its way out.
RestInv ==
    /\ complete => pc = "closed"
    /\ interrupted =>
           pc \in {"restore", "reset", "resent", "final", "closed"} /\ ~complete
    /\ owed # {} =>
           pc \in {"sent", "resent"} \/ interrupted \/ (pc = "closed" /\ ~complete)
    /\ \A w \in owed : w.section = section
    /\ Running =>
           /\ View(section, original) = View(section, initial[section])
           /\ \A s \in Sections \ {section} : View(s, config[s]) = View(s, initial[s])

RInv == IInv /\ RestInv /\ RestoredBeforeNext

\* The campaign restores what it has changed before it goes on.
LEMMA CampaignRest ==
    ASSUME ~Late, RInv, Campaign
    PROVE  RestInv' /\ RestoredBeforeNext'
<1>. USE DEF Goto, case_vars, report_vars, router_vars
<1>1. IInv /\ RestInv /\ RestoredBeforeNext /\ TypeOK
  BY DEF RInv, IInv
<1>2. CASE read_initial
  <2>1. UNCHANGED <<case, interrupted, config, owed, complete>> /\ initial' = config
        /\ pc = "start" /\ pc' = "case"
    BY <1>2 DEF read_initial
  <2>. QED
    BY <1>1, <2>1 DEF RestInv, RestoredBeforeNext, Running, section
<1>3. CASE skip_section
  <2>1. UNCHANGED <<initial, interrupted, config, owed, complete, pc>> /\ pc = "case"
    BY <1>3 DEF skip_section
  <2>2. owed = {}
    BY <1>1, <2>1 DEF RestInv
  <2>. QED
    BY <1>1, <2>1, <2>2 DEF RestInv, RestoredBeforeNext, Running
<1>4. CASE begin_case
  <2>1. /\ UNCHANGED <<case, initial, interrupted, config, owed, complete>>
        /\ pc = "case" /\ pc' = "set" /\ original' = config[section]
        /\ case \in 1 .. CaseCount
    BY <1>1, <1>4, CaseTypes DEF begin_case, TypeOK
  <2>2. section \in Sections
    BY <2>1, CaseTypes DEF section
  <2>3. \A s \in Sections : View(s, config[s]) = View(s, initial[s])
    BY <1>1, <2>1 DEF RestoredBeforeNext
  <2>. QED
    BY <1>1, <2>1, <2>2, <2>3 DEF RestInv, RestoredBeforeNext, Running, section
<1>5. CASE update_ends \/ restore \/ look \/ interrupt
  <2>1. UNCHANGED <<case, initial, original, config, owed, complete>>
        /\ pc \in {"set", "reset", "restore", "look", "sent"}
        /\ pc' \in {"look", "final", "reset", "restore"}
    BY <1>5 DEF update_ends, Updated, restore, look, interrupt
  <2>2. \/ interrupted' = interrupted /\ pc' \in {"final", "reset"}
           /\ pc \in {"reset", "restore"}
        \/ interrupted' = interrupted /\ pc' \in {"look", "restore"}
           /\ pc \in {"set", "look"}
        \/ interrupted' /\ pc' = "restore"
    BY <1>5 DEF update_ends, Updated, restore, look, interrupt
  <2>3. owed # {} => interrupted'
    BY <1>1, <2>1, <2>2, <1>5 DEF RestInv
  <2>. QED
    BY <1>1, <2>1, <2>2, <2>3 DEF RestInv, RestoredBeforeNext, Running, section
<1>6. CASE update_writes
  <2>1. /\ UNCHANGED <<case, initial, original, interrupted, config, complete>>
        /\ pc \in {"set", "reset"}
        /\ pc' = IF pc = "set" THEN "sent" ELSE "resent"
        /\ \A w \in owed' : w \in owed \/ w.section = section
    BY <1>6 DEF update_writes
  <2>. QED
    BY <1>1, <2>1 DEF RestInv, RestoredBeforeNext, Running, section
<1>7. CASE update_polled
  <2>1. /\ UNCHANGED <<case, initial, original, interrupted, config, complete>>
        /\ pc \in {"sent", "resent"}
        /\ pc' = IF pc = "sent" THEN "look" ELSE "final"
        /\ owed' = {}
    BY <1>7 DEF update_polled, Updated
  <2>. QED
    BY <1>1, <2>1 DEF RestInv, RestoredBeforeNext, Running, section
<1>8. CASE restored
  <2>1. /\ UNCHANGED <<initial, interrupted, config, owed, complete>>
        /\ pc = "final" /\ pc' = "case" /\ ~interrupted
        /\ View(section, config[section]) = View(section, original)
    BY <1>8 DEF restored
  <2>2. owed = {}
    BY <1>1, <2>1 DEF RestInv
  <2>3. View(section, original) = View(section, initial[section])
        /\ \A s \in Sections \ {section} : View(s, config[s]) = View(s, initial[s])
    BY <1>1, <2>1 DEF RestInv, Running
  <2>. QED
    BY <1>1, <2>1, <2>2, <2>3 DEF RestInv, RestoredBeforeNext, Running
<1>9. CASE finish
  <2>1. /\ UNCHANGED <<case, initial, interrupted, config, owed>>
        /\ pc = "case" /\ pc' = "closed" /\ complete'
    BY <1>9 DEF finish
  <2>2. owed = {} /\ ~interrupted
    BY <1>1, <2>1 DEF RestInv
  <2>. QED
    BY <1>1, <2>1, <2>2 DEF RestInv, RestoredBeforeNext, Running
<1>10. CASE not_restored \/ aborted
  <2>1. /\ UNCHANGED <<case, initial, interrupted, config, owed, complete>>
        /\ pc # "closed" /\ pc' = "closed"
    BY <1>10 DEF not_restored, aborted, Abort
  <2>. QED
    BY <1>1, <2>1 DEF RestInv, RestoredBeforeNext, Running, section
<1>. QED
  BY <1>2, <1>3, <1>4, <1>5, <1>6, <1>7, <1>8, <1>9, <1>10 DEF Campaign

\* The router changes the section that is being tested, and no other.
LEMMA ApplyRest ==
    ASSUME RInv, NEW w \in owed, apply(w)
    PROVE  RestInv' /\ RestoredBeforeNext'
<1>1. /\ owed' = owed \ {w}
      /\ UNCHANGED <<pc, complete, case, initial, original, interrupted>>
  BY DEF apply, report_vars, case_vars
<1>2. PICK block \in Blocks : config' = [config EXCEPT ![w.section] = block]
  BY DEF apply
<1>3. w.section = section /\ TypeOK
  BY DEF RInv, RestInv, IInv
<1>4. \A s \in Sections \ {section} : config'[s] = config[s]
  BY <1>2, <1>3 DEF TypeOK
<1>5. pc # "case" /\ ~complete
  BY DEF RInv, RestInv
<1>. QED
  BY <1>1, <1>4, <1>5 DEF RInv, RestInv, RestoredBeforeNext, Running, section

\* Each section is restored before the next case and before the report is
\* complete, whatever the router makes of a token and whatever the setter's
\* return value was, where no write takes effect after its polls.
THEOREM Restored ==
    ASSUME ~Late
    PROVE  Spec => []RestoredBeforeNext
<1>1. Init => RInv
  <2>. SUFFICES ASSUME Init PROVE RInv
    OBVIOUS
  <2>1. RestInv /\ RestoredBeforeNext
    BY DEF Init, RestInv, RestoredBeforeNext, Running
  <2>. QED
    BY <2>1, InitInv DEF RInv
<1>2. RInv /\ [Next]_vars => RInv'
  <2>. SUFFICES ASSUME RInv, [Next]_vars PROVE RInv'
    OBVIOUS
  <2>1. IInv'
    BY StepInv DEF RInv
  <2>2. CASE Campaign
    BY <2>1, <2>2, CampaignRest DEF RInv
  <2>3. CASE Router
    BY <2>1, <2>3, ApplyRest DEF RInv, Router
  <2>4. CASE UNCHANGED vars
    BY <2>1, <2>4 DEF vars, report_vars, case_vars, router_vars, RInv, RestInv,
       RestoredBeforeNext, Running, section
  <2>. QED
    BY <2>2, <2>3, <2>4 DEF Next
<1>3. RInv => RestoredBeforeNext
  BY DEF RInv
<1>. QED
  BY <1>1, <1>2, <1>3, PTL DEF Spec

---------------------------------------------------------------------------
(* The end of the campaign                                                 *)

\* What is left of the campaign, by the place it has reached.
LEMMA LeftAt ==
    /\ pc = "start" => Left = 8 * (CaseCount + 1 - case) + 9
    /\ pc = "case" => Left = 8 * (CaseCount + 1 - case) + 8
    /\ pc = "set" => Left = 8 * (CaseCount + 1 - case) + 7
    /\ pc = "sent" => Left = 8 * (CaseCount + 1 - case) + 6
    /\ pc = "look" => Left = 8 * (CaseCount + 1 - case) + 5
    /\ pc = "restore" => Left = 8 * (CaseCount + 1 - case) + 4
    /\ pc = "reset" => Left = 8 * (CaseCount + 1 - case) + 3
    /\ pc = "resent" => Left = 8 * (CaseCount + 1 - case) + 2
    /\ pc = "final" => Left = 8 * (CaseCount + 1 - case) + 1
    /\ pc = "closed" => Left = 0
BY DEF Left

\* The same after a step.
LEMMA LeftAfter ==
    /\ pc' = "case" => Left' = 8 * (CaseCount + 1 - case') + 8
    /\ pc' = "set" => Left' = 8 * (CaseCount + 1 - case') + 7
    /\ pc' = "sent" => Left' = 8 * (CaseCount + 1 - case') + 6
    /\ pc' = "look" => Left' = 8 * (CaseCount + 1 - case') + 5
    /\ pc' = "restore" => Left' = 8 * (CaseCount + 1 - case') + 4
    /\ pc' = "reset" => Left' = 8 * (CaseCount + 1 - case') + 3
    /\ pc' = "resent" => Left' = 8 * (CaseCount + 1 - case') + 2
    /\ pc' = "final" => Left' = 8 * (CaseCount + 1 - case') + 1
    /\ pc' = "closed" => Left' = 0
BY DEF Left

\* Every step of the campaign brings it nearer to its end, whatever fails and
\* whatever the router makes of the tokens: no case is run twice.
THEOREM Shortens == Spec => CampaignShortens
<1>1. ASSUME IInv, [Next]_vars, <<pc, case>>' # <<pc, case>>
      PROVE  Left' \in 0 .. Left - 1
  <2>1. case \in 1 .. CaseCount + 1 /\ CaseCount \in Nat
    BY <1>1, CaseTypes DEF IInv, TypeOK
  <2>2. CASE read_initial \/ skip_section \/ finish
    <3>1. \/ pc = "start" /\ pc' = "case" /\ case' = case
          \/ pc = "case" /\ pc' = "case" /\ case' = case + 1 /\ case <= CaseCount
          \/ pc = "case" /\ pc' = "closed"
      BY <2>2 DEF read_initial, skip_section, finish, Goto
    <3>. QED
      BY <2>1, <3>1, LeftAt, LeftAfter
  <2>3. CASE begin_case \/ update_writes \/ restore
    <3>1. /\ \/ pc = "case" /\ pc' = "set"
             \/ pc = "set" /\ pc' = "sent"
             \/ pc = "restore" /\ pc' \in {"final", "reset"}
             \/ pc = "reset" /\ pc' = "resent"
          /\ case' = case
      BY <2>3 DEF begin_case, update_writes, restore, Goto, case_vars
    <3>. QED
      BY <2>1, <3>1, LeftAt, LeftAfter
  <2>4. CASE update_ends \/ update_polled
    <3>1. /\ \/ pc \in {"set", "sent"} /\ pc' = "look"
             \/ pc \in {"reset", "resent"} /\ pc' = "final"
          /\ case' = case
      BY <2>4 DEF update_ends, update_polled, Updated, Goto, case_vars
    <3>. QED
      BY <2>1, <3>1, LeftAt, LeftAfter
  <2>5. CASE look \/ interrupt
    <3>1. pc \in {"set", "sent", "look"} /\ pc' = "restore" /\ case' = case
      BY <2>5 DEF look, interrupt, Goto
    <3>. QED
      BY <2>1, <3>1, LeftAt, LeftAfter
  <2>6. CASE restored
    <3>1. pc = "final" /\ pc' = "case" /\ case' = case + 1 /\ case <= CaseCount
      BY <1>1, <2>6 DEF restored, IInv, CaseInv, Running
    <3>. QED
      BY <2>1, <3>1, LeftAt, LeftAfter
  <2>7. CASE not_restored \/ aborted
    <3>1. pc \in {"start", "case", "restore", "reset", "resent", "final"}
      BY <1>1, <2>7 DEF not_restored, aborted, IInv, TypeOK
    <3>2. pc' = "closed"
      BY <2>7 DEF not_restored, aborted, Abort, Goto
    <3>. QED
      BY <2>1, <3>1, <3>2, LeftAt, LeftAfter
  <2>8. CASE Router \/ UNCHANGED vars
    BY <1>1, <2>8 DEF Router, apply, case_vars, vars
  <2>. QED
    BY <1>1, <2>2, <2>3, <2>4, <2>5, <2>6, <2>7, <2>8 DEF Next, Campaign
<1>. QED
  BY <1>1, InitInv, StepInv, PTL DEF Spec, CampaignShortens
=============================================================================
