------------------------- MODULE RuleConfigTheorems -------------------------
(***************************************************************************)
(* The rules in the router are always one state of the table, in its order *)
(* - for any number of operators, rules, edits, failures and stops.        *)
(*                                                                         *)
(* First the listing itself: counting the rules above it gives every rule  *)
(* a place of its own, so that the enumeration by places is a sorted list  *)
(* of all enabled rules.  Then the steps.                                  *)
(***************************************************************************)
EXTENDS RuleConfig, FiniteSetTheorems, TLAPS

IsTable(t) == DOMAIN t \subseteq Ids /\ \A i \in DOMAIN t : t[i] \in Settings

\* A finite set of rows in which no id comes twice.
IsRuleSet(E) ==
    /\ IsFiniteSet(E)
    /\ E \subseteq RuleRow
    /\ \A r, s \in E : r.id = s.id => r = s

-----------------------------------------------------------------------------
(* The order. *)

LEMMA SettingTypes ==
    ASSUME NEW r \in RuleRow
    PROVE  /\ r.id \in Int /\ r.setting.priority \in Int /\ r.setting.enabled \in BOOLEAN
  BY SettingsAssumption, RuleBoundsAssumption DEF RuleRow, Ids

\* ORDER BY priority DESC, id DESC is a strict total order (mysql_store.go, ListEnabledRules).
LEMMA AboveOrders ==
    ASSUME NEW r \in RuleRow, NEW s \in RuleRow
    PROVE  /\ ~Above(r, r)
           /\ Above(r, s) => ~Above(s, r)
           /\ r.id # s.id => Above(r, s) \/ Above(s, r)
           /\ \A q \in RuleRow : Above(q, r) /\ Above(r, s) => Above(q, s)
<1>1. \A q \in RuleRow : q.id \in Int /\ q.setting.priority \in Int
  BY SettingTypes
<1> QED
  BY <1>1 DEF Above

\* The records of a table.
LEMMA RecordsOfTable ==
    ASSUME NEW t, IsTable(t)
    PROVE  IsRuleSet(Records(t)) /\ IsRuleSet(Enabled(t))
<1>1. IsFiniteSet(DOMAIN t)
  <2>1. IsFiniteSet(Ids)
    BY RuleBoundsAssumption, FS_Interval DEF Ids
  <2> QED
    BY <2>1, FS_Subset DEF IsTable
<1>2. IsFiniteSet(Records(t))
  <2> DEFINE f == [i \in DOMAIN t |-> [id |-> i, setting |-> t[i]]]
  <2>1. f \in Surjection(DOMAIN t, Records(t))
    BY DEF Surjection, Records
  <2> QED
    BY <1>1, <2>1, FS_Surjection
<1>3. Records(t) \subseteq RuleRow /\ \A r, s \in Records(t) : r.id = s.id => r = s
  BY DEF Records, RuleRow, IsTable
<1>4. IsFiniteSet(Enabled(t)) /\ Enabled(t) \subseteq Records(t)
  BY <1>2, FS_Subset DEF Enabled
<1> QED
  BY <1>2, <1>3, <1>4 DEF IsRuleSet

-----------------------------------------------------------------------------
(* Places. *)

Rank(E, r) == Cardinality({ s \in E : Above(s, r) })

\* Who stands higher has a lower place.
LEMMA RanksAreOrdered ==
    ASSUME NEW E, IsRuleSet(E), NEW r \in E, NEW s \in E, Above(r, s)
    PROVE  Rank(E, r) < Rank(E, s)
<1> DEFINE A(x) == { y \in E : Above(y, x) }
<1>1. IsFiniteSet(A(s)) /\ A(r) \subseteq A(s) /\ r \in A(s) /\ r \notin A(r)
  <2>1. IsFiniteSet(A(s))
    BY FS_Subset DEF IsRuleSet
  <2>2. A(r) \subseteq A(s) /\ r \in A(s) /\ r \notin A(r)
    BY AboveOrders DEF IsRuleSet
  <2> QED
    BY <2>1, <2>2
<1> HIDE DEF A
<1>2. /\ Cardinality(A(r)) <= Cardinality(A(s)) /\ Cardinality(A(r)) # Cardinality(A(s))
      /\ Cardinality(A(s)) \in Nat /\ Cardinality(A(r)) \in Nat
  <2>1. Cardinality(A(r)) <= Cardinality(A(s)) /\ Cardinality(A(r)) # Cardinality(A(s)) /\ IsFiniteSet(A(r))
    BY <1>1, FS_Subset
  <2> QED
    BY <1>1, <2>1, FS_CardinalityType
<1>3. Rank(E, r) = Cardinality(A(r)) /\ Rank(E, s) = Cardinality(A(s))
  BY DEF Rank, A
<1> QED
  BY <1>2, <1>3

\* The places are the numbers from 0 on, each taken by one rule.
LEMMA RanksAreNumbers ==
    ASSUME NEW E, IsRuleSet(E)
    PROVE  /\ Cardinality(E) \in Nat
           /\ \A r \in E : Rank(E, r) \in 0..(Cardinality(E) - 1)
           /\ \A r, s \in E : Rank(E, r) = Rank(E, s) => r = s
           /\ \A i \in 0..(Cardinality(E) - 1) : \E r \in E : Rank(E, r) = i
<1> DEFINE n == Cardinality(E)
           f == [r \in E |-> Rank(E, r)]
<1>1. n \in Nat
  BY FS_CardinalityType DEF IsRuleSet
<1>2. ASSUME NEW r \in E PROVE Rank(E, r) \in 0..(n - 1)
  <2> DEFINE A == { y \in E : Above(y, r) }
  <2>1. A \subseteq E /\ A # E
    BY AboveOrders DEF IsRuleSet
  <2> HIDE DEF A
  <2>2. IsFiniteSet(A) /\ Cardinality(A) <= n /\ Cardinality(A) # n
    BY <2>1, FS_Subset DEF IsRuleSet
  <2>3. Cardinality(A) \in Nat
    BY <2>2, FS_CardinalityType
  <2>4. Rank(E, r) = Cardinality(A)
    BY DEF Rank, A
  <2> QED
    BY <1>1, <2>2, <2>3, <2>4
<1>3. ASSUME NEW r \in E, NEW s \in E, Rank(E, r) = Rank(E, s) PROVE r = s
  <2>1. Rank(E, r) \in Int
    BY <1>1, <1>2
  <2>2. ~(Rank(E, r) < Rank(E, s)) /\ ~(Rank(E, s) < Rank(E, r))
    BY <1>3, <2>1
  <2>3. ~Above(r, s) /\ ~Above(s, r)
    BY <2>2, RanksAreOrdered
  <2> QED
    BY <2>3, AboveOrders DEF IsRuleSet
<1>4. f \in Injection(E, 0..(n - 1))
  BY <1>2, <1>3 DEF Injection, IsInjective
<1>5. IsFiniteSet(0..(n - 1)) /\ Cardinality(0..(n - 1)) = n
  <2>1. n - 1 \in Int /\ 0 \in Int /\ n = (n - 1) - 0 + 1 /\ (0 > n - 1 => n = 0)
    BY <1>1
  <2> QED
    BY <2>1, FS_Interval
<1>6. f \in Surjection(E, 0..(n - 1))
  BY <1>4, <1>5, FS_Injection
<1>7. \A i \in 0..(n - 1) : \E r \in E : Rank(E, r) = i
  BY <1>6 DEF Surjection
<1> QED
  BY <1>1, <1>2, <1>3, <1>7

\* One rule is above all others.
LEMMA TopRule ==
    ASSUME NEW E, IsRuleSet(E), E # {}
    PROVE  \E r \in E : \A s \in E : ~Above(s, r)
<1>1. Cardinality(E) \in Nat /\ Cardinality(E) # 0
  BY FS_EmptySet, FS_CardinalityType DEF IsRuleSet
<1>2. PICK r \in E : Rank(E, r) = 0
  BY <1>1, RanksAreNumbers
<1> DEFINE A == { s \in E : Above(s, r) }
<1>3. IsFiniteSet(A) /\ Cardinality(A) = 0
  BY <1>2, FS_Subset DEF IsRuleSet, Rank
<1>4. A = {}
  BY <1>3, FS_EmptySet
<1> QED
  BY <1>4

\* The listing has every enabled rule once, in the order.
LEMMA ListingIsSorted ==
    ASSUME NEW t, IsTable(t)
    PROVE  /\ Cardinality(Enabled(t)) \in Nat
           /\ Listing(t) \in [1..Cardinality(Enabled(t)) -> Enabled(t)]
           /\ \A r \in Enabled(t) : \E i \in DOMAIN Listing(t) : Listing(t)[i] = r
           /\ \A i, j \in DOMAIN Listing(t) : i < j => Above(Listing(t)[i], Listing(t)[j])
<1> DEFINE E == Enabled(t)
           n == Cardinality(E)
           L == Listing(t)
<1>1. IsRuleSet(E)
  BY RecordsOfTable
<1>2. L = [i \in 1..n |-> CHOOSE r \in E : Rank(E, r) = i - 1]
  BY DEF Listing, Rank
<1> HIDE DEF E, n, L
<1>3. /\ n \in Nat
      /\ \A r \in E : Rank(E, r) \in 0..(n - 1)
      /\ \A r, s \in E : Rank(E, r) = Rank(E, s) => r = s
      /\ \A i \in 0..(n - 1) : \E r \in E : Rank(E, r) = i
  BY <1>1, RanksAreNumbers DEF n
<1>4. ASSUME NEW i \in 1..n PROVE L[i] \in E /\ Rank(E, L[i]) = i - 1
  <2>1. i - 1 \in 0..(n - 1)
    BY <1>3
  <2>2. \E r \in E : Rank(E, r) = i - 1
    BY <1>3, <2>1
  <2> QED
    BY <1>2, <2>2
<1>5. L \in [1..n -> E]
  BY <1>2, <1>4
<1>6. ASSUME NEW r \in E PROVE \E i \in DOMAIN L : L[i] = r
  <2>1. PICK i \in 1..n : Rank(E, r) = i - 1
    <3>1. Rank(E, r) \in 0..(n - 1)
      BY <1>3
    <3>2. Rank(E, r) + 1 \in 1..n /\ Rank(E, r) = (Rank(E, r) + 1) - 1
      BY <1>3, <3>1
    <3> QED
      BY <3>2
  <2>2. L[i] = r
    BY <2>1, <1>3, <1>4
  <2> QED
    BY <2>1, <2>2, <1>5
<1>7. ASSUME NEW i \in DOMAIN L, NEW j \in DOMAIN L, i < j PROVE Above(L[i], L[j])
  <2>1. i \in 1..n /\ j \in 1..n
    BY <1>5
  <2>2. L[i] \in E /\ L[j] \in E /\ Rank(E, L[i]) = i - 1 /\ Rank(E, L[j]) = j - 1
    BY <1>4, <2>1
  <2>3. Rank(E, L[i]) < Rank(E, L[j]) /\ ~(Rank(E, L[j]) < Rank(E, L[i]))
    BY <1>7, <2>1, <2>2, <1>3
  <2>4. L[i] # L[j] /\ ~Above(L[j], L[i])
    BY <1>1, <2>2, <2>3, RanksAreOrdered
  <2> QED
    BY <1>1, <2>2, <2>4, AboveOrders DEF IsRuleSet
<1> QED
  BY <1>3, <1>5, <1>6, <1>7 DEF E, n, L

LEMMA CountTo ==
    ASSUME NEW n \in Nat
    PROVE  IsFiniteSet(1..n) /\ Cardinality(1..n) = n
<1>1. 1 \in Int /\ n \in Int /\ (1 > n => n = 0) /\ n - 1 + 1 = n
  OBVIOUS
<1> QED
  BY <1>1, FS_Interval

\* ReplaceRules takes over a listing as it is.
LEMMA ReplaceTakesListing ==
    ASSUME NEW t, IsTable(t), NEW old
    PROVE  Replace(old, Listing(t)) = Listing(t)
<1> DEFINE n == Cardinality(Enabled(t))
           L == Listing(t)
           kept == { i \in DOMAIN L : L[i].setting.enabled }
<1>1. n \in Nat /\ L \in [1..n -> Enabled(t)]
  BY ListingIsSorted
<1> HIDE DEF n, L
<1>2. kept = 1..n
  BY <1>1 DEF Enabled
<1>3. ASSUME NEW k \in 1..n PROVE Cardinality({ i \in kept : i <= k }) = k
  <2>1. { i \in kept : i <= k } = 1..k
    BY <1>1, <1>2
  <2>2. k \in Nat
    BY <1>1
  <2>3. Cardinality(1..k) = k
    BY <2>2, CountTo
  <2> QED
    BY <2>1, <2>3
<1>4. \A m \in 1..n : (CHOOSE k \in kept : Cardinality({ i \in kept : i <= k }) = m) = m
  BY <1>2, <1>3
<1>5. Replace(old, L) = [m \in 1..Cardinality(kept) |->
                           L[CHOOSE k \in kept : Cardinality({ i \in kept : i <= k }) = m]]
  BY DEF Replace
<1>6. Cardinality(kept) = n
  BY <1>1, <1>2, CountTo
<1> HIDE DEF kept
<1>7. Replace(old, L) = [m \in 1..n |-> L[m]]
  BY <1>4, <1>5, <1>6
<1> QED
  BY <1>1, <1>7 DEF L

LEMMA EmptyTable == IsTable(<<>>) /\ Listing(<<>>) = <<>>
<1>1. IsTable(<<>>) /\ Enabled(<<>>) = {}
  BY DEF IsTable, Enabled, Records
<1>2. Cardinality(Enabled(<<>>)) = 0
  BY <1>1, FS_EmptySet
<1> QED
  BY <1>1, <1>2 DEF Listing

\* A listing is a list of rows in which no row comes twice.
LEMMA ListingIsRuleList ==
    ASSUME NEW t, IsTable(t)
    PROVE  IsRuleList(Listing(t))
<1> DEFINE n == Cardinality(Enabled(t))
           L == Listing(t)
<1>1. /\ n \in Nat /\ L \in [1..n -> Enabled(t)]
      /\ \A i, j \in DOMAIN L : i < j => Above(L[i], L[j])
      /\ IsRuleSet(Enabled(t))
  BY ListingIsSorted, RecordsOfTable
<1> HIDE DEF n, L
<1>2. DOMAIN L = 1..n /\ Len(L) = n
  BY <1>1
<1>3. \A i \in DOMAIN L : L[i] \in RuleRow /\ L[i] \in Enabled(t)
  BY <1>1 DEF IsRuleSet
<1>4. ASSUME NEW i \in DOMAIN L, NEW j \in DOMAIN L, L[i].id = L[j].id PROVE i = j
  <2>1. L[i] = L[j]
    BY <1>1, <1>3, <1>4 DEF IsRuleSet
  <2>2. ~(i < j) /\ ~(j < i)
    BY <1>1, <1>3, <2>1, AboveOrders
  <2> QED
    BY <1>2, <1>1, <2>2
<1> QED
  BY <1>2, <1>3, <1>4 DEF IsRuleList, L

-----------------------------------------------------------------------------
(* The steps. *)

\* Every list of rules is the listing of a state the table has had; those of the reloads that
\* began after the last edit, and the shown one, are the listings of the state it is in.
ConfigInv ==
    /\ \A t \in past : IsTable(t)
    /\ table \in past /\ <<>> \in past
    /\ \E t \in past : router = Listing(t)
    /\ shown => router = Listing(table)
    /\ DOMAIN listing = Operators
    /\ \A o \in Operators :
         /\ listing[o].running \in BOOLEAN
         /\ \E t \in past : listing[o].rows = Listing(t)
    /\ \A o \in timely : listing[o].rows = Listing(table)
    /\ timely \cup alone \subseteq { o \in Operators : listing[o].running }
    /\ serving \in BOOLEAN /\ applied \in BOOLEAN /\ shown \in BOOLEAN
    /\ failures \in Nat /\ stops \in Nat /\ edits \in Nat

LEMMA ConfigInit == Init => ConfigInv
<1> SUFFICES ASSUME Init PROVE ConfigInv
  OBVIOUS
<1>1. past = {<<>>} /\ IsTable(<<>>) /\ router = Listing(<<>>)
  BY EmptyTable DEF Init
<1>2. /\ DOMAIN listing = Operators
      /\ \A o \in Operators : listing[o].running = FALSE /\ listing[o].rows = Listing(<<>>)
  BY EmptyTable DEF Init, NoListing
<1> QED
  BY <1>1, <1>2 DEF Init, ConfigInv

\* An edit adds a state of the table and makes every running reload a late one.
LEMMA WriteKeeps ==
    ASSUME ConfigInv, NEW t, IsTable(t), Write(t), edits' \in Nat,
           UNCHANGED <<router, serving, listing, stops>>
    PROVE  ConfigInv'
<1>1. failures' \in Nat
  BY DEF Write, Failure, ConfigInv
<1>2. CASE Edited(t)
  <2>1. /\ past' = past \cup {t} /\ table' = t /\ timely' = {} /\ ~applied' /\ ~shown'
        /\ applied' \in BOOLEAN /\ shown' \in BOOLEAN /\ alone' = alone
    BY <1>2 DEF Edited
  <2> QED
    BY <1>1, <2>1 DEF ConfigInv
<1>3. CASE UNCHANGED <<table, ghostVars>>
  BY <1>1, <1>3 DEF ConfigInv, ghostVars
<1> QED
  BY <1>2, <1>3 DEF Write

LEMMA CreateKeeps ==
    ASSUME ConfigInv, NEW o \in Operators, CreateRule(o)
    PROVE  ConfigInv'
<1> DEFINE id == Cardinality(DOMAIN table) + 1
<1>1. PICK setting \in Settings :
        Write([i \in DOMAIN table \cup {id} |-> IF i = id THEN setting ELSE table[i]])
  BY DEF CreateRule
<1>2. IsTable(table)
  BY DEF ConfigInv
<1>3. id \in Ids
  <2>1. IsFiniteSet(DOMAIN table)
    BY <1>2, RuleBoundsAssumption, CountTo, FS_Subset DEF IsTable, Ids
  <2>2. Cardinality(DOMAIN table) \in Nat /\ Cardinality(DOMAIN table) < MaxRules
    BY <2>1, FS_CardinalityType DEF CreateRule
  <2> QED
    BY <2>2, RuleBoundsAssumption DEF Ids
<1> HIDE DEF id
<1>4. IsTable([i \in DOMAIN table \cup {id} |-> IF i = id THEN setting ELSE table[i]])
  BY <1>2, <1>3 DEF IsTable
<1>5. edits' \in Nat /\ UNCHANGED <<router, serving, listing, stops>>
  BY DEF CreateRule, ConfigInv
<1> QED
  BY <1>1, <1>4, <1>5, WriteKeeps

LEMMA UpdateKeeps ==
    ASSUME ConfigInv, NEW o \in Operators, UpdateRule(o)
    PROVE  ConfigInv'
<1>1. PICK id \in DOMAIN table, setting \in Settings : Write([table EXCEPT ![id] = setting])
  BY DEF UpdateRule
<1>2. IsTable([table EXCEPT ![id] = setting])
  BY DEF ConfigInv, IsTable
<1>3. edits' \in Nat /\ UNCHANGED <<router, serving, listing, stops>>
  BY DEF UpdateRule, ConfigInv
<1> QED
  BY <1>1, <1>2, <1>3, WriteKeeps

LEMMA ListKeeps ==
    ASSUME ConfigInv, NEW o \in Operators, ListRules(o)
    PROVE  ConfigInv'
<1>1. UNCHANGED <<table, router, serving, stops, edits, past, applied, shown>>
  BY DEF ListRules
<1>2. CASE UNCHANGED <<listing, timely, alone>>
  BY <1>1, <1>2 DEF ListRules, Failure, ConfigInv
<1>3. CASE /\ listing' = [listing EXCEPT ![o] = [running |-> TRUE, rows |-> Listing(table)]]
           /\ timely' = timely \cup {o}
           /\ alone' = IF \E p \in Operators : listing[p].running THEN {} ELSE {o}
           /\ UNCHANGED failures
  <2>1. /\ DOMAIN listing' = Operators /\ listing'[o].running = TRUE /\ listing'[o].rows = Listing(table)
        /\ \A p \in Operators \ {o} : listing'[p] = listing[p]
    BY <1>3 DEF ConfigInv
  <2>2. timely' \cup alone' \subseteq { p \in Operators : listing'[p].running }
    BY <1>3, <2>1 DEF ConfigInv
  <2>3. \A p \in timely' : listing'[p].rows = Listing(table)
    BY <1>3, <2>1 DEF ConfigInv
  <2>4. \A p \in Operators : listing'[p].running \in BOOLEAN
    BY <2>1 DEF ConfigInv
  <2>5. ASSUME NEW p \in Operators PROVE \E t \in past : listing'[p].rows = Listing(t)
    <3>1. CASE p = o
      BY <2>1, <3>1 DEF ConfigInv
    <3>2. CASE p # o
      BY <2>1, <3>2 DEF ConfigInv
    <3> QED
      BY <3>1, <3>2
  <2> QED
    BY <1>1, <1>3, <2>1, <2>2, <2>3, <2>4, <2>5 DEF ConfigInv
<1> QED
  BY <1>2, <1>3 DEF ListRules

LEMMA ReplaceKeeps ==
    ASSUME ConfigInv, NEW o \in Operators, ReplaceRules(o)
    PROVE  ConfigInv'
<1>1. PICK t \in past : listing[o].rows = Listing(t)
  BY DEF ConfigInv
<1>2. router' = listing[o].rows
  <2>1. IsTable(t) /\ router' = Replace(router, Listing(t))
    BY <1>1 DEF ReplaceRules, ConfigInv
  <2> QED
    BY <1>1, <2>1, ReplaceTakesListing
<1>3. /\ DOMAIN listing' = Operators /\ listing'[o].running = FALSE /\ listing'[o].rows = <<>>
      /\ \A p \in Operators \ {o} : listing'[p] = listing[p]
      /\ timely' = timely \ {o} /\ alone' = alone \ {o}
      /\ shown' = (o \in timely \cap alone) /\ applied' = (applied \/ o \in timely)
      /\ UNCHANGED <<table, serving, countVars, past>>
  BY DEF ReplaceRules, ConfigInv, NoListing
<1>4. shown' => router' = Listing(table)
  BY <1>2, <1>3 DEF ConfigInv
<1>5. shown' \in BOOLEAN /\ applied' \in BOOLEAN
  BY <1>3 DEF ConfigInv
<1>6. \A p \in Operators : listing'[p].running \in BOOLEAN /\ \E u \in past : listing'[p].rows = Listing(u)
  BY <1>3, EmptyTable DEF ConfigInv
<1>7. /\ \A p \in timely' : listing'[p].rows = Listing(table)
      /\ timely' \cup alone' \subseteq { p \in Operators : listing'[p].running }
  BY <1>3 DEF ConfigInv
<1> QED
  BY <1>1, <1>2, <1>3, <1>4, <1>5, <1>6, <1>7 DEF ConfigInv, countVars

LEMMA StopStartKeep ==
    ASSUME ConfigInv, Stop \/ Start
    PROVE  ConfigInv'
<1>1. CASE Stop
  <2>1. router' = Listing(<<>>) /\ <<>> \in past /\ past' = past /\ table' = table
    BY <1>1, EmptyTable DEF Stop, ConfigInv
  <2>2. /\ DOMAIN listing' = Operators
        /\ \A o \in Operators : listing'[o].running = FALSE /\ listing'[o].rows = Listing(<<>>)
    BY <1>1, EmptyTable DEF Stop, NoListing
  <2>3. /\ timely' = {} /\ alone' = {} /\ applied' = FALSE /\ shown' = FALSE /\ serving' = FALSE
        /\ failures' \in Nat /\ stops' \in Nat /\ edits' \in Nat
    BY <1>1 DEF Stop, ConfigInv
  <2> QED
    BY <2>1, <2>2, <2>3 DEF ConfigInv
<1>2. CASE Start
  <2>1. IsTable(table)
    BY DEF ConfigInv
  <2>2. \/ router' = Listing(table) /\ applied' = TRUE /\ shown' = TRUE /\ failures' = failures
        \/ Failure /\ UNCHANGED <<router, applied, shown>>
    BY <1>2, <2>1, ReplaceTakesListing DEF Start
  <2>3. /\ UNCHANGED <<table, listing, stops, edits, past, timely, alone>>
        /\ serving' = TRUE /\ failures' \in Nat
    BY <1>2, <2>2 DEF Start, Failure, ConfigInv
  <2>4. CASE router' = Listing(table) /\ applied' = TRUE /\ shown' = TRUE
    BY <2>3, <2>4 DEF ConfigInv
  <2>5. CASE UNCHANGED <<router, applied, shown>>
    BY <2>3, <2>5 DEF ConfigInv
  <2> QED
    BY <2>2, <2>4, <2>5
<1> QED
  BY <1>1, <1>2

LEMMA ConfigAlways == Spec => []ConfigInv
<1>1. ConfigInv /\ UNCHANGED ruleVars => ConfigInv'
  BY DEF ConfigInv, ruleVars, configVars, countVars, ghostVars
<1>2. ConfigInv /\ [Next]_ruleVars => ConfigInv'
  BY <1>1, CreateKeeps, UpdateKeeps, ListKeeps, ReplaceKeeps, StopStartKeep DEF Next
<1> QED
  BY ConfigInit, <1>2, PTL DEF Spec

-----------------------------------------------------------------------------
(* The theorems. *)

\* Types, and lists without repetitions, for any number of rules (mysql_store.go, ListEnabledRules).
THEOREM RuleTypesHold == Spec => []RuleTypeOK
<1>1. ConfigInv => RuleTypeOK
  <2> SUFFICES ASSUME ConfigInv PROVE RuleTypeOK
    OBVIOUS
  <2>1. \A t \in past : IsRuleList(Listing(t))
    BY ListingIsRuleList DEF ConfigInv
  <2>2. IsRuleList(router) /\ \A o \in Operators : IsRuleList(listing[o].rows)
    BY <2>1 DEF ConfigInv
  <2> QED
    BY <2>2 DEF ConfigInv, RuleTypeOK, IsTable
<1> QED
  BY <1>1, ConfigAlways, PTL

\* A reload that overlapped no other shows the table until the next edit (service.go, ReloadRules).
THEOREM LoneReloadsShow == Spec => []LoneReloadShowsTable
<1>1. ConfigInv => LoneReloadShowsTable
  BY DEF ConfigInv, LoneReloadShowsTable
<1> QED
  BY <1>1, ConfigAlways, PTL

\* Every message is decided by one state of the table, by its highest rule (dynamic_rule.go:28-60).
THEOREM OneConfigurationDecides == Spec => []DecidedByOneConfiguration
<1>1. ConfigInv => DecidedByOneConfiguration
  <2> SUFFICES ASSUME ConfigInv PROVE DecidedByOneConfiguration
    OBVIOUS
  <2>1. PICK t \in past : IsTable(t) /\ router = Listing(t)
    BY DEF ConfigInv
  <2>2. /\ Cardinality(Enabled(t)) \in Nat
        /\ router \in [1..Cardinality(Enabled(t)) -> Enabled(t)]
        /\ \A r \in Enabled(t) : \E i \in DOMAIN router : router[i] = r
        /\ \A i, j \in DOMAIN router : i < j => Above(router[i], router[j])
    BY <2>1, ListingIsSorted
  <2>3. /\ DOMAIN RouterRules = DOMAIN router
        /\ \A i \in DOMAIN router : RouterRules[i] = router[i].setting /\ router[i] \in Enabled(t)
    BY <2>2 DEF RouterRules
  <2>4. ASSUME NEW m \in Messages, DynamicMatched(RouterRules, m)
        PROVE  \E i \in DOMAIN router : IsFirstHit(i, RouterRules, m) /\ router[i] \in Records(t)
                                                                   /\ Decides(t, m, router[i])
    <3> DEFINE hits == { i \in DOMAIN router : Applies(router[i], m) }
    <3>1. hits = Hits(RouterRules, m)
      BY <2>3 DEF Hits, Applies, Enabled
    <3>2. PICK i \in hits : \A j \in hits : i <= j
      <4> DEFINE E == { router[j] : j \in hits }
      <4>1. E \subseteq Enabled(t) /\ E # {}
        BY <2>3, <2>4, <3>1 DEF DynamicMatched
      <4>2. IsRuleSet(E)
        BY <2>1, <4>1, RecordsOfTable, FS_Subset DEF IsRuleSet
      <4>3. PICK i \in hits : \A s \in E : ~Above(s, router[i])
        BY <4>1, <4>2, TopRule
      <4>4. \A j \in hits : ~(j < i)
        BY <2>2, <4>3
      <4> QED
        BY <2>2, <4>4
    <3>3. IsFirstHit(i, RouterRules, m) /\ router[i] \in Records(t) /\ Applies(router[i], m)
      BY <2>3, <3>1, <3>2 DEF IsFirstHit, Enabled
    <3>4. ASSUME NEW s \in Records(t), Applies(s, m), s # router[i]
          PROVE  Above(router[i], s)
      <4>1. PICK j \in DOMAIN router : router[j] = s
        BY <2>2, <3>4 DEF Enabled, Applies
      <4>2. j \in hits /\ i <= j /\ i # j
        BY <3>2, <3>4, <4>1
      <4>3. i < j
        BY <2>2, <3>2, <4>2
      <4> QED
        BY <2>2, <4>1, <4>3
    <3> QED
      BY <3>2, <3>3, <3>4 DEF Decides
  <2>5. ASSUME NEW m \in Messages, ~DynamicMatched(RouterRules, m), NEW r \in Records(t)
        PROVE  ~Applies(r, m)
    BY <2>2, <2>3, <2>5 DEF DynamicMatched, Hits, Applies, Enabled
  <2> QED
    BY <2>4, <2>5 DEF DecidedByOneConfiguration
<1> QED
  BY <1>1, ConfigAlways, PTL
=============================================================================
