----------------------------- MODULE RuleConfig -----------------------------
(***************************************************************************)
(* The configuration of rules (internal/chat/service.go, mysql_store.go,   *)
(* internal/routing/dynamic_rule.go): the back office edits                *)
(* cs_rule_config, and the router decides messages by the snapshot of it   *)
(* that the last reload left in memory.                                    *)
(*                                                                         *)
(* A reload reads the enabled rules and then replaces the snapshot, two    *)
(* steps between which anything may happen.  Calls may fail, and the       *)
(* process may stop; when it starts it loads the rules, or goes on without *)
(* any when that fails.                                                    *)
(***************************************************************************)
EXTENDS Routing, Integers, FiniteSets

CONSTANTS
    Operators,    \* requests of the back office, one at a time each
    Settings,     \* what an operator may write: RuleConfigRequest
    Messages,     \* messages of users
    MaxRules,     \* bound on the ids given out
    MaxEdits,     \* bound on the edits
    MaxFailures,  \* bound on the calls that fail
    MaxStops      \* bound on the stops of the process

ASSUME SettingsAssumption ==
    Settings \subseteq [terms : SUBSET Terms, action : {"handoff", "reply"},
                        priority : Int, enabled : BOOLEAN]
ASSUME RuleBoundsAssumption ==
    /\ MaxRules \in Nat /\ MaxEdits \in Nat
    /\ MaxFailures \in Nat /\ MaxStops \in Nat

VARIABLES
    table,     \* cs_rule_config: what is written under each id given out
    router,    \* DynamicRuleRouter.rules
    serving,   \* the start of the process is over
    listing,   \* per operator: the rows a running reload has read, if one is running
    failures,
    stops,
    edits,
    past,      \* ghost: every state the table has had
    timely,    \* ghost: the running reloads that began after the last edit
    alone,     \* ghost: the running reloads during which no other has been running
    applied,   \* ghost: a reload that began after the last edit has succeeded since the start
    shown      \* ghost: the last one to succeed did, and was alone

configVars == <<table, router, serving, listing>>
countVars == <<failures, stops, edits>>
ghostVars == <<past, timely, alone, applied, shown>>
ruleVars == <<configVars, countVars, ghostVars>>

Ids == 1..MaxRules
Records(t) == { [id |-> i, setting |-> t[i]] : i \in DOMAIN t }

\* ORDER BY priority DESC, id DESC
Above(r, s) ==
    \/ r.setting.priority > s.setting.priority
    \/ r.setting.priority = s.setting.priority /\ r.id > s.id

Enabled(t) == { r \in Records(t) : r.setting.enabled }

\* Mutant: the newest rule comes first, whatever its priority.
Listing_NewestFirst(t) ==
    [i \in 1..Cardinality(Enabled(t)) |->
        CHOOSE r \in Enabled(t) : Cardinality({ s \in Enabled(t) : s.id > r.id }) = i - 1]

\* ListEnabledRules: the enabled rules in order.
Listing(t) ==
    [i \in 1..Cardinality(Enabled(t)) |->
        CHOOSE r \in Enabled(t) : Cardinality({ s \in Enabled(t) : Above(s, r) }) = i - 1]

NoListing == [running |-> FALSE, rows |-> <<>>]

-----------------------------------------------------------------------------
Failure == failures < MaxFailures /\ failures' = failures + 1

\* The table after an edit.
Edited(t) ==
    /\ table' = t
    /\ past' = past \cup {t}
    /\ timely' = {}
    /\ applied' = FALSE
    /\ shown' = FALSE
    /\ UNCHANGED alone

\* A write: it takes place, and the answer may be an error, or it does not.
Write(t) ==
    \/ Edited(t) /\ (Failure \/ UNCHANGED failures)
    \/ Failure /\ UNCHANGED <<table, ghostVars>>

Idle(o) == serving /\ ~listing[o].running

\* CreateRule: an INSERT.
CreateRule(o) ==
    /\ Idle(o)
    /\ edits < MaxEdits
    /\ Cardinality(DOMAIN table) < MaxRules
    /\ edits' = edits + 1
    /\ LET id == Cardinality(DOMAIN table) + 1
       IN  \E setting \in Settings :
             Write([i \in DOMAIN table \cup {id} |-> IF i = id THEN setting ELSE table[i]])
    /\ UNCHANGED <<router, serving, listing, stops>>

\* UpdateRule of a row that exists; otherwise, or when nothing changes, no row is affected,
\* which is an error and changes nothing.
UpdateRule(o) ==
    /\ Idle(o)
    /\ edits < MaxEdits
    /\ edits' = edits + 1
    /\ \E id \in DOMAIN table, setting \in Settings :
         table[id] # setting /\ Write([table EXCEPT ![id] = setting])
    /\ UNCHANGED <<router, serving, listing, stops>>

\* The first half of ReloadRules.
ListRules(o) ==
    /\ Idle(o)
    /\ \/ /\ listing' = [listing EXCEPT ![o] = [running |-> TRUE, rows |-> Listing(table)]]
          /\ timely' = timely \cup {o}
          /\ alone' = IF \E p \in Operators : listing[p].running THEN {} ELSE {o}
          /\ UNCHANGED failures
       \/ Failure /\ UNCHANGED <<listing, timely, alone>>
    /\ UNCHANGED <<table, router, serving, stops, edits, past, applied, shown>>

\* Mutant: an empty list is taken for a failed query.
Replace_NotEmpty(old, rules) == IF rules = <<>> THEN old ELSE rules

\* Mutant: the rules are appended to the old ones.
Replace_Append(old, rules) == old \o rules

\* ReplaceRules, under the lock: the old rules do not matter, the enabled ones stay in order.
Replace(old, rules) ==
    LET kept == { i \in DOMAIN rules : rules[i].setting.enabled }
    IN  [n \in 1..Cardinality(kept) |->
            rules[CHOOSE k \in kept : Cardinality({ i \in kept : i <= k }) = n]]

\* The second half.
ReplaceRules(o) ==
    /\ listing[o].running
    /\ router' = Replace(router, listing[o].rows)
    /\ listing' = [listing EXCEPT ![o] = NoListing]
    /\ applied' = (applied \/ o \in timely)
    /\ shown' = (o \in timely \cap alone)
    /\ timely' = timely \ {o}
    /\ alone' = alone \ {o}
    /\ UNCHANGED <<table, serving, countVars, past>>

\* The process stops: its memory and the running requests are gone.
Stop ==
    /\ stops < MaxStops
    /\ stops' = stops + 1
    /\ serving' = FALSE
    /\ router' = <<>>
    /\ listing' = [o \in Operators |-> NoListing]
    /\ timely' = {} /\ alone' = {}
    /\ applied' = FALSE /\ shown' = FALSE
    /\ UNCHANGED <<table, failures, edits, past>>

\* NewServer loads the rules before it serves, and only logs an error.
Start ==
    /\ ~serving
    /\ serving' = TRUE
    /\ \/ /\ router' = Replace(router, Listing(table))
          /\ applied' = TRUE /\ shown' = TRUE
          /\ UNCHANGED failures
       \/ Failure /\ UNCHANGED <<router, applied, shown>>
    /\ UNCHANGED <<table, listing, stops, edits, past, timely, alone>>

Init ==
    /\ table = <<>>
    /\ router = <<>>
    /\ serving = FALSE
    /\ listing = [o \in Operators |-> NoListing]
    /\ failures = 0 /\ stops = 0 /\ edits = 0
    /\ past = {table}
    /\ timely = {} /\ alone = {}
    /\ applied = FALSE /\ shown = FALSE

Next ==
    \/ \E o \in Operators : CreateRule(o) \/ UpdateRule(o) \/ ListRules(o) \/ ReplaceRules(o)
    \/ Stop
    \/ Start

Spec == Init /\ [][Next]_ruleVars

-----------------------------------------------------------------------------
(* Properties. *)

RuleRow == [id : Ids, setting : Settings]

\* A list of rules in which no row comes twice.
IsRuleList(rules) ==
    /\ DOMAIN rules = 1..Len(rules)
    /\ \A i \in DOMAIN rules : rules[i] \in RuleRow
    /\ \A i, j \in DOMAIN rules : rules[i].id = rules[j].id => i = j

\* Types of all variables.
RuleTypeOK ==
    /\ DOMAIN table \in SUBSET Ids /\ \A i \in DOMAIN table : table[i] \in Settings
    /\ IsRuleList(router)
    /\ \A o \in Operators : listing[o].running \in BOOLEAN /\ IsRuleList(listing[o].rows)
    /\ serving \in BOOLEAN /\ applied \in BOOLEAN /\ shown \in BOOLEAN
    /\ failures \in Nat /\ stops \in Nat /\ edits \in Nat
    /\ table \in past
    /\ timely \cup alone \subseteq { o \in Operators : listing[o].running }

\* DynamicRuleRouter.rules as the routing sees it.
RouterRules == [i \in DOMAIN router |-> router[i].setting]

Applies(r, m) == r.setting.enabled /\ ContainsAny(m.words, r.setting.terms)

\* The rule that the table t gives a message: the enabled one of the highest priority, and of
\* those the newest.
Decides(t, m, r) ==
    /\ Applies(r, m)
    /\ \A s \in Records(t) : Applies(s, m) /\ s # r => Above(r, s)

\* "Rules are sorted by priority when they come from MySQL, the first hit decides"
\* (dynamic_rule.go:51) and "they are replaced as a whole" (dynamic_rule.go:35): at every moment
\* there is one state of the table, present or past, from which every message is decided as
\* that state says - never by a mixture of two, by a disabled rule or by a lower priority.
DecidedByOneConfiguration ==
    \E t \in past : \A m \in Messages :
        IF DynamicMatched(RouterRules, m)
        THEN \E i \in DOMAIN router : IsFirstHit(i, RouterRules, m) /\ router[i] \in Records(t)
                                                                    /\ Decides(t, m, router[i])
        ELSE \A r \in Records(t) : ~Applies(r, m)

\* "After a change of rules an explicit reload brings the MySQL configuration into the router
\* in memory" (handler.go:116): once a reload that began after the last edit has succeeded, and
\* no reload is running, the router has the rules of the table.
ReloadShowsTable ==
    (applied /\ \A o \in Operators : ~listing[o].running) => router = Listing(table)

\* The same of a reload that overlapped no other: it shows the table until the next edit, the
\* empty list included, whatever failed before.
LoneReloadShowsTable == shown => router = Listing(table)
=============================================================================
