-------------------------- MODULE ChatSendTheorems --------------------------
(***************************************************************************)
(* Theorems about Service.Send, for every set of calls, requests and rule  *)
(* lists, every queue and memory size and any number of restarts.          *)
(***************************************************************************)
EXTENDS ChatSend, TLAPS

-----------------------------------------------------------------------------
(* The built-in rules cover the validator's list of sensitive intents. *)

\* The shape of the built-in list: nine rules, the first five of them handoffs.
LEMMA RiskRulesShape ==
    /\ DOMAIN RiskRules = 1..9
    /\ \A i \in 1..5 : RiskRules[i].handoff = TRUE
    /\ \A i \in 6..9 : RiskRules[i].handoff = FALSE
    /\ RiskRules[2].terms = RefundTerms
    /\ RiskRules[3].terms = ComplaintTerms
    /\ RiskRules[4].terms = AccountTerms
    /\ RiskRules[5].terms = PaymentTerms
<1>1. DOMAIN RiskRules = 1..9
  BY DEF RiskRules
<1>2. /\ RiskRules[1].handoff = TRUE
      /\ RiskRules[2].handoff = TRUE
      /\ RiskRules[3].handoff = TRUE
      /\ RiskRules[4].handoff = TRUE
      /\ RiskRules[5].handoff = TRUE
  BY DEF RiskRules
<1>3. /\ RiskRules[6].handoff = FALSE
      /\ RiskRules[7].handoff = FALSE
      /\ RiskRules[8].handoff = FALSE
      /\ RiskRules[9].handoff = FALSE
  BY DEF RiskRules
<1>4. /\ \A i \in 1..5 : i = 1 \/ i = 2 \/ i = 3 \/ i = 4 \/ i = 5
      /\ \A i \in 6..9 : i = 6 \/ i = 7 \/ i = 8 \/ i = 9
  OBVIOUS
<1>5. /\ RiskRules[2].terms = RefundTerms
      /\ RiskRules[3].terms = ComplaintTerms
      /\ RiskRules[4].terms = AccountTerms
      /\ RiskRules[5].terms = PaymentTerms
  BY DEF RiskRules
<1> QED
  BY <1>1, <1>2, <1>3, <1>4, <1>5

\* A message that hits a built-in rule has a first rule that it hits.
LEMMA FirstHitExists ==
    ASSUME NEW m, RiskMatched(m)
    PROVE  \E i \in DOMAIN RiskRules : IsFirstHit(i, RiskRules, m)
<1> DEFINE hits == Hits(RiskRules, m)
<1>1. hits \subseteq 1..9 /\ DOMAIN RiskRules = 1..9
  BY RiskRulesShape DEF Hits
<1>2. \/ 1 \in hits \/ 2 \in hits \/ 3 \in hits \/ 4 \in hits \/ 5 \in hits
      \/ 6 \in hits \/ 7 \in hits \/ 8 \in hits \/ 9 \in hits
  BY <1>1 DEF RiskMatched
<1> HIDE DEF hits
<1>3. \E i \in 1..9 : i \in hits /\ \A j \in hits : i <= j
  BY <1>1, <1>2
<1> QED
  BY <1>1, <1>3 DEF hits, IsFirstHit

\* FirstHit is the element at an index that IsFirstHit.
LEMMA FirstHitIsFirst ==
    ASSUME NEW list, NEW m,
           \E i \in DOMAIN list : IsFirstHit(i, list, m)
    PROVE  \E i \in DOMAIN list : IsFirstHit(i, list, m) /\ FirstHit(list, m) = list[i]
  BY DEF FirstHit

\* Every sensitive term makes one of the first five rules hit.
LEMMA SensitiveTermsCovered ==
    ASSUME NEW m \in Message, HasSensitiveUserIntent(m)
    PROVE  \E i \in 2..5 : i \in Hits(RiskRules, m)
<1>1. PICK t \in m.words : t \in SensitiveTerms
  BY DEF HasSensitiveUserIntent, ContainsAny
<1>2. "zhuxiaozhanghao" \in m.words => "zhuxiao" \in m.words
  BY DEF Message, Closed, PartOf
<1>3. PICK u \in m.words : u \in RefundTerms \cup ComplaintTerms \cup AccountTerms \cup PaymentTerms
  BY <1>1, <1>2 DEF SensitiveTerms, RefundTerms, ComplaintTerms, AccountTerms, PaymentTerms
<1>4. CASE u \in RefundTerms
  BY <1>4, RiskRulesShape DEF Hits, ContainsAny
<1>5. CASE u \in ComplaintTerms
  BY <1>5, RiskRulesShape DEF Hits, ContainsAny
<1>6. CASE u \in AccountTerms
  BY <1>6, RiskRulesShape DEF Hits, ContainsAny
<1>7. CASE u \in PaymentTerms
  BY <1>7, RiskRulesShape DEF Hits, ContainsAny
<1> QED
  BY <1>3, <1>4, <1>5, <1>6, <1>7

\* A built-in rule gives its own handoff flag, a Boolean.
LEMMA RiskResultType ==
    ASSUME NEW m, RiskMatched(m)
    PROVE  RiskResult(m).handoff \in BOOLEAN
<1>1. PICK i \in DOMAIN RiskRules : FirstHit(RiskRules, m) = RiskRules[i]
  BY FirstHitExists, FirstHitIsFirst
<1>2. i \in 1..5 \/ i \in 6..9
  BY RiskRulesShape
<1>3. FirstHit(RiskRules, m).handoff \in BOOLEAN
  BY <1>1, <1>2, RiskRulesShape
<1> QED
  BY <1>3 DEF RiskResult

\* A message with a sensitive intent hits a built-in rule, and the first one it hits hands
\* the user to a person (validator.go:73-88 against risk.go:24-38).
THEOREM SensitiveIsHandoff ==
    ASSUME NEW m \in Message, HasSensitiveUserIntent(m)
    PROVE  RiskMatched(m) /\ RiskResult(m).handoff = TRUE
<1>1. PICK i \in 2..5 : i \in Hits(RiskRules, m)
  BY SensitiveTermsCovered
<1>2. RiskMatched(m)
  BY <1>1 DEF RiskMatched
<1>3. PICK first \in DOMAIN RiskRules :
          IsFirstHit(first, RiskRules, m) /\ FirstHit(RiskRules, m) = RiskRules[first]
  BY <1>2, FirstHitExists, FirstHitIsFirst
<1>4. first \in 1..5
  BY <1>1, <1>3, RiskRulesShape DEF IsFirstHit
<1>5. FirstHit(RiskRules, m).handoff = TRUE
  BY <1>3, <1>4, RiskRulesShape
<1> QED
  BY <1>2, <1>5 DEF RiskResult

-----------------------------------------------------------------------------
(* Operators of the model. *)

\* Trimming keeps a sequence a sequence over the same set.
LEMMA TrimType ==
    ASSUME NEW S, NEW s \in Seq(S)
    PROVE  Trim(s) \in Seq(S)
<1>1. CASE Len(s) <= MemoryMax
  BY <1>1 DEF Trim
<1>2. CASE ~(Len(s) <= MemoryMax)
  <2>1. Len(s) - MemoryMax + 1 \in 1..Len(s)
    BY <1>2, ParametersAssumption
  <2>2. SubSeq(s, Len(s) - MemoryMax + 1, Len(s)) \in Seq(S)
    BY <2>1
  <2> QED
    BY <1>2, <2>2 DEF Trim
<1> QED
  BY <1>1, <1>2

\* What the rules return is a route of its own and a Boolean.
LEMMA RuleResultType ==
    ASSUME NEW list, NEW m
    PROVE  /\ RuleResult(list, m).route \in {"db_rule", "rule_handoff", "fixed_faq"}
           /\ DynamicMatched(list, m) => /\ RuleResult(list, m).route = "db_rule"
                                         /\ RuleResult(list, m).handoff \in BOOLEAN
           /\ ~DynamicMatched(list, m) => RuleResult(list, m) = RiskResult(m)
  BY DEF RuleResult, DynamicResult, RiskResult

\* What the validator lets through.
LEMMA ValidatedType ==
    ASSUME NEW m, NEW reply \in ModelReply
    PROVE  /\ Validated(m, ModelResponse(reply)) \in Response
           /\ Validated(m, ModelResponse(reply)).text \notin PromiseTexts \cup {"none"}
           /\ HasSensitiveUserIntent(m) =>
                 Validated(m, ModelResponse(reply)).route \in {"validator_fallback", "validator_handoff"}
<1> DEFINE response == ModelResponse(reply)
<1>1. /\ response \in Response
      /\ response.text \in ModelTexts
  BY DEF ModelResponse, ModelReply, Response, Texts, Routes, ModelTexts
<1>2. CASE Unusable(response)
  BY <1>2 DEF Validated, Response, Texts, Routes, PromiseTexts
<1>3. CASE ~Unusable(response) /\ Unsafe(m, response)
  BY <1>3 DEF Validated, Response, Texts, Routes, PromiseTexts
<1>4. CASE ~Unusable(response) /\ ~Unsafe(m, response)
  <2>1. Validated(m, response) = response
    BY <1>4 DEF Validated
  <2> QED
    BY <2>1, <1>1, <1>4 DEF Unsafe, ModelTexts
<1> QED
  BY <1>2, <1>3, <1>4

-----------------------------------------------------------------------------
(* Type correctness. *)

\* The fields of a request.
LEMMA RequestFields ==
    ASSUME NEW r \in Requests
    PROVE  r.conv \in Conversations /\ r.id \in Ids /\ r.type \in MessageTypes /\ r.message \in Message
  BY RequestsAssumption DEF Conversations, Ids

\* The rows a call writes are rows of their tables.
LEMMA RowTypes ==
    ASSUME TypeOK, NEW k \in Calls
    PROVE  UserRow(k) \in MessageRow /\ ReplyRow(k) \in MessageRow /\ EventRow(k) \in AIEventRow
<1>1. req[k] \in Requests /\ resp[k] \in Response
  BY DEF TypeOK
<1> QED
  BY <1>1, RequestFields DEF UserRow, ReplyRow, EventRow, MessageRow, AIEventRow, Response

\* The response a routing result is turned into.
LEMMA RoutedType ==
    ASSUME NEW route \in Routes, NEW handoff \in BOOLEAN
    PROVE  [text |-> "canned", route |-> route, handoff |-> handoff, cited |-> FALSE] \in Response
  BY DEF Response, Texts

\* The response fields and the stage of a call that fails or responds.
LEMMA RespondType ==
    ASSUME TypeOK, NEW k \in Calls,
           Fail(k) \/ \E response \in Response : Respond(k, response)
    PROVE  pc' \in [Calls -> Stages \cup Ends] /\ resp' \in [Calls -> Response]
<1>1. NoResponse \in Response
  BY DEF NoResponse, Response, Texts, Routes
<1>2. \E response \in Response, stage \in Stages :
          GoTo(k, stage) /\ resp' = [resp EXCEPT ![k] = response]
  BY <1>1 DEF Fail, Respond, Stages
<1> QED
  BY <1>2 DEF TypeOK, GoTo

\* A call that moves to a stage leaves a typed pc.
LEMMA GoToType ==
    ASSUME TypeOK, NEW k \in Calls, NEW stage \in Stages \cup Ends, GoTo(k, stage)
    PROVE  pc' \in [Calls -> Stages \cup Ends]
  BY DEF TypeOK, GoTo

\* A write that is heard of, or reported as failed, leaves typed stages and responses.
LEMMA WrittenType ==
    ASSUME TypeOK, NEW k \in Calls, NEW stage \in Stages, Written(k, stage)
    PROVE  pc' \in [Calls -> Stages \cup Ends] /\ resp' \in [Calls -> Response]
<1>1. CASE Fail(k)
  BY <1>1, RespondType
<1>2. CASE GoTo(k, stage) /\ UNCHANGED resp
  BY <1>2, GoToType DEF TypeOK
<1> QED
  BY <1>1, <1>2 DEF Written

\* The response built from a routing result.
LEMMA RuleResultRoutes ==
    ASSUME NEW list, NEW m, RuleMatched(list, m)
    PROVE  RuleResult(list, m).route \in Routes /\ RuleResult(list, m).handoff \in BOOLEAN
<1>1. CASE DynamicMatched(list, m)
  BY <1>1, RuleResultType DEF Routes
<1>2. CASE ~DynamicMatched(list, m)
  <2>1. RiskMatched(m) /\ RuleResult(list, m) = RiskResult(m)
    BY <1>2, RuleResultType DEF RuleMatched
  <2> QED
    BY <2>1, RuleResultType, RiskResultType DEF Routes
<1> QED
  BY <1>1, <1>2

\* A call's step takes its stage and its response from their types to their types.
LEMMA CallStepMoves ==
    ASSUME TypeOK, NEW k \in Calls, CallStep(k)
    PROVE  pc' \in [Calls -> Stages \cup Ends] /\ resp' \in [Calls -> Response]
<1> DEFINE Moved == pc' \in [Calls -> Stages \cup Ends] /\ resp' \in [Calls -> Response]
<1>1. ASSUME NEW stage \in Stages \cup Ends, GoTo(k, stage), UNCHANGED resp
      PROVE  Moved
  BY <1>1, GoToType DEF TypeOK
<1>2. ASSUME NEW route \in Routes, NEW handoff \in BOOLEAN,
             Respond(k, [text |-> "canned", route |-> route,
                         handoff |-> handoff, cited |-> FALSE])
      PROVE  Moved
  BY <1>2, RoutedType, RespondType
<1>3. ASSUME NEW result, Routed(k, result), result.route \in Routes, result.handoff \in BOOLEAN
      PROVE  Moved
  BY <1>2, <1>3 DEF Routed
<1>4. CASE SaveConversation(k)
  BY <1>4, RespondType, WrittenType DEF SaveConversation, Stages
<1>5. CASE SaveUserMessage(k)
  BY <1>5, RespondType, WrittenType DEF SaveUserMessage, Stages
<1>6. CASE Route(k)
  <2>1. CASE Routed(k, [route |-> "media_guide", handoff |-> FALSE])
    BY <2>1, <1>3 DEF Routes
  <2>2. CASE /\ RuleMatched(rules, req[k].message)
             /\ Routed(k, RuleResult(rules, req[k].message))
    BY <2>2, <1>3, RuleResultRoutes
  <2>3. CASE GoTo(k, "feature_flag") /\ UNCHANGED resp
    BY <2>3, <1>1 DEF Stages
  <2> QED
    BY <1>6, <2>1, <2>2, <2>3 DEF Route
<1>7. CASE ReadFeatureFlag(k)
  <2>1. CASE Routed(k, [route |-> "fixed_faq_fallback", handoff |-> FALSE])
    BY <2>1, <1>3 DEF Routes
  <2> QED
    BY <1>7, <2>1, <1>1, RespondType DEF ReadFeatureFlag, Stages
<1>8. CASE LoadMemory(k)
  BY <1>8, <1>1 DEF LoadMemory, Stages
<1>9. CASE SearchKnowledge(k)
  <2>1. CASE Routed(k, [route |-> "rag_fallback", handoff |-> FALSE])
    BY <2>1, <1>3 DEF Routes
  <2>2. [text |-> "knowledge", route |-> "rag_direct", handoff |-> FALSE, cited |-> TRUE]
           \in Response
    BY DEF Response, Texts, Routes
  <2> QED
    BY <1>9, <2>1, <2>2, <1>1, RespondType DEF SearchKnowledge, Stages
<1>10. CASE AskModel(k)
  <2>1. CASE Fail(k)
    BY <2>1, RespondType
  <2>2. ASSUME NEW reply \in ModelReplies,
               Respond(k, Validated(req[k].message, ModelResponse(reply)))
        PROVE  Moved
    BY <2>2, ValidatedType, ParametersAssumption, RespondType
  <2> QED
    BY <1>10, <2>1, <2>2 DEF AskModel
<1>11. CASE SaveReply(k)
  BY <1>11, RespondType, WrittenType DEF SaveReply, Stages
<1>12. CASE SaveEvent(k)
  BY <1>12, RespondType, WrittenType DEF SaveEvent, Stages
<1>13. CASE SaveMemory(k)
  BY <1>13, <1>1 DEF SaveMemory, Stages
<1>14. CASE EmitTrace(k)
  BY <1>14, <1>1 DEF EmitTrace, Ends
<1> QED
  BY <1>4, <1>5, <1>6, <1>7, <1>8, <1>9, <1>10, <1>11, <1>12, <1>13, <1>14 DEF CallStep

\* The logger's own steps keep its types, and so does an offer by a call.
LEMMA LoggerType ==
    ASSUME Logger!TypeOK,
           \/ \E k \in Calls : Logger!Enqueue(k)
           \/ Logger!Run
           \/ Logger!Stop
           \/ UNCHANGED logVars
    PROVE  Logger!TypeOK'
<1> USE DEF Logger!TypeOK
<1>1. CASE \E k \in Calls : Logger!Enqueue(k)
  BY <1>1 DEF Logger!Enqueue
<1>2. CASE Logger!Take
  BY <1>2 DEF Logger!Take
<1>3. CASE Logger!SaveOK
  BY <1>3 DEF Logger!SaveOK
<1>4. CASE Logger!SaveFailed
  BY <1>4 DEF Logger!SaveFailed
<1>5. CASE Logger!Stop
  BY <1>5 DEF Logger!Stop, Logger!Queued
<1>6. CASE UNCHANGED logVars
  BY <1>6 DEF logVars
<1> QED
  BY <1>1, <1>2, <1>3, <1>4, <1>5, <1>6 DEF Logger!Run

\* The turn a call adds.
LEMMA TurnType ==
    ASSUME TypeOK, NEW k \in Calls
    PROVE  Trim(loaded[k] \o TurnOf(k)) \in Seq(Turn)
<1>1. resp[k] \in Response /\ loaded[k] \in Seq(Turn)
  BY DEF TypeOK
<1>2. TurnOf(k) \in Seq(Turn)
  BY <1>1 DEF TurnOf, Turn, Response
<1>3. loaded[k] \o TurnOf(k) \in Seq(Turn)
  BY <1>1, <1>2
<1> QED
  BY <1>3, TrimType

\* Every step of a call keeps the types.
LEMMA CallStepType ==
    ASSUME TypeOK, NEW k \in Calls, CallStep(k)
    PROVE  TypeOK'
<1>1. /\ pc' \in [Calls -> Stages \cup Ends]
      /\ resp' \in [Calls -> Response]
  BY CallStepMoves
<1>2. /\ req[k] \in Requests
      /\ req[k].conv \in Conversations
      /\ loaded[k] \in Seq(Turn)
  BY RequestFields DEF TypeOK
<1> USE DEF TypeOK, storeVars, configVars
<1>3. UNCHANGED <<req, rules, smartReply, stops>>
  BY DEF CallStep, SaveConversation, SaveUserMessage, Route, ReadFeatureFlag, LoadMemory,
         SearchKnowledge, AskModel, SaveReply, SaveEvent, SaveMemory, EmitTrace
<1>4. loaded' \in [Calls -> Seq(Turn)]
  <2>1. CASE LoadMemory(k)
    <3>1. PICK turns \in {memory[req[k].conv], <<>>} : loaded' = [loaded EXCEPT ![k] = turns]
      BY <2>1 DEF LoadMemory
    <3>2. memory[req[k].conv] \in Seq(Turn) /\ <<>> \in Seq(Turn)
      BY <1>2
    <3>3. turns \in Seq(Turn)
      BY <3>1, <3>2
    <3> QED
      BY <3>1, <3>3
  <2>2. CASE UNCHANGED loaded
    BY <2>2
  <2> QED
    BY <2>1, <2>2 DEF CallStep, SaveConversation, SaveUserMessage, Route, ReadFeatureFlag,
         SearchKnowledge, AskModel, SaveReply, SaveEvent, SaveMemory, EmitTrace
<1>5. /\ conversations' \in SUBSET Conversations
      /\ messages' \in SUBSET MessageRow
      /\ events' \in SUBSET AIEventRow
  <2>1. conversations' \in {conversations, conversations \cup {req[k].conv}}
    BY DEF CallStep, SaveConversation, SaveUserMessage, Route, ReadFeatureFlag, LoadMemory,
           SearchKnowledge, AskModel, SaveReply, SaveEvent, SaveMemory, EmitTrace
  <2>2. messages' \in {messages, messages \cup {UserRow(k)}, messages \cup {ReplyRow(k)}}
    BY DEF CallStep, SaveConversation, SaveUserMessage, Route, ReadFeatureFlag, LoadMemory,
           SearchKnowledge, AskModel, SaveReply, SaveEvent, SaveMemory, EmitTrace
  <2>3. events' \in {events, events \cup {EventRow(k)}}
    BY DEF CallStep, SaveConversation, SaveUserMessage, Route, ReadFeatureFlag, LoadMemory,
           SearchKnowledge, AskModel, SaveReply, SaveEvent, SaveMemory, EmitTrace
  <2> QED
    BY <2>1, <2>2, <2>3, <1>2, RowTypes
<1>6. memory' \in [Conversations -> Seq(Turn)]
  <2>1. CASE SaveMemory(k)
    BY <2>1, TurnType DEF SaveMemory
  <2>2. CASE UNCHANGED memory
    BY <2>2
  <2> QED
    BY <2>1, <2>2 DEF CallStep, SaveConversation, SaveUserMessage, Route, ReadFeatureFlag,
         LoadMemory, SearchKnowledge, AskModel, SaveReply, SaveEvent, EmitTrace
<1>7. asked' \in SUBSET ModelRequest
  <2>1. CASE AskModel(k)
    <3>1. [call |-> k, history |-> Trim(loaded[k])] \in ModelRequest
      BY <1>2, TrimType DEF ModelRequest
    <3> QED
      BY <3>1, <2>1 DEF AskModel
  <2>2. CASE UNCHANGED asked
    BY <2>2
  <2> QED
    BY <2>1, <2>2 DEF CallStep, SaveConversation, SaveUserMessage, Route, ReadFeatureFlag,
         LoadMemory, SearchKnowledge, SaveReply, SaveEvent, SaveMemory, EmitTrace
<1>8. Logger!TypeOK'
  <2>1. (\E j \in Calls : Logger!Enqueue(j)) \/ UNCHANGED logVars
    BY DEF CallStep, SaveConversation, SaveUserMessage, Route, ReadFeatureFlag, LoadMemory,
           SearchKnowledge, AskModel, SaveReply, SaveEvent, SaveMemory, EmitTrace
  <2> QED
    BY <2>1, LoggerType
<1> QED
  BY <1>1, <1>3, <1>4, <1>5, <1>6, <1>7, <1>8

\* The environment's steps keep the types.
LEMMA EnvironmentType ==
    ASSUME TypeOK,
           LogStep \/ ReloadRules \/ SetFeatureFlag \/ (\E c \in Conversations : ExpireMemory(c))
             \/ Restart
    PROVE  TypeOK'
<1> USE DEF TypeOK, callVars, storeVars, configVars
<1>1. CASE LogStep
  BY <1>1, LoggerType DEF LogStep
<1>2. CASE ReloadRules
  BY <1>2, LoggerType, ParametersAssumption DEF ReloadRules
<1>3. CASE SetFeatureFlag
  BY <1>3, LoggerType DEF SetFeatureFlag
<1>4. CASE \E c \in Conversations : ExpireMemory(c)
  BY <1>4, LoggerType DEF ExpireMemory
<1>5. CASE Restart
  <2>1. /\ pc' \in [Calls -> Stages \cup Ends]
        /\ resp' \in [Calls -> Response]
    BY <1>5 DEF Restart, Ends, NoResponse, Response, Texts, Routes
  <2>2. rules' \in Seq(DynamicRule)
    <3>1. <<>> \in Seq(DynamicRule)
      OBVIOUS
    <3> QED
      BY <3>1, <1>5, ParametersAssumption DEF Restart
  <2> QED
    BY <1>5, <2>1, <2>2, LoggerType DEF Restart
<1> QED
  BY <1>1, <1>2, <1>3, <1>4, <1>5

\* The initial states are typed (NewService, service.go:164-175).
LEMMA InitType ==
    ASSUME Init
    PROVE  TypeOK
<1>1. Logger!TypeOK
  BY DEF Init, Logger!Init, Logger!TypeOK
<1>2. NoResponse \in Response
  BY DEF NoResponse, Response, Texts, Routes
<1>3. rules \in Seq(DynamicRule)
  <2>1. <<>> \in Seq(DynamicRule)
    OBVIOUS
  <2> QED
    BY <2>1, ParametersAssumption DEF Init
<1>4. /\ pc \in [Calls -> Stages \cup Ends]
      /\ req \in [Calls -> Requests]
      /\ resp \in [Calls -> Response]
  BY <1>2 DEF Init, Stages
<1>5. loaded \in [Calls -> Seq(Turn)] /\ memory \in [Conversations -> Seq(Turn)]
  BY DEF Init
<1> QED
  BY <1>1, <1>3, <1>4, <1>5 DEF Init, TypeOK

\* Every step keeps the types.
LEMMA TypeStep ==
    ASSUME TypeOK, [Next]_vars
    PROVE  TypeOK'
<1>1. CASE UNCHANGED vars
  BY <1>1, LoggerType DEF vars, TypeOK, callVars, storeVars, configVars
<1>2. CASE Next
  BY <1>2, CallStepType, EnvironmentType DEF Next
<1> QED
  BY <1>1, <1>2

\* The variables keep their types in every behaviour of Service.Send and its surroundings.
THEOREM TypeCorrect == Spec => []TypeOK
<1>1. Init => TypeOK
  BY InitType
<1>2. TypeOK /\ [Next]_vars => TypeOK'
  BY TypeStep
<1> QED
  BY <1>1, <1>2, PTL DEF Spec

-----------------------------------------------------------------------------
(* The safety invariants, proved from one inductive invariant: what each   *)
(* stage of a call knows about the tables, about its own response and      *)
(* about the rules its message did not match.                              *)

\* The stages in which a call has no response yet, and those after it was routed.
Unanswered == {"save_conversation", "save_user_message", "route", "feature_flag",
               "session_memory", "rag_search", "llm_reply"}
PastRules == {"feature_flag", "session_memory", "rag_search", "llm_reply"}

Routable == PastRules \cup {"route"}

Recording == {"save_reply", "save_event", "save_memory"}

Answered(k) == resp[k] # NoResponse

\* Which stages have a response in hand.
StageInv ==
    \A k \in Calls :
        /\ pc[k] \in Unanswered => ~Answered(k)
        /\ pc[k] \in Recording \cup {"done"} => Answered(k)

\* What has been written when a call is at a stage.
RecordInv ==
    \A k \in Calls :
        /\ pc[k] = "save_user_message" => req[k].conv \in conversations
        /\ pc[k] \in Routable \/ Answered(k) =>
              /\ req[k].conv \in conversations
              /\ UserRow(k) \in messages
        /\ Answered(k) /\ pc[k] # "save_reply" => ReplyRow(k) \in messages
        /\ Answered(k) /\ pc[k] \notin {"save_reply", "save_event"} => EventRow(k) \in events

\* What routing has ruled out.
RulesInv ==
    /\ \A k \in Calls :
          /\ pc[k] \in PastRules => req[k].type = "text" /\ ~RiskMatched(req[k].message)
          /\ /\ Answered(k)
             /\ HasSensitiveUserIntent(req[k].message)
             /\ resp[k].route \notin {"db_rule", "media_guide"}
             => resp[k].handoff = TRUE
    /\ HardRulesBeforeAI

-----------------------------------------------------------------------------
(* What one step can touch. *)

\* A step of a call leaves the other calls alone and only adds rows.
LEMMA CallStepFrame ==
    ASSUME TypeOK, NEW k \in Calls, CallStep(k)
    PROVE  /\ req' = req
           /\ \A j \in Calls \ {k} : pc'[j] = pc[j] /\ resp'[j] = resp[j] /\ loaded'[j] = loaded[j]
           /\ conversations \subseteq conversations'
           /\ messages \subseteq messages'
           /\ events \subseteq events'
<1> USE DEF CallStep, SaveConversation, SaveUserMessage, Route, ReadFeatureFlag, LoadMemory,
         SearchKnowledge, AskModel, SaveReply, SaveEvent, SaveMemory, EmitTrace
<1>1. req' = req
  OBVIOUS
<1>2. \A j \in Calls \ {k} : pc'[j] = pc[j]
  BY DEF TypeOK, GoTo, Written, Fail, Routed, Respond
<1>3. \A j \in Calls \ {k} : resp'[j] = resp[j]
  BY DEF TypeOK, Written, Fail, Routed, Respond
<1>4. \A j \in Calls \ {k} : loaded'[j] = loaded[j]
  BY DEF TypeOK
<1>5. conversations \subseteq conversations'
  BY DEF storeVars
<1>6. messages \subseteq messages'
  BY DEF storeVars
<1>7. events \subseteq events'
  BY DEF storeVars
<1> QED
  BY <1>1, <1>2, <1>3, <1>4, <1>5, <1>6, <1>7

\* Everything else that can happen: a step of the logger or of the environment.
Environment ==
    \/ LogStep \/ ReloadRules \/ SetFeatureFlag
    \/ \E c \in Conversations : ExpireMemory(c)
    \/ Restart

\* Such a step leaves the tables alone and a call either alone or broken, with no response.
LEMMA EnvironmentFrame ==
    ASSUME TypeOK, Environment \/ UNCHANGED vars
    PROVE  /\ UNCHANGED <<req, conversations, messages, events, asked>>
           /\ \A k \in Calls : \/ pc'[k] = pc[k] /\ resp'[k] = resp[k]
                               \/ pc'[k] = "broken" /\ resp'[k] = NoResponse
  BY DEF TypeOK, Environment, LogStep, ReloadRules, SetFeatureFlag, ExpireMemory, Restart, vars,
         callVars, storeVars

\* The steps of the system: a call, its surroundings, or nothing.
LEMMA NextCases == [Next]_vars <=> (\E k \in Calls : CallStep(k)) \/ Environment \/ UNCHANGED vars
  BY DEF Next, Environment

-----------------------------------------------------------------------------
(* Stages and responses. *)

\* How a step of a call can move it: to a failure, to a first response, or on with the
\* response it has.
LEMMA CallMoves ==
    ASSUME TypeOK, StageInv, NEW k \in Calls, CallStep(k)
    PROVE  \/ pc'[k] = "emit" /\ ~Answered(k)'
           \/ pc[k] \in Routable /\ pc'[k] = "save_reply" /\ Answered(k)'
           \/ /\ resp'[k] = resp[k]
              /\ \/ /\ pc[k] = "save_conversation" /\ pc'[k] = "save_user_message"
                    /\ req[k].conv \in conversations'
                 \/ /\ pc[k] = "save_user_message" /\ pc'[k] = "route"
                    /\ UserRow(k) \in messages'
                 \/ pc[k] \in Routable /\ pc'[k] \in PastRules
                 \/ /\ pc[k] = "save_reply" /\ pc'[k] = "save_event"
                    /\ ReplyRow(k) \in messages'
                 \/ /\ pc[k] = "save_event" /\ pc'[k] \in {"save_memory", "emit"}
                    /\ EventRow(k) \in events'
                 \/ pc[k] = "save_memory" /\ pc'[k] = "emit"
                 \/ pc[k] = "emit" /\ pc'[k] = "done" /\ Answered(k)
                 \/ pc[k] = "emit" /\ pc'[k] = "failed" /\ ~Answered(k)
<1> USE DEF TypeOK, Stage
<1>1. ASSUME Fail(k)
      PROVE  pc'[k] = "emit" /\ ~Answered(k)'
  BY <1>1 DEF Fail, GoTo, Answered
<1>2. ASSUME NEW response, Respond(k, response), response # NoResponse
      PROVE  pc'[k] = "save_reply" /\ Answered(k)'
  BY <1>2 DEF Respond, GoTo, Answered
<1>3. ASSUME NEW result, Routed(k, result)
      PROVE  pc'[k] = "save_reply" /\ Answered(k)'
  BY <1>2, <1>3 DEF Routed, NoResponse
<1>4. ASSUME NEW stage, GoTo(k, stage)
      PROVE  pc'[k] = stage
  BY <1>4 DEF GoTo
<1>5. CASE SaveConversation(k)
  BY <1>5, <1>1, <1>4 DEF SaveConversation, Written
<1>6. CASE SaveUserMessage(k)
  BY <1>6, <1>1, <1>4 DEF SaveUserMessage, Written
<1>7. CASE Route(k)
  BY <1>7, <1>3, <1>4 DEF Route, Routable, PastRules
<1>8. CASE ReadFeatureFlag(k)
  BY <1>8, <1>1, <1>3, <1>4 DEF ReadFeatureFlag, Routable, PastRules
<1>9. CASE LoadMemory(k)
  BY <1>9, <1>4 DEF LoadMemory, Routable, PastRules
<1>10. CASE SearchKnowledge(k)
  <2>1. [text |-> "knowledge", route |-> "rag_direct", handoff |-> FALSE, cited |-> TRUE]
           # NoResponse
    BY DEF NoResponse
  <2> QED
    BY <1>10, <2>1, <1>1, <1>2, <1>3, <1>4 DEF SearchKnowledge, Routable, PastRules
<1>11. CASE AskModel(k)
  <2>1. ASSUME NEW reply \in ModelReplies
        PROVE  Validated(req[k].message, ModelResponse(reply)) # NoResponse
    BY ValidatedType, ParametersAssumption DEF NoResponse
  <2> QED
    BY <1>11, <2>1, <1>1, <1>2 DEF AskModel, Routable, PastRules
<1>12. CASE SaveReply(k)
  BY <1>12, <1>1, <1>4 DEF SaveReply, Written
<1>13. CASE SaveEvent(k)
  BY <1>13, <1>1, <1>4 DEF SaveEvent, Written
<1>14. CASE SaveMemory(k)
  BY <1>14, <1>4 DEF SaveMemory
<1>15. CASE EmitTrace(k)
  BY <1>15, <1>4 DEF EmitTrace, Answered
<1> QED
  BY <1>5, <1>6, <1>7, <1>8, <1>9, <1>10, <1>11, <1>12, <1>13, <1>14, <1>15 DEF CallStep

\* Every step keeps a settled response with the stages after it (service.go:334-384).
LEMMA StageStep ==
    ASSUME TypeOK, StageInv, [Next]_vars
    PROVE  StageInv'
<1>1. CASE \E k \in Calls : CallStep(k)
  <2>1. PICK k \in Calls : CallStep(k)
    BY <1>1
  <2>2. \A j \in Calls \ {k} : pc'[j] = pc[j] /\ resp'[j] = resp[j]
    BY <2>1, CallStepFrame
  <2>3. /\ pc'[k] \in Unanswered => ~Answered(k)'
        /\ pc'[k] \in Recording \cup {"done"} => Answered(k)'
    BY <2>1, CallMoves DEF StageInv, Unanswered, Routable, PastRules, Recording, Answered
  <2> QED
    BY <2>2, <2>3 DEF StageInv, Answered
<1>2. CASE Environment \/ UNCHANGED vars
  BY <1>2, EnvironmentFrame DEF StageInv, Answered, Unanswered, Recording
<1> QED
  BY <1>1, <1>2, NextCases

-----------------------------------------------------------------------------
(* Records. *)

\* The rows of a call that keeps its response are the same rows.
LEMMA SameRows ==
    ASSUME NEW k, req' = req
    PROVE  /\ UserRow(k)' = UserRow(k)
           /\ resp'[k] = resp[k] => ReplyRow(k)' = ReplyRow(k) /\ EventRow(k)' = EventRow(k)
  BY DEF UserRow, ReplyRow, EventRow

\* Every step keeps the rows of the calls that have written them (service.go:204-229, 349-377).
LEMMA RecordStep ==
    ASSUME TypeOK, StageInv, RecordInv, [Next]_vars
    PROVE  RecordInv'
<1> DEFINE Rec(k) ==
        /\ pc[k] = "save_user_message" => req[k].conv \in conversations
        /\ pc[k] \in Routable \/ Answered(k) =>
              /\ req[k].conv \in conversations
              /\ UserRow(k) \in messages
        /\ Answered(k) /\ pc[k] # "save_reply" => ReplyRow(k) \in messages
        /\ Answered(k) /\ pc[k] \notin {"save_reply", "save_event"} => EventRow(k) \in events
<1>1. \A k \in Calls : Rec(k)
  BY DEF RecordInv
<1>2. ASSUME NEW j \in Calls, pc'[j] = pc[j], resp'[j] = resp[j], req' = req,
             conversations \subseteq conversations', messages \subseteq messages',
             events \subseteq events'
      PROVE  Rec(j)'
  BY <1>1, <1>2, SameRows DEF Answered
<1>3. CASE \E k \in Calls : CallStep(k)
  <2>1. PICK k \in Calls : CallStep(k)
    BY <1>3
  <2>2. \A j \in Calls \ {k} : Rec(j)'
    BY <2>1, <1>2, CallStepFrame
  <2>3. /\ req' = req
        /\ conversations \subseteq conversations'
        /\ messages \subseteq messages'
        /\ events \subseteq events'
    BY <2>1, CallStepFrame
  <2>4. Rec(k)'
    <3>1. CASE pc'[k] = "emit" /\ ~Answered(k)'
      BY <3>1 DEF PastRules, Routable
    <3>2. CASE pc[k] \in Routable /\ pc'[k] = "save_reply" /\ Answered(k)'
      BY <3>2, <1>1, <2>3, SameRows DEF PastRules, Routable
    <3>3. CASE resp'[k] = resp[k] /\ pc[k] \in Unanswered \cup {"emit"}
      BY <3>3, <2>1, <1>1, <2>3, CallMoves, SameRows
         DEF PastRules, Routable, Unanswered, StageInv, Answered
    <3>4. CASE resp'[k] = resp[k] /\ pc[k] \in {"save_reply", "save_event", "save_memory"}
      BY <3>4, <2>1, <1>1, <2>3, CallMoves, SameRows
         DEF PastRules, Routable, Unanswered, Answered
    <3> QED
      BY <2>1, <3>1, <3>2, <3>3, <3>4, CallMoves DEF Unanswered, Routable, PastRules
  <2> QED
    BY <2>2, <2>4 DEF RecordInv
<1>4. CASE Environment \/ UNCHANGED vars
  <2>1. ASSUME NEW j \in Calls PROVE Rec(j)'
    <3>1. CASE pc'[j] = pc[j] /\ resp'[j] = resp[j]
      BY <3>1, <1>2, <1>4, EnvironmentFrame
    <3>2. CASE pc'[j] = "broken" /\ resp'[j] = NoResponse
      BY <3>2 DEF Answered, Routable, PastRules
    <3> QED
      BY <3>1, <3>2, <1>4, EnvironmentFrame
  <2> QED
    BY <2>1 DEF RecordInv
<1> QED
  BY <1>3, <1>4, NextCases

-----------------------------------------------------------------------------
(* Rules before the model. *)

\* A message no built-in rule matches has no sensitive intent.
LEMMA UnmatchedIsHarmless ==
    ASSUME NEW r \in Requests, ~RiskMatched(r.message)
    PROVE  ~HasSensitiveUserIntent(r.message)
  BY RequestsAssumption, SensitiveIsHandoff

\* What a call is handed by the rules, if its message is sensitive.
LEMMA RuleResultSensitive ==
    ASSUME NEW r \in Requests, NEW list, HasSensitiveUserIntent(r.message)
    PROVE  \/ RuleResult(list, r.message).route = "db_rule"
           \/ RuleResult(list, r.message).handoff = TRUE
<1>1. CASE DynamicMatched(list, r.message)
  BY <1>1, RuleResultType
<1>2. CASE ~DynamicMatched(list, r.message)
  <2>1. r.message \in Message
    BY RequestsAssumption
  <2>2. RuleResult(list, r.message) = RiskResult(r.message)
    BY <1>2, RuleResultType
  <2> QED
    BY <2>1, <2>2, SensitiveIsHandoff
<1> QED
  BY <1>1, <1>2

\* Every step keeps what the rules decided before the model is asked (service.go:231-245).
LEMMA RulesStep ==
    ASSUME TypeOK, StageInv, RulesInv, [Next]_vars
    PROVE  RulesInv'
<1> DEFINE Ruled(k) ==
        /\ pc[k] \in PastRules => req[k].type = "text" /\ ~RiskMatched(req[k].message)
        /\ /\ Answered(k)
           /\ HasSensitiveUserIntent(req[k].message)
           /\ resp[k].route \notin {"db_rule", "media_guide"}
           => resp[k].handoff = TRUE
<1>1. \A k \in Calls : Ruled(k)
  BY DEF RulesInv
<1>2. CASE \E k \in Calls : CallStep(k)
  <2>1. PICK k \in Calls : CallStep(k)
    BY <1>2
  <2>2. req' = req /\ req[k] \in Requests
    BY <2>1, CallStepFrame DEF TypeOK
  <2>3. \A j \in Calls \ {k} : Ruled(j)'
    BY <2>1, <1>1, CallStepFrame DEF Answered
  <2>4. pc'[k] \in PastRules => req[k].type = "text" /\ ~RiskMatched(req[k].message)
    <3>1. CASE Route(k)
      <4>1. CASE req[k].type \notin {"image", "audio"} /\ ~RuleMatched(rules, req[k].message)
        BY <4>1, <2>2, RequestFields DEF RuleMatched, MessageTypes
      <4>2. CASE pc'[k] = "save_reply"
        BY <4>2 DEF PastRules
      <4> QED
        BY <3>1, <4>1, <4>2 DEF Route, Routed, Respond, GoTo, TypeOK
    <3>2. CASE pc[k] \in PastRules
      BY <3>2, <1>1
    <3>3. CASE ~Route(k) /\ pc[k] \notin PastRules
      <4>1. pc[k] # "route"
        BY <3>3, <2>1 DEF CallStep, SaveConversation, SaveUserMessage, ReadFeatureFlag, LoadMemory,
           SearchKnowledge, AskModel, SaveReply, SaveEvent, SaveMemory, EmitTrace, Stage
      <4> QED
        BY <4>1, <3>3, <2>1, CallMoves DEF PastRules, Routable
    <3> QED
      BY <3>1, <3>2, <3>3
  <2>5. /\ Answered(k)'
        /\ HasSensitiveUserIntent(req[k].message)
        /\ resp'[k].route \notin {"db_rule", "media_guide"}
        => resp'[k].handoff = TRUE
    <3> SUFFICES ASSUME Answered(k)', HasSensitiveUserIntent(req[k].message),
                        resp'[k].route \notin {"db_rule", "media_guide"}
                 PROVE  resp'[k].handoff = TRUE
      OBVIOUS
    <3>1. CASE resp'[k] = resp[k]
      BY <3>1, <1>1 DEF Answered
    <3>2. CASE resp'[k] # resp[k]
      <4>1. pc[k] \in Routable /\ pc'[k] = "save_reply"
        BY <3>2, <2>1, CallMoves
      <4>2. pc[k] \notin PastRules
        BY <1>1, <2>2, UnmatchedIsHarmless
      <4>3. Route(k)
        BY <4>1, <4>2, <2>1 DEF Routable, PastRules, CallStep, SaveConversation, SaveUserMessage,
           ReadFeatureFlag, LoadMemory, SearchKnowledge, AskModel, SaveReply, SaveEvent,
           SaveMemory, EmitTrace, Stage
      <4>4. CASE Routed(k, [route |-> "media_guide", handoff |-> FALSE])
        BY <4>4 DEF Routed, Respond, TypeOK
      <4>5. CASE Routed(k, RuleResult(rules, req[k].message))
        <5>1. /\ resp'[k].route = RuleResult(rules, req[k].message).route
              /\ resp'[k].handoff = RuleResult(rules, req[k].message).handoff
          BY <4>5 DEF Routed, Respond, TypeOK
        <5> QED
          BY <5>1, <2>2, RuleResultSensitive
      <4> QED
        BY <3>2, <4>3, <4>4, <4>5 DEF Route
    <3> QED
      BY <3>1, <3>2
  <2>6. HardRulesBeforeAI'
    <3>1. CASE AskModel(k)
      <4>1. \A a \in asked' : a \in asked \/ a.call = k
        BY <3>1 DEF AskModel
      <4>2. req[k].type = "text" /\ ~RiskMatched(req[k].message)
        BY <3>1, <1>1 DEF AskModel, Stage, PastRules
      <4> QED
        BY <4>1, <4>2, <2>2 DEF RulesInv, HardRulesBeforeAI
    <3>2. CASE UNCHANGED asked
      BY <3>2, <2>2 DEF RulesInv, HardRulesBeforeAI
    <3> QED
      BY <3>1, <3>2, <2>1 DEF CallStep, SaveConversation, SaveUserMessage, Route, ReadFeatureFlag,
         LoadMemory, SearchKnowledge, SaveReply, SaveEvent, SaveMemory, EmitTrace
  <2> QED
    BY <2>2, <2>3, <2>4, <2>5, <2>6 DEF RulesInv
<1>3. CASE Environment \/ UNCHANGED vars
  <2>1. HardRulesBeforeAI'
    BY <1>3, EnvironmentFrame DEF RulesInv, HardRulesBeforeAI
  <2>2. ASSUME NEW j \in Calls PROVE Ruled(j)'
    <3>1. CASE pc'[j] = pc[j] /\ resp'[j] = resp[j]
      BY <3>1, <1>1, <1>3, EnvironmentFrame DEF Answered
    <3>2. CASE pc'[j] = "broken" /\ resp'[j] = NoResponse
      BY <3>2 DEF Answered, PastRules
    <3> QED
      BY <3>1, <3>2, <1>3, EnvironmentFrame
  <2> QED
    BY <2>1, <2>2 DEF RulesInv
<1> QED
  BY <1>2, <1>3, NextCases

-----------------------------------------------------------------------------
(* One answer per message. *)

IsUser(m) == m.sender = "user"
IsReply(m) == m.sender = "assistant"

\* Which rows a call can have at a stage, and what a unique key makes of them.
OnceInv ==
    /\ \A m \in messages : /\ m.id = req[m.call].id
                           /\ UserRow(m.call) \in messages
                           /\ IsUser(m) => m = UserRow(m.call)
                           /\ pc[m.call] \notin {"save_conversation", "save_user_message"}
                           /\ IsReply(m) => pc[m.call] \notin Unanswered \cup {"save_reply"}
    /\ \A m, n \in messages : IsReply(m) /\ IsReply(n) /\ m.call = n.call => m = n
    /\ UniqueMessageId =>
          \A m, n \in messages : IsUser(m) /\ IsUser(n) /\ m.id = n.id => m.call = n.call

\* What a call does to the message table.
LEMMA MessagesGrow ==
    ASSUME TypeOK, NEW k \in Calls, CallStep(k)
    PROVE  \/ messages' = messages
           \/ /\ Stage(k, "save_user_message")
              /\ Insertable(req[k].id)
              /\ messages' = messages \cup {UserRow(k)}
           \/ /\ Stage(k, "save_reply")
              /\ messages' = messages \cup {ReplyRow(k)}
  BY DEF CallStep, SaveConversation, SaveUserMessage, Route, ReadFeatureFlag, LoadMemory,
         SearchKnowledge, AskModel, SaveReply, SaveEvent, SaveMemory, EmitTrace, storeVars

\* Every step keeps one question per message id and one reply per call (service.go:218, 350).
LEMMA OnceStep ==
    ASSUME TypeOK, StageInv, RecordInv, OnceInv, [Next]_vars
    PROVE  OnceInv'
<1>1. CASE \E k \in Calls : CallStep(k)
  <2>1. PICK k \in Calls : CallStep(k)
    BY <1>1
  <2>2. req' = req /\ \A j \in Calls \ {k} : pc'[j] = pc[j]
    BY <2>1, CallStepFrame
  <2>3. \A j : UserRow(j)' = UserRow(j)
    BY <2>2 DEF UserRow
  <2>4. /\ pc'[k] # "save_conversation"
        /\ pc'[k] = "save_user_message" => pc[k] = "save_conversation"
        /\ pc'[k] \in Unanswered \cup {"save_reply"} => pc[k] \in Unanswered
    BY <2>1, CallMoves DEF Unanswered, Routable, PastRules
  <2>5. \A m \in messages : m.call \in Calls
    BY DEF TypeOK, MessageRow
  <2>6. CASE messages' = messages
    BY <2>2, <2>3, <2>4, <2>5, <2>6 DEF OnceInv, IsUser, IsReply
  <2>7. CASE /\ Stage(k, "save_user_message")
             /\ Insertable(req[k].id)
             /\ messages' = messages \cup {UserRow(k)}
    <3>1. UserRow(k).call = k /\ UserRow(k).id = req[k].id /\ UserRow(k).sender = "user"
      BY DEF UserRow
    <3>2. pc'[k] \notin {"save_conversation", "save_user_message"}
      BY <2>4, <2>7 DEF Stage
    <3>3. \A m \in messages : m.call # k
      BY <2>7 DEF OnceInv, Stage
    <3> QED
      BY <2>2, <2>3, <2>4, <2>5, <2>7, <3>1, <3>2, <3>3 DEF OnceInv, IsUser, IsReply, Insertable
  <2>8. CASE /\ Stage(k, "save_reply")
             /\ messages' = messages \cup {ReplyRow(k)}
    <3>1. ReplyRow(k).call = k /\ ReplyRow(k).id = req[k].id /\ ReplyRow(k).sender = "assistant"
      BY DEF ReplyRow
    <3>2. pc'[k] \notin Unanswered \cup {"save_reply"}
      BY <2>4, <2>8 DEF Stage, Unanswered
    <3>3. \A m \in messages : IsReply(m) => m.call # k
      BY <2>8 DEF OnceInv, Stage
    <3>4. UserRow(k) \in messages
      BY <2>8 DEF Stage, StageInv, RecordInv, Recording
    <3> QED
      BY <2>2, <2>3, <2>4, <2>5, <2>8, <3>1, <3>2, <3>3, <3>4 DEF OnceInv, IsUser, IsReply, Unanswered
  <2> QED
    BY <2>1, <2>6, <2>7, <2>8, MessagesGrow
<1>2. CASE Environment \/ UNCHANGED vars
  <2>1. \A m \in messages : m.call \in Calls
    BY DEF TypeOK, MessageRow
  <2>2. /\ req' = req
        /\ messages' = messages
        /\ \A j \in Calls : pc'[j] = pc[j] \/ pc'[j] = "broken"
    BY <1>2, EnvironmentFrame
  <2>3. \A j : UserRow(j)' = UserRow(j)
    BY <2>2 DEF UserRow
  <2> QED
    BY <2>1, <2>2, <2>3 DEF OnceInv, IsUser, IsReply, Unanswered
<1> QED
  BY <1>1, <1>2, NextCases

-----------------------------------------------------------------------------
(* No promise of the model survives. *)

\* A message of the session memory that is no promise.
CleanTurn == { t \in Turn : t.text \notin PromiseTexts }

CleanInv ==
    /\ \A k \in Calls : resp[k].text \notin PromiseTexts /\ loaded[k] \in Seq(CleanTurn)
    /\ \A m \in messages : m.text \notin PromiseTexts
    /\ memory \in [Conversations -> Seq(CleanTurn)]
    /\ \A a \in asked : a.history \in Seq(CleanTurn)

\* Every step keeps promises out of responses, rows, memory and prompts (validator.go:19-38).
LEMMA CleanStep ==
    ASSUME TypeOK, StageInv, CleanInv, [Next]_vars
    PROVE  CleanInv'
<1>1. CASE \E k \in Calls : CallStep(k)
  <2>1. PICK k \in Calls : CallStep(k)
    BY <1>1
  <2>2. req[k] \in Requests /\ req[k].conv \in Conversations
    BY RequestFields DEF TypeOK
  <2>3. resp'[k].text \notin PromiseTexts
    <3>1. NoResponse.text \notin PromiseTexts
      BY DEF NoResponse, PromiseTexts
    <3>2. ASSUME NEW result, Routed(k, result)
          PROVE  resp'[k].text \notin PromiseTexts
      BY <3>2 DEF Routed, Respond, TypeOK, PromiseTexts
    <3>3. ASSUME Fail(k)
          PROVE  resp'[k].text \notin PromiseTexts
      BY <3>1, <3>3 DEF Fail, TypeOK
    <3>4. CASE Route(k) \/ ReadFeatureFlag(k)
      BY <3>2, <3>3, <3>4 DEF Route, ReadFeatureFlag, CleanInv
    <3>5. CASE SearchKnowledge(k)
      BY <3>2, <3>3, <3>5 DEF SearchKnowledge, Respond, TypeOK, PromiseTexts, CleanInv
    <3>6. CASE AskModel(k)
      <4>1. ASSUME NEW reply \in ModelReplies,
                   Respond(k, Validated(req[k].message, ModelResponse(reply)))
            PROVE  resp'[k].text \notin PromiseTexts
        BY <4>1, ValidatedType, ParametersAssumption DEF Respond, TypeOK
      <4> QED
        BY <3>3, <3>6, <4>1 DEF AskModel
    <3>7. CASE SaveConversation(k) \/ SaveUserMessage(k) \/ SaveReply(k) \/ SaveEvent(k)
      BY <3>3, <3>7 DEF SaveConversation, SaveUserMessage, SaveReply, SaveEvent, Written, CleanInv
    <3>8. CASE LoadMemory(k) \/ SaveMemory(k) \/ EmitTrace(k)
      BY <3>8 DEF LoadMemory, SaveMemory, EmitTrace, CleanInv
    <3> QED
      BY <2>1, <3>4, <3>5, <3>6, <3>7, <3>8 DEF CallStep
  <2>4. loaded'[k] \in Seq(CleanTurn)
    <3>1. CASE LoadMemory(k)
      <4>1. PICK turns \in {memory[req[k].conv], <<>>} : loaded' = [loaded EXCEPT ![k] = turns]
        BY <3>1 DEF LoadMemory
      <4>2. memory[req[k].conv] \in Seq(CleanTurn) /\ <<>> \in Seq(CleanTurn)
        BY <2>2 DEF CleanInv
      <4>3. turns \in Seq(CleanTurn)
        BY <4>1, <4>2
      <4> QED
        BY <4>1, <4>3 DEF TypeOK
    <3>2. CASE UNCHANGED loaded
      BY <3>2 DEF CleanInv
    <3> QED
      BY <2>1, <3>1, <3>2 DEF CallStep, SaveConversation, SaveUserMessage, Route, ReadFeatureFlag,
         SearchKnowledge, AskModel, SaveReply, SaveEvent, SaveMemory, EmitTrace
  <2>5. \A m \in messages' : m.text \notin PromiseTexts
    <3>1. UserRow(k).text \notin PromiseTexts /\ ReplyRow(k).text \notin PromiseTexts
      BY DEF UserRow, ReplyRow, PromiseTexts, CleanInv
    <3> QED
      BY <3>1, <2>1, MessagesGrow DEF CleanInv
  <2>6. memory' \in [Conversations -> Seq(CleanTurn)]
    <3>1. CASE SaveMemory(k)
      <4>1. TurnOf(k) \in Seq(CleanTurn)
        <5>1. resp[k] \in Response /\ resp[k].text \notin PromiseTexts
          BY DEF TypeOK, CleanInv
        <5> QED
          BY <5>1 DEF TurnOf, CleanTurn, Turn, Response, PromiseTexts
      <4>2. loaded[k] \o TurnOf(k) \in Seq(CleanTurn)
        BY <4>1 DEF CleanInv
      <4>3. Trim(loaded[k] \o TurnOf(k)) \in Seq(CleanTurn)
        BY <4>2, TrimType
      <4> QED
        BY <4>3, <3>1 DEF SaveMemory, CleanInv
    <3>2. CASE UNCHANGED memory
      BY <3>2 DEF CleanInv
    <3> QED
      BY <2>1, <3>1, <3>2 DEF CallStep, SaveConversation, SaveUserMessage, Route, ReadFeatureFlag,
         LoadMemory, SearchKnowledge, AskModel, SaveReply, SaveEvent, EmitTrace
  <2>7. \A a \in asked' : a.history \in Seq(CleanTurn)
    <3>1. CASE AskModel(k)
      <4>1. Trim(loaded[k]) \in Seq(CleanTurn)
        BY TrimType DEF CleanInv
      <4> QED
        BY <3>1, <4>1 DEF AskModel, CleanInv
    <3>2. CASE UNCHANGED asked
      BY <3>2 DEF CleanInv
    <3> QED
      BY <2>1, <3>1, <3>2 DEF CallStep, SaveConversation, SaveUserMessage, Route, ReadFeatureFlag,
         LoadMemory, SearchKnowledge, SaveReply, SaveEvent, SaveMemory, EmitTrace
  <2> QED
    BY <2>1, <2>3, <2>4, <2>5, <2>6, <2>7, CallStepFrame DEF CleanInv
<1>2. CASE Environment \/ UNCHANGED vars
  <2>1. /\ UNCHANGED <<messages, asked, loaded>>
        /\ \A k \in Calls : resp'[k] = resp[k] \/ resp'[k] = NoResponse
    BY <1>2, EnvironmentFrame DEF Environment, LogStep, ReloadRules, SetFeatureFlag, ExpireMemory,
       Restart, vars, callVars
  <2>2. NoResponse.text \notin PromiseTexts
    BY DEF NoResponse, PromiseTexts
  <2>3. memory' \in [Conversations -> Seq(CleanTurn)]
    <3>1. CASE \E c \in Conversations : ExpireMemory(c)
      <4>1. <<>> \in Seq(CleanTurn)
        OBVIOUS
      <4> QED
        BY <4>1, <3>1 DEF CleanInv, ExpireMemory
    <3>2. CASE UNCHANGED memory
      BY <3>2 DEF CleanInv
    <3> QED
      BY <1>2, <3>1, <3>2 DEF Environment, LogStep, ReloadRules, SetFeatureFlag, Restart, vars
  <2> QED
    BY <2>1, <2>2, <2>3 DEF CleanInv
<1> QED
  BY <1>1, <1>2, NextCases

-----------------------------------------------------------------------------
(* The invariant and the theorems. *)

SafetyInv == TypeOK /\ StageInv /\ RecordInv /\ RulesInv /\ OnceInv /\ CleanInv

\* The conjunction of the parts is an invariant of Service.Send.
LEMMA SafetyInvariant == Spec => []SafetyInv
<1>1. Init => SafetyInv
  <2> SUFFICES ASSUME Init PROVE SafetyInv
    OBVIOUS
  <2>1. \A k \in Calls : pc[k] = "save_conversation" /\ resp[k] = NoResponse
    BY DEF Init
  <2>2. TypeOK
    BY InitType
  <2>3. StageInv /\ RecordInv /\ RulesInv
    BY <2>1 DEF Init, StageInv, RecordInv, RulesInv, HardRulesBeforeAI, Unanswered, PastRules,
       Routable, Recording, Answered
  <2>4. OnceInv
    BY DEF Init, OnceInv
  <2>5. CleanInv
    BY <2>1 DEF Init, CleanInv, NoResponse, PromiseTexts
  <2> QED
    BY <2>2, <2>3, <2>4, <2>5 DEF SafetyInv
<1>2. SafetyInv /\ [Next]_vars => SafetyInv'
  BY TypeStep, StageStep, RecordStep, RulesStep, OnceStep, CleanStep DEF SafetyInv
<1> QED
  BY <1>1, <1>2, PTL DEF Spec

\* A call that returned has its question, its reply and its event in the tables, as the
\* response says them (service.go:349-377, 401-425, 1346-1369).
THEOREM RepliesAreRecorded == Spec => []ReplyIsRecorded
<1>1. SafetyInv => ReplyIsRecorded
  BY DEF SafetyInv, StageInv, RecordInv, ReplyIsRecorded
<1> QED
  BY <1>1, SafetyInvariant, PTL

\* No message that a built-in rule handles reaches the language model (service.go:239-245).
THEOREM RulesPrecedeAI == Spec => []HardRulesBeforeAI
<1>1. SafetyInv => HardRulesBeforeAI
  BY DEF SafetyInv, RulesInv
<1> QED
  BY <1>1, SafetyInvariant, PTL

\* A sensitive question ends with a person, unless an operator's rule or the media guide
\* answered it (risk.go:23-38, validator.go:73-88).
THEOREM SensitiveIsHandedOff == Spec => []SensitiveHandedOff
<1>1. SafetyInv => SensitiveHandedOff
  BY DEF SafetyInv, StageInv, RulesInv, SensitiveHandedOff, Answered
<1> QED
  BY <1>1, SafetyInvariant, PTL

\* With a unique message_id a message has at most one answer (service.go:218, 350).
THEOREM AnswersAreUnique == Spec => []AnsweredOnce
<1>1. SafetyInv => AnsweredOnce
  <2> SUFFICES ASSUME SafetyInv, UniqueMessageId,
                      NEW m \in messages, NEW n \in messages,
                      IsReply(m), IsReply(n), m.id = n.id
               PROVE  m = n
    BY DEF AnsweredOnce, IsReply
  <2>1. /\ UserRow(m.call) \in messages /\ UserRow(n.call) \in messages
        /\ req[m.call].id = m.id /\ req[n.call].id = n.id
    BY DEF SafetyInv, OnceInv
  <2>2. \A k : IsUser(UserRow(k)) /\ UserRow(k).id = req[k].id /\ UserRow(k).call = k
    BY DEF IsUser, UserRow
  <2>3. m.call = n.call
    BY <2>1, <2>2 DEF SafetyInv, OnceInv
  <2> QED
    BY <2>3 DEF SafetyInv, OnceInv
<1> QED
  BY <1>1, SafetyInvariant, PTL

\* A promise of the model is in no response, no row, no remembered turn and no prompt
\* (validator.go:90-103, service.go:1266-1286).
THEOREM PromisesNeverLeak == Spec => []NoPromiseLeaks
<1>1. SafetyInv => NoPromiseLeaks
  <2>1. \A s \in Seq(CleanTurn) : \A i \in DOMAIN s : s[i].text \notin PromiseTexts
    BY DEF CleanTurn
  <2> QED
    BY <2>1 DEF SafetyInv, CleanInv, NoPromiseLeaks
<1> QED
  BY <1>1, SafetyInvariant, PTL
-----------------------------------------------------------------------------
(* The order of the writes. *)

\* What a call does to the tables of conversations and events.
LEMMA EventsGrow ==
    ASSUME TypeOK, NEW k \in Calls, CallStep(k)
    PROVE  \/ events' = events
           \/ Stage(k, "save_event") /\ events' = events \cup {EventRow(k)}
  BY DEF CallStep, SaveConversation, SaveUserMessage, Route, ReadFeatureFlag, LoadMemory,
         SearchKnowledge, AskModel, SaveReply, SaveEvent, SaveMemory, EmitTrace, storeVars

\* Every row has what was to be written before it (service.go:204-229, 349-377).
LEMMA OrphanStep ==
    ASSUME TypeOK, StageInv, RecordInv, OnceInv, NoOrphanRows, [Next]_vars
    PROVE  NoOrphanRows'
<1> DEFINE Replied(e) == \E m \in messages : m.sender = "assistant" /\ m.call = e.call
           Filed(m) == m.conv \in conversations
           Asked(m) == m.sender = "assistant" =>
                          \E q \in messages : q.sender = "user" /\ q.call = m.call
<1>1. /\ \A e \in events : Replied(e)
      /\ \A m \in messages : Filed(m) /\ Asked(m)
  BY DEF NoOrphanRows
<1>2. CASE \E k \in Calls : CallStep(k)
  <2>1. PICK k \in Calls : CallStep(k)
    BY <1>2
  <2>2. conversations \subseteq conversations' /\ messages \subseteq messages'
    BY <2>1, CallStepFrame
  <2>3. \A e \in events' : Replied(e)'
    <3>1. CASE events' = events
      BY <3>1, <1>1, <2>2
    <3>2. CASE Stage(k, "save_event") /\ events' = events \cup {EventRow(k)}
      <4>1. ReplyRow(k) \in messages
        BY <3>2 DEF Stage, StageInv, RecordInv, Recording
      <4>2. EventRow(k).call = k /\ ReplyRow(k).call = k /\ ReplyRow(k).sender = "assistant"
        BY DEF EventRow, ReplyRow
      <4> QED
        BY <3>2, <4>1, <4>2, <1>1, <2>2
    <3> QED
      BY <2>1, <3>1, <3>2, EventsGrow
  <2>4. \A m \in messages' : Filed(m)' /\ Asked(m)'
    <3>1. \A m \in messages : Filed(m)' /\ Asked(m)'
      BY <1>1, <2>2
    <3>2. CASE Stage(k, "save_user_message") /\ messages' = messages \cup {UserRow(k)}
      BY <3>1, <3>2, <2>2 DEF Stage, RecordInv, UserRow
    <3>3. CASE Stage(k, "save_reply") /\ messages' = messages \cup {ReplyRow(k)}
      <4>1. req[k].conv \in conversations /\ UserRow(k) \in messages
        BY <3>3 DEF Stage, StageInv, RecordInv, Recording
      <4>2. /\ ReplyRow(k).call = k /\ ReplyRow(k).conv = req[k].conv
            /\ UserRow(k).call = k /\ UserRow(k).sender = "user"
        BY DEF ReplyRow, UserRow
      <4> QED
        BY <3>1, <3>3, <4>1, <4>2, <2>2
    <3> QED
      BY <2>1, <3>1, <3>2, <3>3, MessagesGrow
  <2> QED
    BY <2>3, <2>4 DEF NoOrphanRows
<1>3. CASE Environment \/ UNCHANGED vars
  BY <1>3, <1>1, EnvironmentFrame DEF NoOrphanRows
<1> QED
  BY <1>2, <1>3, NextCases

\* No event without its reply, no reply without its question, no message without its
\* conversation, whatever fails or stops in between (service.go:204-229, 349-377).
THEOREM RowsAreNeverOrphans == Spec => []NoOrphanRows
<1>1. Init => NoOrphanRows
  BY DEF Init, NoOrphanRows
<1>2. SafetyInv /\ NoOrphanRows /\ [Next]_vars => NoOrphanRows'
  BY OrphanStep DEF SafetyInv
<1> QED
  BY <1>1, <1>2, SafetyInvariant, PTL DEF Spec

-----------------------------------------------------------------------------
(* One trace per call. *)

Log == INSTANCE TraceLoggerTheorems WITH Records <- Calls

TraceInv ==
    /\ Log!LoggerInv
    /\ \A k \in Calls : pc[k] \in {"done", "failed"} <=> k \in Logger!Offered

\* The logger's state, as its own theorems speak of it.
LEMMA SameLogger ==
    /\ Logger!Offered = Log!Offered /\ Logger!Offered' = Log!Offered'
    /\ Logger!SinglePlace <=> Log!SinglePlace
    /\ \A k : Logger!Enqueue(k) <=> Log!Enqueue(k)
    /\ Logger!Run <=> Log!Run
    /\ Logger!Stop <=> Log!Stop
    /\ Logger!Init <=> Log!Init
  BY DEF Logger!Offered, Log!Offered, Logger!Queued, Log!Queued, Logger!SinglePlace, Log!SinglePlace,
         Logger!Enqueue, Log!Enqueue, Logger!Run, Log!Run, Logger!Take, Log!Take, Logger!SaveOK,
         Log!SaveOK, Logger!SaveFailed, Log!SaveFailed, Logger!Stop, Log!Stop, Logger!Init, Log!Init

\* A step of the logger keeps what has been offered.
LEMMA LoggerKeepsOffers ==
    ASSUME Log!LoggerInv, Logger!Run \/ Logger!Stop \/ UNCHANGED logVars
    PROVE  Log!LoggerInv' /\ Logger!Offered' = Logger!Offered
<1> USE ParametersAssumption DEF Log!QueueSizeAssumption
<1>1. Log!Take \/ Log!SaveOK \/ Log!SaveFailed \/ Log!Stop \/ UNCHANGED Log!logVars
  BY SameLogger DEF Log!Run, logVars, Log!logVars
<1>2. CASE Log!Take
  <2>1. Log!LoggerInv' /\ (Log!Queued \cup saving)' = Log!Queued \cup saving
    BY <1>2, Log!TakeKeepsInv
  <2>2. UNCHANGED <<stored, lost>>
    BY <1>2 DEF Log!Take
  <2> QED
    BY <2>1, <2>2, SameLogger DEF Log!Offered
<1>3. CASE Log!SaveOK \/ Log!SaveFailed \/ Log!Stop \/ UNCHANGED Log!logVars
  <2>1. Log!LoggerInv'
    BY <1>3, Log!RestKeepsInv
  <2>2. Log!Offered' = Log!Offered
    BY <1>3 DEF Log!SaveOK, Log!SaveFailed, Log!Stop, Log!logVars, Log!Offered, Log!Queued
  <2> QED
    BY <2>1, <2>2, SameLogger
<1> QED
  BY <1>1, <1>2, <1>3

\* An offer adds the call.
LEMMA OfferAdds ==
    ASSUME Log!LoggerInv, NEW k \in Calls, k \notin Logger!Offered, Logger!Enqueue(k)
    PROVE  Log!LoggerInv' /\ Logger!Offered' = Logger!Offered \cup {k}
<1> USE ParametersAssumption DEF Log!QueueSizeAssumption
<1>1. Log!LoggerInv'
  BY Log!EnqueueKeepsInv, SameLogger
<1>2. \/ Log!Queued' = Log!Queued \cup {k} /\ lost' = lost
      \/ Log!Queued' = Log!Queued /\ lost' = lost \cup {k}
  <2>1. CASE queue' = Append(queue, k) /\ lost' = lost
    <3>1. queue \in Seq(Calls)
      BY DEF Log!LoggerInv, Log!TypeOK
    <3>2. { Append(queue, k)[i] : i \in DOMAIN Append(queue, k) } = { queue[i] : i \in DOMAIN queue } \cup {k}
      BY <3>1, Log!AppendAdds
    <3> QED
      BY <2>1, <3>2 DEF Log!Queued
  <2>2. CASE queue' = queue /\ lost' = lost \cup {k}
    BY <2>2 DEF Log!Queued
  <2> QED
    BY <2>1, <2>2 DEF Logger!Enqueue
<1> QED
  BY <1>1, <1>2, SameLogger DEF Log!Offered, Logger!Enqueue

\* Every step keeps one trace for every call that ended (service.go:1377-1384, 1420-1425).
LEMMA TraceStep ==
    ASSUME TypeOK, StageInv, TraceInv, [Next]_vars
    PROVE  TraceInv'
<1>1. ASSUME NEW k \in Calls, CallStep(k), ~EmitTrace(k)
      PROVE  TraceInv'
  <2>1. UNCHANGED logVars
    BY <1>1 DEF CallStep, SaveConversation, SaveUserMessage, Route, ReadFeatureFlag, LoadMemory,
       SearchKnowledge, AskModel, SaveReply, SaveEvent, SaveMemory
  <2>2. Stage(k, pc[k]) /\ pc[k] \notin {"done", "failed", "emit"}
    BY <1>1 DEF CallStep, SaveConversation, SaveUserMessage, Route, ReadFeatureFlag, LoadMemory,
       SearchKnowledge, AskModel, SaveReply, SaveEvent, SaveMemory, Stage
  <2>3. pc'[k] \notin {"done", "failed"}
    BY <1>1, <2>2, CallMoves DEF Routable, PastRules
  <2> QED
    BY <1>1, <2>1, <2>2, <2>3, LoggerKeepsOffers, CallStepFrame DEF TraceInv
<1>2. ASSUME NEW k \in Calls, EmitTrace(k)
      PROVE  TraceInv'
  <2>1. pc[k] = "emit" /\ Logger!Enqueue(k)
    BY <1>2 DEF EmitTrace, Stage
  <2>2. pc'[k] \in {"done", "failed"} /\ \A j \in Calls \ {k} : pc'[j] = pc[j]
    BY <1>2 DEF EmitTrace, GoTo, TypeOK
  <2>3. k \notin Logger!Offered
    BY <2>1 DEF TraceInv
  <2> QED
    BY <2>1, <2>2, <2>3, OfferAdds DEF TraceInv
<1>3. CASE Environment \/ UNCHANGED vars
  <2>1. Logger!Run \/ Logger!Stop \/ UNCHANGED logVars
    BY <1>3 DEF Environment, LogStep, ReloadRules, SetFeatureFlag, ExpireMemory, Restart, vars
  <2>2. \A k \in Calls : pc'[k] \in {"done", "failed"} <=> pc[k] \in {"done", "failed"}
    BY <1>3 DEF TypeOK, Environment, LogStep, ReloadRules, SetFeatureFlag, ExpireMemory, Restart,
       vars, callVars, Running, Ends
  <2> QED
    BY <2>1, <2>2, LoggerKeepsOffers DEF TraceInv
<1> QED
  BY <1>1, <1>2, <1>3, NextCases

\* A call offers its trace when it ends, and only then; nothing is offered twice, and a trace
\* is in one place (service.go:1377-1384, 1420-1425, trace_logger.go:28-52).
THEOREM EveryCallIsTracedOnce == Spec => []TraceOncePerCall
<1>1. Init => TraceInv
  <2> SUFFICES ASSUME Init PROVE TraceInv
    OBVIOUS
  <2>1. Log!LoggerInv
    BY Log!LoggerInvInit, SameLogger, ParametersAssumption DEF Log!QueueSizeAssumption, Init
  <2>2. Log!Offered = {}
    BY SameLogger DEF Init, Log!Init, Log!Offered, Log!Queued
  <2> QED
    BY <2>1, <2>2, SameLogger DEF Init, TraceInv
<1>2. SafetyInv /\ TraceInv /\ [Next]_vars => TraceInv'
  BY TraceStep DEF SafetyInv
<1>3. TraceInv => TraceOncePerCall
  BY SameLogger DEF TraceInv, TraceOncePerCall, Log!LoggerInv
<1> QED
  BY <1>1, <1>2, <1>3, SafetyInvariant, PTL DEF Spec
=============================================================================
