------------------------------ MODULE ChatSend ------------------------------
(***************************************************************************)
(* Service.Send (internal/chat/service.go): the orchestration of one user  *)
(* message - store it, route it by rules, otherwise retrieve knowledge and *)
(* ask the language model, validate the answer, record it, remember the    *)
(* turn, and hand the trace to the asynchronous logger.                    *)
(*                                                                         *)
(* Every call runs in a request goroutine of its own; a step of a call is  *)
(* the code between two visits to the outside (MySQL, Redis, AI service).  *)
(* Each visit may fail, and a failed write may nevertheless have happened. *)
(***************************************************************************)
EXTENDS Routing, FiniteSets

CONSTANTS
    Calls,            \* calls of Send
    Requests,         \* what a client may send
    ModelReplies,     \* what the AI service may answer
    RuleSnapshots,    \* rule lists a reload may install: ListEnabledRules, see RuleConfig
    QueueSize,        \* traceLogQueueSize
    MemoryMax,        \* sessionMemoryMaxMessages
    UniqueMessageId,  \* whether cs_message has a unique key on message_id (schema not in src/)
    MaxFailures,      \* bound on the calls that fail
    MaxStops          \* bound on process restarts

MessageTypes == {"text", "image", "audio"}

\* What the model's reply text can be to the validator: empty, low quality, low quality
\* with a promise in it, a promise (hasSensitivePromise), or neither.
ModelTexts == {"empty", "low_quality", "low_quality_promise", "promise", "good"}
PromiseTexts == {"low_quality_promise", "promise"}

\* ReplyResponse of the AI service; an empty route defaults to rag_llm.
ModelReply == [text : ModelTexts, route : {"", "rag_llm", "other"},
               transfer : BOOLEAN, docs : BOOLEAN]

ASSUME RequestsAssumption ==
    \A r \in Requests : /\ DOMAIN r = {"conv", "id", "type", "message"}
                        /\ r.type \in MessageTypes
                        /\ r.message \in Message
ASSUME ParametersAssumption ==
    /\ QueueSize \in Nat \ {0}
    /\ MemoryMax \in Nat \ {0}
    /\ UniqueMessageId \in BOOLEAN
    /\ ModelReplies \in SUBSET ModelReply
    /\ \A list \in RuleSnapshots : list \in Seq(DynamicRule)
    /\ MaxFailures \in Nat
    /\ MaxStops \in Nat
\* Turns come in pairs: an odd limit (the code's is 6) would cut one in two.
ASSUME WholeTurnsAssumption == MemoryMax % 2 = 0

VARIABLES
    pc,             \* per call: the stage it is about to execute
    req,            \* per call: its SendMessageRequest
    resp,           \* per call: the response being built
    loaded,         \* per call: the session memory it read
    conversations,  \* keys of cs_conversation
    messages,       \* rows of cs_message
    events,         \* rows of cs_ai_event
    memory,         \* per conversation: the turns kept in Redis, none when absent
    asked,          \* requests the AI service received from Reply
    rules,          \* DynamicRuleRouter.rules
    smartReply,     \* the flag smart_reply_enabled
    stops,          \* restarts so far
    queue, saving, stored, lost  \* the trace logger

Logger == INSTANCE TraceLogger WITH Records <- Calls

callVars == <<pc, req, resp, loaded>>
storeVars == <<conversations, messages, events>>
configVars == <<rules, smartReply, stops>>
logVars == <<queue, saving, stored, lost>>
vars == <<callVars, storeVars, memory, asked, configVars, logVars>>

Conversations == { r.conv : r \in Requests }

\* The stages that touch the outside, in the order of the code, and the ends of a call.
Stages == {"save_conversation", "save_user_message", "route", "feature_flag",
           "session_memory", "rag_search", "llm_reply", "save_reply", "save_event",
           "save_memory", "emit"}
Ends == {"done", "failed", "broken"}

Texts == ModelTexts \cup {"none", "canned", "knowledge", "validator_handoff", "validator_fallback"}

Routes == {"none", "media_guide", "db_rule", "rule_handoff", "fixed_faq", "fixed_faq_fallback",
           "rag_fallback", "rag_direct", "rag_llm", "other", "validator_handoff",
           "validator_fallback"}

\* SendMessageResponse, without what only decorates it.
Response == [text : Texts, route : Routes, handoff : BOOLEAN, cited : BOOLEAN]

NoResponse == [text |-> "none", route |-> "none", handoff |-> FALSE, cited |-> FALSE]

\* A message of the session memory; call tells turns apart.
Turn == [role : {"user", "assistant"}, call : Calls, text : Texts \cup {"user_text"}]

Ids == { r.id : r \in Requests }

\* MessageRecord, AIEventRecord and ai.ReplyRequest; call is a ghost.
MessageRow == [sender : {"user", "assistant"}, id : Ids, conv : Conversations,
               text : Texts \cup {"user_text"}, call : Calls]
AIEventRow == [call : Calls, conv : Conversations, id : Ids, route : Routes, handoff : BOOLEAN]
ModelRequest == [call : Calls, history : Seq(Turn)]

UserRow(k) == [sender |-> "user", id |-> req[k].id, conv |-> req[k].conv,
               text |-> "user_text", call |-> k]
\* newID gives every assistant message an id of its own: the call stands for it.
ReplyRow(k) == [sender |-> "assistant", id |-> req[k].id, conv |-> req[k].conv,
                text |-> resp[k].text, call |-> k]
EventRow(k) == [call |-> k, conv |-> req[k].conv, id |-> req[k].id,
                route |-> resp[k].route, handoff |-> resp[k].handoff]

Stage(k, stage) == pc[k] = stage
GoTo(k, stage) == pc' = [pc EXCEPT ![k] = stage]

Failing == { k \in Calls : pc[k] = "failed" \/ (pc[k] = "emit" /\ resp[k] = NoResponse) }

\* Mutant: an error return that forgets the trace.
Fail_NoTrace(k) ==
    /\ Cardinality(Failing) < MaxFailures
    /\ GoTo(k, "failed")
    /\ resp' = [resp EXCEPT ![k] = NoResponse]

\* saveTraceError and the return of an empty response: only the trace is left to emit.
Fail(k) ==
    /\ Cardinality(Failing) < MaxFailures
    /\ GoTo(k, "emit")
    /\ resp' = [resp EXCEPT ![k] = NoResponse]

\* A response is settled and about to be recorded.
Respond(k, response) ==
    /\ GoTo(k, "save_reply")
    /\ resp' = [resp EXCEPT ![k] = response]

\* saveRoutedResponse: a canned reply, kept out of the session memory.
Routed(k, result) ==
    Respond(k, [text |-> "canned", route |-> result.route,
                handoff |-> result.handoff, cited |-> FALSE])

-----------------------------------------------------------------------------
(* The storage. *)

\* The write happened and its caller goes on at next, or gets an error all the same.
Written(k, next) ==
    \/ GoTo(k, next) /\ UNCHANGED resp
    \/ Fail(k)

\* SaveConversation: an upsert.
SaveConversation(k) ==
    /\ Stage(k, "save_conversation")
    /\ \/ /\ conversations' = conversations \cup {req[k].conv}
          /\ Written(k, "save_user_message")
       \/ /\ UNCHANGED conversations
          /\ Fail(k)
    /\ UNCHANGED <<req, loaded, messages, events, memory, asked, configVars, logVars>>

\* Mutant: the user's message is upserted.
Insertable_Upsert(id) == id \in Ids

\* SaveMessage is a plain INSERT; a unique key would refuse a message_id it has seen.
Insertable(id) == UniqueMessageId => \A m \in messages : ~(m.sender = "user" /\ m.id = id)

\* Mutant: an error of the first SaveMessage is ignored.
SaveUserMessage_ErrorIgnored(k) ==
    /\ Stage(k, "save_user_message")
    /\ messages' \in {messages, messages \cup {UserRow(k)}}
    /\ GoTo(k, "route")
    /\ UNCHANGED <<req, resp, loaded, conversations, events, memory, asked, configVars, logVars>>

SaveUserMessage(k) ==
    /\ Stage(k, "save_user_message")
    /\ \/ /\ Insertable(req[k].id)
          /\ messages' = messages \cup {UserRow(k)}
          /\ Written(k, "route")
       \/ /\ UNCHANGED messages
          /\ Fail(k)
    /\ UNCHANGED <<req, loaded, conversations, events, memory, asked, configVars, logVars>>

\* Mutant: the reply is sent even if it could not be stored.
SaveReply_ErrorIgnored(k) ==
    /\ Stage(k, "save_reply")
    /\ messages' \in {messages, messages \cup {ReplyRow(k)}}
    /\ GoTo(k, "save_event")
    /\ UNCHANGED <<req, resp, loaded, conversations, events, memory, asked, configVars, logVars>>

SaveReply(k) ==
    /\ Stage(k, "save_reply")
    /\ \/ /\ messages' = messages \cup {ReplyRow(k)}
          /\ Written(k, "save_event")
       \/ /\ UNCHANGED messages
          /\ Fail(k)
    /\ UNCHANGED <<req, loaded, conversations, events, memory, asked, configVars, logVars>>

\* Only the answers made from knowledge are remembered.
Remembered(response) == response.text # "canned"

SaveEvent(k) ==
    /\ Stage(k, "save_event")
    /\ \/ /\ events' = events \cup {EventRow(k)}
          /\ Written(k, IF Remembered(resp[k]) THEN "save_memory" ELSE "emit")
       \/ /\ UNCHANGED events
          /\ Fail(k)
    /\ UNCHANGED <<req, loaded, conversations, messages, memory, asked, configVars, logVars>>

-----------------------------------------------------------------------------
(* Routing. *)

\* matchMediaGuide, then matchRule; both only read memory.
Route(k) ==
    /\ Stage(k, "route")
    /\ IF req[k].type \in {"image", "audio"}
       THEN Routed(k, [route |-> "media_guide", handoff |-> FALSE])
       ELSE IF RuleMatched(rules, req[k].message)
       THEN Routed(k, RuleResult(rules, req[k].message))
       ELSE GoTo(k, "feature_flag") /\ UNCHANGED resp
    /\ UNCHANGED <<req, loaded, storeVars, memory, asked, configVars, logVars>>

ReadFeatureFlag(k) ==
    /\ Stage(k, "feature_flag")
    /\ \/ smartReply /\ GoTo(k, "session_memory") /\ UNCHANGED resp
       \/ ~smartReply /\ Routed(k, [route |-> "fixed_faq_fallback", handoff |-> FALSE])
       \/ Fail(k)
    /\ UNCHANGED <<req, loaded, storeVars, memory, asked, configVars, logVars>>

-----------------------------------------------------------------------------
(* Session memory. *)

\* Mutant: an off-by-one at the limit.
Trim_OffByOne(turns) ==
    IF Len(turns) <= MemoryMax THEN turns
    ELSE SubSeq(turns, Len(turns) - MemoryMax, Len(turns))

\* trimSessionMessages
Trim(turns) ==
    IF Len(turns) <= MemoryMax THEN turns
    ELSE SubSeq(turns, Len(turns) - MemoryMax + 1, Len(turns))

\* The turn nextSessionMemory appends.
TurnOf(k) == << [role |-> "user", call |-> k, text |-> "user_text"],
                [role |-> "assistant", call |-> k, text |-> resp[k].text] >>

\* loadSessionMemory: an error counts as an empty memory.
LoadMemory(k) ==
    /\ Stage(k, "session_memory")
    /\ \E turns \in {memory[req[k].conv], <<>>} : loaded' = [loaded EXCEPT ![k] = turns]
    /\ GoTo(k, "rag_search")
    /\ UNCHANGED <<req, resp, storeVars, memory, asked, configVars, logVars>>

\* Mutant: the turn is appended to what Redis holds now.
SaveMemory_Append(k) ==
    /\ Stage(k, "save_memory")
    /\ \/ memory' = [memory EXCEPT ![req[k].conv] = Trim(memory[req[k].conv] \o TurnOf(k))]
       \/ UNCHANGED memory
    /\ GoTo(k, "emit")
    /\ UNCHANGED <<req, resp, loaded, storeVars, asked, configVars, logVars>>

\* saveSessionMemory: the whole record is overwritten; an error is only traced.
SaveMemory(k) ==
    /\ Stage(k, "save_memory")
    /\ \/ memory' = [memory EXCEPT ![req[k].conv] = Trim(loaded[k] \o TurnOf(k))]
       \/ UNCHANGED memory
    /\ GoTo(k, "emit")
    /\ UNCHANGED <<req, resp, loaded, storeVars, asked, configVars, logVars>>

-----------------------------------------------------------------------------
(* Knowledge and the language model. *)

\* searchRAG: an error, nothing usable, or usable passages, which may be strong enough
\* (score, length, gap to the second) to be the answer unless the question is risky.
SearchKnowledge(k) ==
    /\ Stage(k, "rag_search")
    /\ \/ Fail(k)
       \/ Routed(k, [route |-> "rag_fallback", handoff |-> FALSE])
       \/ GoTo(k, "llm_reply") /\ UNCHANGED resp
       \/ /\ ~IsRiskyDirectReplyQuery(req[k].message)
          /\ Respond(k, [text |-> "knowledge", route |-> "rag_direct",
                         handoff |-> FALSE, cited |-> TRUE])
    /\ UNCHANGED <<req, loaded, storeVars, memory, asked, configVars, logVars>>

\* Mutant: the default route is forgotten.
ModelResponse_NoDefault(reply) ==
    [text |-> reply.text, route |-> reply.route, handoff |-> reply.transfer, cited |-> reply.docs]

\* The response built from the model's reply.
ModelResponse(reply) ==
    [text |-> reply.text, route |-> IF reply.route = "" THEN "rag_llm" ELSE reply.route,
     handoff |-> reply.transfer, cited |-> reply.docs]

\* validateResponse, its tests in the order of the code.
NeedsCitation(route) == route \in {"rag", "rag_llm"}

Unusable(response) ==
    \/ response.text \in {"empty", "low_quality", "low_quality_promise"}
    \/ NeedsCitation(response.route) /\ ~response.cited

\* Mutant: a promise counts only when the user raised the matter.
Unsafe_IntentOnly(message, response) ==
    HasSensitiveUserIntent(message) /\ response.text \in PromiseTexts

Unsafe(message, response) == HasSensitiveUserIntent(message) \/ response.text \in PromiseTexts

\* validateResponse followed by applyValidationAction
Validated(message, response) ==
    CASE Unusable(response) ->
           [text |-> "validator_fallback", route |-> "validator_fallback",
            handoff |-> FALSE, cited |-> FALSE]
      [] ~Unusable(response) /\ Unsafe(message, response) ->
           [text |-> "validator_handoff", route |-> "validator_handoff",
            handoff |-> TRUE, cited |-> FALSE]
      [] OTHER -> response

\* aiClient.Reply with the trimmed history; the service may see a request whose answer
\* never arrives.
AskModel(k) ==
    /\ Stage(k, "llm_reply")
    /\ \/ /\ asked' = asked \cup {[call |-> k, history |-> Trim(loaded[k])]}
          /\ \/ Fail(k)
             \/ \E reply \in ModelReplies :
                   Respond(k, Validated(req[k].message, ModelResponse(reply)))
       \/ UNCHANGED asked /\ Fail(k)
    /\ UNCHANGED <<req, loaded, storeVars, memory, configVars, logVars>>

-----------------------------------------------------------------------------
(* The end of a call, and what happens around the calls. *)

\* Mutant: a blocking send to the logger's channel.
EmitTrace_Blocking(k) ==
    /\ Stage(k, "emit")
    /\ Len(queue) < QueueSize
    /\ Logger!Enqueue(k)
    /\ GoTo(k, IF resp[k] = NoResponse THEN "failed" ELSE "done")
    /\ UNCHANGED <<req, resp, loaded, storeVars, memory, asked, configVars>>

\* emitTrace, then the return to the HTTP handler.
EmitTrace(k) ==
    /\ Stage(k, "emit")
    /\ Logger!Enqueue(k)
    /\ GoTo(k, IF resp[k] = NoResponse THEN "failed" ELSE "done")
    /\ UNCHANGED <<req, resp, loaded, storeVars, memory, asked, configVars>>

CallStep(k) ==
    \/ SaveConversation(k) \/ SaveUserMessage(k) \/ Route(k) \/ ReadFeatureFlag(k)
    \/ LoadMemory(k) \/ SearchKnowledge(k) \/ AskModel(k)
    \/ SaveReply(k) \/ SaveEvent(k) \/ SaveMemory(k) \/ EmitTrace(k)

LogStep ==
    /\ Logger!Run
    /\ UNCHANGED <<callVars, storeVars, memory, asked, configVars>>

\* ReloadRules replaces the snapshot.
ReloadRules ==
    /\ rules' \in RuleSnapshots
    /\ UNCHANGED <<callVars, storeVars, memory, asked, smartReply, stops, logVars>>

\* SetFeatureFlag
SetFeatureFlag ==
    /\ smartReply' \in BOOLEAN
    /\ UNCHANGED <<callVars, storeVars, memory, asked, rules, stops, logVars>>

\* The session memory's time to live runs out.
ExpireMemory(c) ==
    /\ memory' = [memory EXCEPT ![c] = <<>>]
    /\ UNCHANGED <<callVars, storeVars, asked, configVars, logVars>>

\* Calls that have begun and not ended.
Running(k) == pc[k] \notin Ends \cup {"save_conversation"}

\* The process stops and starts again: running calls and queued traces are gone, the rules
\* are what the start-up reload finds, or none when it fails.
Restart ==
    /\ stops < MaxStops
    /\ stops' = stops + 1
    /\ pc' = [k \in Calls |-> IF Running(k) THEN "broken" ELSE pc[k]]
    /\ resp' = [k \in Calls |-> IF Running(k) THEN NoResponse ELSE resp[k]]
    /\ rules' \in RuleSnapshots \cup {<<>>}
    /\ Logger!Stop
    /\ UNCHANGED <<req, loaded, storeVars, memory, asked, smartReply>>

Init ==
    /\ pc = [k \in Calls |-> "save_conversation"]
    /\ req \in [Calls -> Requests]
    /\ resp = [k \in Calls |-> NoResponse]
    /\ loaded = [k \in Calls |-> <<>>]
    /\ conversations = {}
    /\ messages = {}
    /\ events = {}
    /\ memory = [c \in Conversations |-> <<>>]
    /\ asked = {}
    /\ rules \in RuleSnapshots \cup {<<>>}
    /\ smartReply \in BOOLEAN
    /\ stops = 0
    /\ Logger!Init

Next ==
    \/ \E k \in Calls : CallStep(k)
    \/ LogStep
    \/ ReloadRules
    \/ SetFeatureFlag
    \/ \E c \in Conversations : ExpireMemory(c)
    \/ Restart

\* A step of a call is computation or a call that returns or errors; the logger may be
\* arbitrarily slow.
Spec == Init /\ [][Next]_vars /\ \A k \in Calls : WF_vars(CallStep(k) /\ Running(k))

-----------------------------------------------------------------------------
(* Properties. *)

\* Types of all variables.
TypeOK ==
    /\ pc \in [Calls -> Stages \cup Ends]
    /\ req \in [Calls -> Requests]
    /\ resp \in [Calls -> Response]
    /\ loaded \in [Calls -> Seq(Turn)]
    /\ conversations \in SUBSET Conversations
    /\ messages \in SUBSET MessageRow
    /\ events \in SUBSET AIEventRow
    /\ memory \in [Conversations -> Seq(Turn)]
    /\ asked \in SUBSET ModelRequest
    /\ rules \in Seq(DynamicRule)
    /\ smartReply \in BOOLEAN
    /\ stops \in Nat
    /\ Logger!TypeOK

\* What the user was told is what the tables say: a call that returned has its question,
\* its reply and its event stored, the reply with the very text and the event with the
\* very route and handoff of the response ("the main messages are still written
\* synchronously so that the conversation record is complete", service.go:349).
ReplyIsRecorded ==
    \A k \in Calls : pc[k] = "done" =>
        /\ req[k].conv \in conversations
        /\ UserRow(k) \in messages
        /\ ReplyRow(k) \in messages
        /\ EventRow(k) \in events

\* The tables are written question, reply, event, so a crash or an error between two
\* writes leaves no event without its reply and no reply without its question.
NoOrphanRows ==
    /\ \A e \in events : \E m \in messages : m.sender = "assistant" /\ m.call = e.call
    /\ \A m \in messages : /\ m.conv \in conversations
                           /\ m.sender = "assistant" =>
                                \E q \in messages : q.sender = "user" /\ q.call = m.call

\* Hard rules come before the model: no message that a built-in rule handles, and no image
\* or voice message, ever reaches the language model, whatever reloads, flag changes and
\* restarts happen meanwhile (README "Apply hard handoff rules before AI calls").
HardRulesBeforeAI ==
    \A a \in asked : /\ req[a.call].type = "text"
                     /\ ~RiskMatched(req[a.call].message)

\* A question the validator calls sensitive is handed to a person, unless an operator's
\* rule or the media guide answered it: the built-in rules cover the validator's list
\* (risk.go:23 "the last safety net").
SensitiveHandedOff ==
    \A k \in Calls :
        /\ pc[k] = "done"
        /\ HasSensitiveUserIntent(req[k].message)
        /\ resp[k].route \notin {"db_rule", "media_guide"}
        => resp[k].handoff

\* A promise made by the model is nowhere to be found: not in a response, not in the
\* message table, not in the session memory that feeds later prompts, not in a prompt.
NoPromiseLeaks ==
    /\ \A k \in Calls : resp[k].text \notin PromiseTexts
    /\ \A m \in messages : m.text \notin PromiseTexts
    /\ \A c \in Conversations : \A i \in DOMAIN memory[c] : memory[c][i].text \notin PromiseTexts
    /\ \A a \in asked : \A i \in DOMAIN a.history : a.history[i].text \notin PromiseTexts

\* Every call that ended offered exactly one trace, and a running call none: no path
\* through the error returns forgets it or emits it twice.
TraceOncePerCall ==
    /\ \A k \in Calls : pc[k] \in {"done", "failed"} <=> k \in Logger!Offered
    /\ Logger!SinglePlace

\* The session memory holds whole turns in order - a question followed by its answer -
\* no turn twice, at most MemoryMax messages, all of the same conversation and all of them
\* stored in MySQL, even when calls of the conversation overlap.
MemoryIsTranscript ==
    \A c \in Conversations :
        LET turns == memory[c]
        IN  /\ Len(turns) <= MemoryMax /\ Len(turns) % 2 = 0
            /\ \A i \in DOMAIN turns :
                 /\ turns[i].role = (IF i % 2 = 1 THEN "user" ELSE "assistant")
                 /\ i % 2 = 1 => turns[i].call = turns[i + 1].call
                 /\ \E m \in messages : /\ m.conv = c /\ m.call = turns[i].call
                                        /\ m.sender = turns[i].role /\ m.text = turns[i].text
            /\ \A i, j \in DOMAIN turns :
                 turns[i].call = turns[j].call /\ turns[i].role = turns[j].role => i = j

\* The memory tells the story its answers were made from: what precedes the latest turn is
\* what that turn's call had read, and what the model was shown if it was asked.
MemoryCoherent ==
    \A c \in Conversations : memory[c] # <<>> =>
        LET before == SubSeq(memory[c], 1, Len(memory[c]) - 2)
            k == memory[c][Len(memory[c])].call
            Suffix(s, t) == Len(s) <= Len(t) /\ s = SubSeq(t, Len(t) - Len(s) + 1, Len(t))
        IN  /\ Suffix(before, loaded[k])
            /\ \A a \in asked : a.call = k => Suffix(before, a.history)

\* With a unique key on message_id a message is answered at most once, however often the
\* client repeats it (the INSERT of service.go:218 is the only guard).
AnsweredOnce ==
    UniqueMessageId =>
        \A m, n \in messages :
            m.sender = "assistant" /\ n.sender = "assistant" /\ m.id = n.id => m = n

\* Every call that began ends, although nothing is assumed of the logger
\* (trace_logger.go:39 "rather lose the log than block the user's reply").
CallsEnd == \A k \in Calls : Running(k) ~> pc[k] \in Ends
=============================================================================
