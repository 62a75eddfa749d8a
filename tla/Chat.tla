------------------------------- MODULE Chat -------------------------------
(***************************************************************************)
(* The safety chatbot (routes/chat.py, rag/chatbot.py): a rate limit by    *)
(* address, then the one chatbot of the process looks up documents, has a  *)
(* language model answer from them and cites them.  Requests interleave    *)
(* wherever one awaits the retriever or a provider.                        *)
(***************************************************************************)
EXTENDS Naturals, Sequences, FiniteSets, SequencesExt

CONSTANTS
  ConfiguredKeys,  \* the providers that have an API key
  Asks,            \* requests
  Addresses,
  Questions,
  DocsPerQuestion, \* what the collections hold on each question
  MaxSources,      \* _MAX_SOURCES
  ChatLimit, ChatWindow, EvictAfter, LastChatTick

VARIABLES
  chatClock,
  chatStore,   \* _rate_store: the times of the requests of each address in it
  ask,         \* each request: its question, where it is and its answer
  lastDocs,    \* SafetyChatbot._last_docs
  tokens       \* _cost_tracker: the providers that were charged
chatVars == <<chatClock, chatStore, ask, lastDocs, tokens>>

-----------------------------------------------------------------------------
(* The chain of language models that llm/manager.py tries in turn. What a  *)
(* provider answers is chosen by its caller: "text" for more than ten      *)
(* characters, anything else for an error, a missing key or a short answer.*)
Providers == <<"groq", "gemini", "openai", "ollama">>

(* _call_groq, _call_gemini and _call_openai raise without their key *)
Callable(p) == p = "ollama" \/ p \in ConfiguredKeys

(* the outcomes one call of generate can meet, provider by provider *)
Outcomes == {o \in [{"groq", "gemini", "openai", "ollama"} -> {"text", "fails"}] :
               \A p \in DOMAIN o : ~Callable(p) => o[p] = "fails"}

(* LLMManager.generate: the first that answers, or the template, which has *)
(* no provider to fail.                                                    *)
AnsweredBy(outcome) ==
  LET i == SelectInSeq(Providers, LAMBDA p : outcome[p] = "text")
  IN IF i = 0 THEN "template" ELSE Providers[i]

(* get_status names the first configured model, whoever answered *)
ActiveModel ==
  LET i == SelectInSeq(Providers, LAMBDA p : p \in ConfiguredKeys)
  IN IF i = 0 THEN "ollama" ELSE Providers[i]

-----------------------------------------------------------------------------
NotAsked == [at |-> "new"]

ChatInit ==
  /\ chatClock = 0
  /\ chatStore = [a \in {} |-> <<>>]
  /\ ask = [r \in Asks |-> NotAsked]
  /\ lastDocs = <<>>
  /\ tokens = {}

(* the merged retriever: its documents are about the question *)
Retrieved(q) == [i \in 1 .. DocsPerQuestion |-> <<q, i>>]
BoundedSources(docs) ==
  IF Len(docs) > MaxSources THEN SubSeq(docs, Len(docs) - MaxSources + 1, Len(docs)) ELSE docs

(* _check_rate_limit: addresses idle for long are forgotten first *)
FreshAsks(a) == SelectSeq(chatStore[a], LAMBDA t : chatClock - t < ChatWindow)
KeptAddresses ==
  {a \in DOMAIN chatStore : chatStore[a] # <<>> /\ chatClock - Last(chatStore[a]) <= EvictAfter}

Post(r, a, q) ==
  LET window == IF a \in KeptAddresses THEN FreshAsks(a) ELSE <<>>
      allowed == Len(window) < ChatLimit
  IN
  /\ ask[r] = NotAsked
  /\ chatStore' = [b \in KeptAddresses \cup {a} |->
                     IF b # a THEN chatStore[b] ELSE IF allowed THEN Append(window, chatClock) ELSE window]
  /\ ask' = [ask EXCEPT ![r] = IF allowed THEN [at |-> "retrieve", question |-> q] ELSE [at |-> "429"]]
  /\ UNCHANGED <<chatClock, lastDocs, tokens>>

(* SafetyChatbot.ask after the retriever: the documents go into the field  *)
(* that every request shares, and the prompt is built from it at once.     *)
(* A retriever that fails leaves no documents.                             *)
Retrieve(r) ==
  /\ ask[r].at = "retrieve"
  /\ \E docs \in {Retrieved(ask[r].question), <<>>} :
       /\ lastDocs' = BoundedSources(docs)
       /\ ask' = [ask EXCEPT ![r] = [at |-> "model", question |-> @.question, context |-> BoundedSources(docs)]]
  /\ UNCHANGED <<chatClock, chatStore, tokens>>

(* ... and after the language model: what is in the field by now is cited *)
Answer(r) ==
  /\ ask[r].at = "model"
  /\ \E o \in Outcomes :
       /\ tokens' = tokens \cup ({AnsweredBy(o)} \ {"template"})
       /\ ask' = [ask EXCEPT ![r] =
                    [at |-> "200", question |-> @.question, context |-> @.context,
                     sources |-> lastDocs, modelUsed |-> ActiveModel]]
  /\ UNCHANGED <<chatClock, chatStore, lastDocs>>

(* wait_for gives up after 30 s, at whichever await the request is *)
GivesUpWaiting(r) ==
  /\ ask[r].at \in {"retrieve", "model"}
  /\ ask' = [ask EXCEPT ![r] = [at |-> "504"]]
  /\ UNCHANGED <<chatClock, chatStore, lastDocs, tokens>>

ChatTick ==
  /\ chatClock < LastChatTick /\ chatClock' = chatClock + 1
  /\ UNCHANGED <<chatStore, ask, lastDocs, tokens>>

ChatNext ==
  \/ \E r \in Asks :
       \/ \E a \in Addresses, q \in Questions : Post(r, a, q)
       \/ Retrieve(r) \/ Answer(r) \/ GivesUpWaiting(r)
  \/ ChatTick

ChatSpec == ChatInit /\ [][ChatNext]_chatVars

-----------------------------------------------------------------------------
(* What the endpoint says of its answer, "RAG answer with cited sources":  *)
(* the documents it cites are those the model answered from.               *)
CitesItsSources == \A r \in Asks : ask[r].at = "200" => ask[r].sources = ask[r].context
=============================================================================
