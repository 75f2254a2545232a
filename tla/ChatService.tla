----------------------------- MODULE ChatService -----------------------------
(***************************************************************************)
(* POST /chat of api/app.py with api/auth.py and api/conversations.py: many *)
(* requests, one worker process.                                           *)
(*                                                                         *)
(* chat() suspends only in run_turn.  Everything before it (identity, rate *)
(* limit, loading or creating the conversation) is one step of the event   *)
(* loop, and so is everything after it (storing the turn, the response);   *)
(* steps of different requests interleave.  The process may die and be     *)
(* restarted: the database keeps what was committed.                       *)
(***************************************************************************)
EXTENDS Sequences, SequencesExt

CONSTANTS
  Customers,
  Requests,   \* bound: the requests clients will send
  Refs,       \* conversation_refs: those handed out and those a client makes up
  Nobody

ASSUME NobodyAssumption == Nobody \notin Customers

VARIABLES
  phase,      \* "unsent", "turn", "answered", "refused", "failed", "lost"
  customer,   \* the verified token's subject
  conv,       \* the conversation the turn belongs to
  history,    \* prior_messages
  owner,      \* conversations: customer_id by conversation_ref
  messages,   \* conversation_messages by conversation_ref, in id order
  answeredBefore   \* history: requests of conv already answered at acceptance

requestVars == <<phase, customer, conv, history, answeredBefore>>
vars == <<requestVars, owner, messages>>

Phases == {"unsent", "turn", "answered", "refused", "failed", "lost"}
Message == Requests \X {"user", "assistant"}

Init ==
  /\ phase = [r \in Requests |-> "unsent"]
  /\ customer \in [Requests -> Customers]
  /\ conv \in [Requests -> Refs]
  /\ history = [r \in Requests |-> << >>]
  /\ owner = [f \in Refs |-> Nobody]
  /\ messages = [f \in Refs |-> << >>]
  /\ answeredBefore = [r \in Requests |-> {}]

-----------------------------------------------------------------------------
\* load_conversation, under the caller's scope: another customer's ref and a
\* ref that does not exist are the same.
MayLoad_AnyOwner(r, f) == owner[f] # Nobody
MayLoad(r, f) == owner[f] = customer[r]

Loaded_LosesLast(f) == IF messages[f] = << >> THEN << >> ELSE Front(messages[f])
Loaded(f) == messages[f]

\* run_turn is entered with what was loaded and the new message.
Accept_StoresQuestion(r, f, prior) ==
  /\ phase' = [phase EXCEPT ![r] = "turn"]
  /\ conv' = [conv EXCEPT ![r] = f]
  /\ history' = [history EXCEPT ![r] = prior]
  /\ answeredBefore' =
       [answeredBefore EXCEPT ![r] = {q \in Requests : phase[q] = "answered" /\ conv[q] = f}]
  /\ messages' = [messages EXCEPT ![f] = Append(@, <<r, "user">>)]
  /\ UNCHANGED customer
Accept(r, f, prior) ==
  /\ phase' = [phase EXCEPT ![r] = "turn"]
  /\ conv' = [conv EXCEPT ![r] = f]
  /\ history' = [history EXCEPT ![r] = prior]
  /\ answeredBefore' =
       [answeredBefore EXCEPT ![r] = {q \in Requests : phase[q] = "answered" /\ conv[q] = f}]
  /\ UNCHANGED <<customer, messages>>

End(r, how) ==
  /\ phase' = [phase EXCEPT ![r] = how]
  /\ UNCHANGED <<customer, conv, history, answeredBefore>>

\* No valid token (401) or over a rate limit (429): nothing is read or written.
Refuse(r) ==
  /\ phase[r] = "unsent"
  /\ End(r, "refused")
  /\ UNCHANGED <<owner, messages>>

Resume(r, f) ==
  /\ phase[r] = "unsent"
  /\ MayLoad(r, f)
  /\ Accept(r, f, Loaded(f))
  /\ UNCHANGED owner

NotFound(r, f) ==
  /\ phase[r] = "unsent"
  /\ ~MayLoad(r, f)
  /\ End(r, "refused")
  /\ UNCHANGED <<owner, messages>>

\* create_conversation: a transaction of its own under a new random ref.
Start(r, f) ==
  /\ phase[r] = "unsent"
  /\ owner[f] = Nobody
  /\ owner' = [owner EXCEPT ![f] = customer[r]]
  /\ Accept(r, f, << >>)

\* The database fails while the conversation is loaded or created.
StoreUnavailable(r) ==
  /\ phase[r] = "unsent"
  /\ End(r, "failed")
  /\ UNCHANGED <<owner, messages>>

-----------------------------------------------------------------------------
Pair_AnswerOnly(r) == << <<r, "assistant">> >>
Pair(r) == << <<r, "user">>, <<r, "assistant">> >>

\* append_messages in one transaction, then the response; a response that does
\* not fit ChatResponse (a tool without a name) fails after the commit.
TurnReturns(r) ==
  /\ phase[r] = "turn"
  /\ messages' = [messages EXCEPT ![conv[r]] = @ \o Pair(r)]
  /\ \/ End(r, "answered")
     \/ End(r, "failed")
  /\ UNCHANGED owner

\* get_llm_provider or run_turn raises, or append_messages rolls back.
TurnFails(r) ==
  /\ phase[r] = "turn"
  /\ End(r, "failed")
  /\ UNCHANGED <<owner, messages>>

\* The process dies with every request it was serving; one of them may have
\* committed its turn and not yet sent its response.
Crash ==
  /\ \E r \in Requests : phase[r] = "turn"
  /\ phase' = [r \in Requests |-> IF phase[r] = "turn" THEN "lost" ELSE phase[r]]
  /\ \/ UNCHANGED messages
     \/ \E r \in Requests :
          /\ phase[r] = "turn"
          /\ messages' = [messages EXCEPT ![conv[r]] = @ \o Pair(r)]
  /\ UNCHANGED <<customer, conv, history, answeredBefore, owner>>

AllSent ==
  /\ \A r \in Requests : phase[r] \notin {"unsent", "turn"}
  /\ UNCHANGED vars

Next ==
  \/ \E r \in Requests :
       \/ Refuse(r) \/ StoreUnavailable(r) \/ TurnReturns(r) \/ TurnFails(r)
       \/ \E f \in Refs : Resume(r, f) \/ NotFound(r, f) \/ Start(r, f)
  \/ Crash
  \/ AllSent

Spec == Init /\ [][Next]_vars

-----------------------------------------------------------------------------
\* Only an accepted request has a history, and its conversation is its own.
TypeOK ==
  /\ phase \in [Requests -> Phases]
  /\ customer \in [Requests -> Customers]
  /\ conv \in [Requests -> Refs]
  /\ history \in [Requests -> Seq(Message)]
  /\ owner \in [Refs -> Customers \cup {Nobody}]
  /\ messages \in [Refs -> Seq(Message)]
  /\ answeredBefore \in [Requests -> SUBSET Requests]
  /\ \A r \in Requests : phase[r] \in {"turn", "answered", "lost"} => owner[conv[r]] = customer[r]

StoredFor(r) == {f \in Refs : \E m \in ToSet(messages[f]) : m[1] = r}

\* In s, r's question is followed at once by r's answer, and nothing else is r's.
WholeTurn(r, s) == \E i \in DOMAIN s :
  /\ i + 1 \in DOMAIN s
  /\ s[i] = <<r, "user">> /\ s[i + 1] = <<r, "assistant">>
  /\ \A j \in DOMAIN s : s[j][1] = r => j \in {i, i + 1}

\* A turn is stored whole, once and in its own conversation, or not at all: an
\* answered request is stored, and one that was refused or is still running is
\* not.  (One that died with the process may be either.)
NoHalfTurn == \A r \in Requests :
  /\ phase[r] = "answered" => StoredFor(r) # {}
  /\ phase[r] \in {"unsent", "turn", "refused"} => StoredFor(r) = {}
  /\ \A f \in StoredFor(r) : f = conv[r] /\ WholeTurn(r, messages[f])

\* What a model is shown as earlier conversation was said by this customer.
OwnContext == \A r \in Requests :
  \A m \in ToSet(history[r]) : customer[m[1]] = customer[r]

\* A client that waits for each answer before it asks again is always answered
\* with everything it was told before in view.
SequentialContext == \A r \in Requests : \A q \in answeredBefore[r] :
  {<<q, "user">>, <<q, "assistant">>} \subseteq ToSet(history[r])

Store == INSTANCE ConversationStore WITH log <- messages

\* The service implements the store: owners for good, whole turns at the end.
ImplementsStore == Store!StoreSpec
=============================================================================
