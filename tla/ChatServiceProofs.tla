-------------------------- MODULE ChatServiceProofs --------------------------
(* Whole turns, own context and the refinement of the store, for any number  *)
(* of customers, requests and conversations.  What makes them inductive is   *)
(* the ownership of what is in a log: every message in it is of a request    *)
(* that has had its turn there, and whose customer owns it.                  *)
EXTENDS ChatService, SequenceTheorems, TLAPS

\* A log holds messages only of its owner's requests, and of those whose turn
\* in it is over.
LogsOwned == \A f \in Refs : \A i \in DOMAIN messages[f] :
  /\ customer[messages[f][i][1]] = owner[f]
  /\ phase[messages[f][i][1]] \in {"answered", "failed", "lost"}

IInv == TypeOK /\ NoHalfTurn /\ LogsOwned /\ OwnContext /\ SequentialContext

-----------------------------------------------------------------------------
\* A log with one turn more: what was there, then the question, then the answer.
LEMMA PairAppended ==
  ASSUME NEW s \in Seq(Message), NEW r \in Requests
  PROVE  /\ s \o Pair(r) \in Seq(Message)
         /\ Len(s \o Pair(r)) = Len(s) + 2
         /\ \A i \in 1 .. Len(s) : (s \o Pair(r))[i] = s[i]
         /\ (s \o Pair(r))[Len(s) + 1] = <<r, "user">>
         /\ (s \o Pair(r))[Len(s) + 2] = <<r, "assistant">>
<1>1. <<r, "user">> \in Message /\ <<r, "assistant">> \in Message
  BY DEF Message
<1>2. Pair(r) \in Seq(Message) /\ Len(Pair(r)) = 2
      /\ Pair(r)[1] = <<r, "user">> /\ Pair(r)[2] = <<r, "assistant">>
  BY <1>1 DEF Pair
<1>3. PICK p : p = Pair(r)
  OBVIOUS
<1>4. p \in Seq(Message) /\ Len(p) = 2 /\ p[1] = <<r, "user">> /\ p[2] = <<r, "assistant">>
  BY <1>2, <1>3
<1>5. /\ s \o p \in Seq(Message) /\ Len(s \o p) = Len(s) + 2
      /\ \A i \in 1 .. Len(s) + 2 : (s \o p)[i] = IF i <= Len(s) THEN s[i] ELSE p[i - Len(s)]
  <2>1. p \in Seq(Message) /\ Len(p) = 2
    BY <1>4
  <2>2. /\ s \o p \in Seq(Message) /\ Len(s \o p) = Len(s) + Len(p)
        /\ \A i \in 1 .. Len(s) + Len(p) : (s \o p)[i] = IF i <= Len(s) THEN s[i] ELSE p[i - Len(s)]
    BY <2>1, ConcatProperties, Zenon
  <2> QED BY <2>1, <2>2
<1>6. Len(s) \in Nat /\ (Len(s) + 1) - Len(s) = 1 /\ (Len(s) + 2) - Len(s) = 2
  OBVIOUS
<1>7. (s \o p)[Len(s) + 1] = p[1] /\ (s \o p)[Len(s) + 2] = p[2]
  BY <1>5, <1>6
<1>8. \A i \in 1 .. Len(s) : (s \o p)[i] = s[i]
  BY <1>5, <1>6
<1> QED BY <1>3, <1>4, <1>5, <1>7, <1>8

\* Whose turn a log holds, before and after a turn is added.
LEMMA HoldsAfter ==
  ASSUME NEW s \in Seq(Message), NEW r \in Requests
  PROVE  \A q \in Requests :
           (\E i \in DOMAIN (s \o Pair(r)) : (s \o Pair(r))[i][1] = q)
             <=> q = r \/ \E i \in DOMAIN s : s[i][1] = q
<1> DEFINE t == s \o Pair(r)
<1>1. /\ Len(t) = Len(s) + 2 /\ DOMAIN t = 1 .. Len(s) + 2 /\ DOMAIN s = 1 .. Len(s) /\ Len(s) \in Nat
      /\ \A i \in 1 .. Len(s) : t[i] = s[i]
      /\ t[Len(s) + 1] = <<r, "user">> /\ t[Len(s) + 2] = <<r, "assistant">>
  BY PairAppended
<1> HIDE DEF t
<1>2. t[Len(s) + 1][1] = r /\ t[Len(s) + 2][1] = r
  BY <1>1
<1>3. \A i \in DOMAIN t : i \in DOMAIN s \/ i = Len(s) + 1 \/ i = Len(s) + 2
  BY <1>1
<1>4. \A i \in DOMAIN s : i \in DOMAIN t /\ t[i] = s[i]
  BY <1>1
<1>5. Len(s) + 1 \in DOMAIN t
  BY <1>1
<1>6. \A q : (\E i \in DOMAIN t : t[i][1] = q) <=> q = r \/ \E i \in DOMAIN s : s[i][1] = q
  BY <1>2, <1>3, <1>4, <1>5
<1> QED BY <1>6 DEF t

\* The new turn is whole, and every turn that was whole stays so.
LEMMA WholeAfter ==
  ASSUME NEW s \in Seq(Message), NEW r \in Requests, \A i \in DOMAIN s : s[i][1] # r
  PROVE  /\ WholeTurn(r, s \o Pair(r))
         /\ \A q \in Requests \ {r} : WholeTurn(q, s) => WholeTurn(q, s \o Pair(r))
<1> DEFINE t == s \o Pair(r)
<1>1. /\ Len(t) = Len(s) + 2 /\ DOMAIN t = 1 .. Len(s) + 2 /\ DOMAIN s = 1 .. Len(s) /\ Len(s) \in Nat
      /\ \A i \in 1 .. Len(s) : t[i] = s[i]
      /\ t[Len(s) + 1] = <<r, "user">> /\ t[Len(s) + 2] = <<r, "assistant">>
  BY PairAppended
<1> HIDE DEF t
<1>2. t[Len(s) + 1][1] = r /\ t[Len(s) + 2][1] = r
  BY <1>1
<1>3. \A i \in DOMAIN t : i \in DOMAIN s \/ i = Len(s) + 1 \/ i = Len(s) + 2
  BY <1>1
<1>4. WholeTurn(r, t)
  <2>1. \A j \in DOMAIN t : t[j][1] = r => j \in {Len(s) + 1, (Len(s) + 1) + 1}
    BY <1>1, <1>3
  <2>2. Len(s) + 1 \in DOMAIN t /\ (Len(s) + 1) + 1 \in DOMAIN t /\ (Len(s) + 1) + 1 = Len(s) + 2
    BY <1>1
  <2> QED BY <1>1, <2>1, <2>2 DEF WholeTurn
<1>5. ASSUME NEW q \in Requests \ {r}, WholeTurn(q, s) PROVE WholeTurn(q, t)
  <2>1. PICK i \in DOMAIN s :
          /\ i + 1 \in DOMAIN s /\ s[i] = <<q, "user">> /\ s[i + 1] = <<q, "assistant">>
          /\ \A j \in DOMAIN s : s[j][1] = q => j \in {i, i + 1}
    BY <1>5 DEF WholeTurn
  <2>2. i \in DOMAIN t /\ i + 1 \in DOMAIN t /\ t[i] = s[i] /\ t[i + 1] = s[i + 1]
    BY <1>1, <2>1
  <2>3. \A j \in DOMAIN t : t[j][1] = q => j \in {i, i + 1}
    BY <1>1, <1>2, <1>3, <2>1
  <2> QED BY <2>1, <2>2, <2>3 DEF WholeTurn
<1> QED BY <1>4, <1>5 DEF t

-----------------------------------------------------------------------------
LEMMA TypeStep ==
  ASSUME TypeOK, [Next]_vars
  PROVE  TypeOK'
<1> USE DEF TypeOK, Phases
<1>1. ASSUME NEW r \in Requests, NEW f \in Refs, NEW prior \in Seq(Message), Accept(r, f, prior),
             owner' \in [Refs -> Customers \cup {Nobody}], owner'[f] = customer[r],
             \A g \in Refs : owner[g] # Nobody => owner'[g] = owner[g],
             phase[r] = "unsent"
      PROVE  TypeOK'
  BY <1>1, NobodyAssumption DEF Accept
<1>2. ASSUME NEW r \in Requests, NEW how \in {"answered", "refused", "failed"}, End(r, how),
             messages' \in [Refs -> Seq(Message)], UNCHANGED owner,
             how = "answered" => phase[r] = "turn"
      PROVE  TypeOK'
  BY <1>2 DEF End
<1>3. \A r \in Requests :
        phase[r] = "turn" => [messages EXCEPT ![conv[r]] = @ \o Pair(r)] \in [Refs -> Seq(Message)]
  BY PairAppended
<1>4. CASE \E r \in Requests : Refuse(r) \/ StoreUnavailable(r) \/ TurnReturns(r) \/ TurnFails(r)
  BY <1>2, <1>3, <1>4 DEF Refuse, StoreUnavailable, TurnReturns, TurnFails
<1>5. ASSUME NEW r \in Requests, NEW f \in Refs, Resume(r, f)
      PROVE  TypeOK'
  BY <1>1, <1>5 DEF Resume, MayLoad, Loaded
<1>6. ASSUME NEW r \in Requests, NEW f \in Refs, NotFound(r, f)
      PROVE  TypeOK'
  BY <1>2, <1>6 DEF NotFound
<1>7. ASSUME NEW r \in Requests, NEW f \in Refs, Start(r, f)
      PROVE  TypeOK'
  <2>1. /\ phase[r] = "unsent" /\ Accept(r, f, << >>)
        /\ owner' \in [Refs -> Customers \cup {Nobody}] /\ owner'[f] = customer[r]
        /\ \A g \in Refs : owner[g] # Nobody => owner'[g] = owner[g]
    BY <1>7 DEF Start
  <2>2. << >> \in Seq(Message)
    OBVIOUS
  <2> QED BY <1>1, <2>1, <2>2
<1>8. CASE Crash
  <2>1. messages' \in [Refs -> Seq(Message)]
    BY <1>3, <1>8 DEF Crash
  <2>2. phase' \in [Requests -> Phases]
    BY <1>8 DEF Crash
  <2>3. \A r \in Requests : phase'[r] \in {"turn", "answered", "lost"}
          => phase[r] \in {"turn", "answered", "lost"}
    BY <1>8 DEF Crash
  <2> QED BY <1>8, <2>1, <2>2, <2>3 DEF Crash
<1>9. CASE AllSent \/ UNCHANGED vars
  BY <1>9 DEF AllSent, vars, requestVars
<1> QED BY <1>4, <1>5, <1>6, <1>7, <1>8, <1>9 DEF Next

\* StoredFor, by the places where a message of the request is.
LEMMA StoredAt == \A r, f : f \in StoredFor(r) <=>
  f \in Refs /\ \E i \in DOMAIN messages[f] : messages[f][i][1] = r
BY DEF StoredFor, ToSet

\* A step that stores nothing leaves what is stored whole and owned, if no
\* request that had its turn changes and no owner is replaced.
LEMMA NothingStored ==
  ASSUME TypeOK, NoHalfTurn, LogsOwned,
         UNCHANGED <<messages, customer>>,
         \A q \in Requests : phase'[q] # phase[q] => phase[q] \in {"unsent", "turn"} /\ phase'[q] # "answered",
         \A q \in Requests : conv'[q] # conv[q] => phase[q] = "unsent",
         \A f \in Refs : owner[f] # Nobody => owner'[f] = owner[f]
  PROVE  NoHalfTurn' /\ LogsOwned'
<1>1. \A r : StoredFor(r)' = StoredFor(r)
  BY DEF StoredFor
<1>2. NoHalfTurn'
  BY <1>1 DEF NoHalfTurn
<1>3. ASSUME NEW f \in Refs, NEW i \in DOMAIN messages[f]
      PROVE  /\ customer[messages[f][i][1]] = owner'[f]
             /\ phase'[messages[f][i][1]] \in {"answered", "failed", "lost"}
  <2>1. messages[f][i] \in Message
    BY DEF TypeOK
  <2>2. messages[f][i][1] \in Requests
    BY <2>1 DEF Message
  <2> PICK q : q = messages[f][i][1]
    OBVIOUS
  <2>3. q \in Requests /\ customer[q] = owner[f] /\ phase[q] \in {"answered", "failed", "lost"}
    BY <2>2 DEF LogsOwned
  <2>4. owner[f] # Nobody
    BY <2>3, NobodyAssumption DEF TypeOK
  <2> QED BY <2>3, <2>4
<1> QED BY <1>2, <1>3 DEF LogsOwned

\* A step that adds the turn of one request, which then is over.
LEMMA TurnStored ==
  ASSUME TypeOK, NoHalfTurn, LogsOwned,
         NEW r \in Requests, phase[r] = "turn", phase'[r] \in {"answered", "failed", "lost"},
         messages' = [messages EXCEPT ![conv[r]] = @ \o Pair(r)],
         UNCHANGED <<customer, conv, owner>>,
         \A q \in Requests \ {r} : phase'[q] = phase[q] \/ (phase[q] = "turn" /\ phase'[q] = "lost")
  PROVE  NoHalfTurn' /\ LogsOwned'
<1> DEFINE s == messages[conv[r]]
<1>1. s \in Seq(Message) /\ conv[r] \in Refs /\ owner[conv[r]] = customer[r]
  BY DEF TypeOK
<1>2. \A i \in DOMAIN s : s[i][1] # r
  BY <1>1, StoredAt DEF NoHalfTurn
<1>3. /\ messages'[conv[r]] = s \o Pair(r)
      /\ \A f \in Refs \ {conv[r]} : messages'[f] = messages[f]
  BY <1>1 DEF TypeOK
<1>4. \A q \in Requests : StoredFor(q)' = IF q = r THEN {conv[r]} ELSE StoredFor(q)
  <2>1. ASSUME NEW q \in Requests, NEW f \in Refs
        PROVE  f \in StoredFor(q)' <=> (f = conv[r] /\ q = r) \/ f \in StoredFor(q)
    <3>1. f \in StoredFor(q)' <=> \E i \in DOMAIN messages'[f] : messages'[f][i][1] = q
      BY DEF StoredFor, ToSet
    <3>2. CASE f = conv[r]
      <4>1. (\E i \in DOMAIN (s \o Pair(r)) : (s \o Pair(r))[i][1] = q)
              <=> q = r \/ \E i \in DOMAIN s : s[i][1] = q
        BY <1>1, HoldsAfter
      <4>2. messages'[f] = s \o Pair(r) /\ messages[f] = s
        BY <1>3, <3>2
      <4>3. f \in StoredFor(q) <=> \E i \in DOMAIN s : s[i][1] = q
        BY <4>2, StoredAt
      <4>4. f \in StoredFor(q)' <=> \E i \in DOMAIN (s \o Pair(r)) : (s \o Pair(r))[i][1] = q
        BY <3>1, <4>2, Zenon
      <4> QED BY <4>1, <4>3, <4>4, <3>2
    <3>3. CASE f # conv[r]
      BY <3>1, <3>3, <1>3, StoredAt
    <3> QED BY <3>2, <3>3
  <2>2. StoredFor(r) = {}
    BY DEF NoHalfTurn
  <2>3. \A q : StoredFor(q)' \subseteq Refs /\ StoredFor(q) \subseteq Refs
    BY DEF StoredFor
  <2> QED BY <2>1, <2>2, <2>3, <1>1
<1>5. NoHalfTurn'
  <2> SUFFICES ASSUME NEW q \in Requests
               PROVE  /\ phase'[q] = "answered" => StoredFor(q)' # {}
                      /\ phase'[q] \in {"unsent", "turn", "refused"} => StoredFor(q)' = {}
                      /\ \A f \in StoredFor(q)' : f = conv'[q] /\ WholeTurn(q, messages'[f])
    BY DEF NoHalfTurn
  <2>1. CASE q = r
    <3>1. StoredFor(q)' = {conv[r]} /\ phase'[q] \in {"answered", "failed", "lost"}
      BY <2>1, <1>4
    <3>2. WholeTurn(r, s \o Pair(r))
      BY <1>1, <1>2, WholeAfter
    <3>3. WholeTurn(q, messages'[conv[r]])
      BY <3>2, <2>1, <1>3
    <3> QED BY <3>1, <3>3, <2>1
  <2>2. CASE q # r
    <3>1. StoredFor(q)' = StoredFor(q)
      BY <2>2, <1>4
    <3>2. ASSUME NEW f \in StoredFor(q) PROVE f = conv[q] /\ WholeTurn(q, messages'[f])
      <4>1. f = conv[q] /\ WholeTurn(q, messages[f]) /\ f \in Refs
        BY DEF NoHalfTurn, StoredFor
      <4>2. CASE f = conv[r]
        BY <4>1, <4>2, <2>2, <1>1, <1>2, <1>3, WholeAfter
      <4> QED BY <4>1, <4>2, <1>3
    <3> QED BY <3>1, <3>2, <2>2 DEF NoHalfTurn
  <2> QED BY <2>1, <2>2
<1>6. LogsOwned'
  <2> SUFFICES ASSUME NEW f \in Refs, NEW i \in DOMAIN messages'[f]
               PROVE  /\ customer[messages'[f][i][1]] = owner[f]
                      /\ phase'[messages'[f][i][1]] \in {"answered", "failed", "lost"}
    BY DEF LogsOwned
  <2> PICK q : q = messages'[f][i][1]
    OBVIOUS
  <2>0. messages'[f] \in Seq(Message)
    BY <1>1, <1>3, PairAppended DEF TypeOK
  <2>1. q \in Requests
    <3>1. messages'[f][i] \in Message
      BY <2>0
    <3> QED BY <3>1 DEF Message
  <2>2. f \in StoredFor(q)'
    BY DEF StoredFor, ToSet
  <2>3. CASE q = r
    BY <2>1, <2>2, <2>3, <1>1, <1>4
  <2>4. CASE q # r
    <3>1. f \in StoredFor(q)
      BY <2>1, <2>2, <2>4, <1>4
    <3>2. PICK j \in DOMAIN messages[f] : messages[f][j][1] = q
      BY <3>1, StoredAt
    <3>3. customer[q] = owner[f] /\ phase[q] \in {"answered", "failed", "lost"}
      BY <3>2 DEF LogsOwned
    <3> QED BY <3>3, <2>1, <2>4
  <2> QED BY <2>3, <2>4
<1> QED BY <1>5, <1>6

-----------------------------------------------------------------------------
LEMMA LogsStep ==
  ASSUME TypeOK, NoHalfTurn, LogsOwned, [Next]_vars
  PROVE  NoHalfTurn' /\ LogsOwned'
<1>1. ASSUME NEW r \in Requests, NEW how \in {"refused", "failed"}, End(r, how),
             phase[r] \in {"unsent", "turn"}, UNCHANGED <<owner, messages>>
      PROVE  NoHalfTurn' /\ LogsOwned'
  <2>1. \A q \in Requests : phase'[q] # phase[q] => phase[q] \in {"unsent", "turn"} /\ phase'[q] # "answered"
    BY <1>1 DEF End, TypeOK
  <2> QED BY <1>1, <2>1, NothingStored DEF End
<1>2. ASSUME NEW r \in Requests, NEW f \in Refs, NEW prior, Accept(r, f, prior), phase[r] = "unsent",
             \A g \in Refs : owner[g] # Nobody => owner'[g] = owner[g]
      PROVE  NoHalfTurn' /\ LogsOwned'
  <2>1. \A q \in Requests : phase'[q] # phase[q] => phase[q] \in {"unsent", "turn"} /\ phase'[q] # "answered"
    BY <1>2 DEF Accept, TypeOK
  <2>2. \A q \in Requests : conv'[q] # conv[q] => phase[q] = "unsent"
    BY <1>2 DEF Accept, TypeOK
  <2> QED BY <1>2, <2>1, <2>2, NothingStored DEF Accept
<1>3. CASE \E r \in Requests : Refuse(r) \/ StoreUnavailable(r) \/ TurnFails(r)
  BY <1>1, <1>3 DEF Refuse, StoreUnavailable, TurnFails
<1>4. CASE \E r \in Requests, f \in Refs : Resume(r, f) \/ NotFound(r, f) \/ Start(r, f)
  BY <1>1, <1>2, <1>4 DEF Resume, NotFound, Start, TypeOK
<1>5. ASSUME NEW r \in Requests, TurnReturns(r)
      PROVE  NoHalfTurn' /\ LogsOwned'
  <2>1. \A q \in Requests \ {r} : phase'[q] = phase[q]
    BY <1>5 DEF TurnReturns, End, TypeOK
  <2>2. phase'[r] \in {"answered", "failed", "lost"}
    BY <1>5 DEF TurnReturns, End, TypeOK
  <2> QED BY <1>5, <2>1, <2>2, TurnStored DEF TurnReturns, End
<1>6. CASE Crash
  <2>1. \A q \in Requests : phase'[q] = IF phase[q] = "turn" THEN "lost" ELSE phase[q]
    BY <1>6 DEF Crash
  <2>2. CASE UNCHANGED messages
    BY <1>6, <2>1, <2>2, NothingStored DEF Crash
  <2>3. ASSUME NEW r \in Requests, phase[r] = "turn",
               messages' = [messages EXCEPT ![conv[r]] = @ \o Pair(r)]
        PROVE  NoHalfTurn' /\ LogsOwned'
    BY <1>6, <2>1, <2>3, TurnStored DEF Crash
  <2> QED BY <1>6, <2>2, <2>3 DEF Crash
<1>7. CASE AllSent \/ UNCHANGED vars
  BY <1>7, NothingStored DEF AllSent, vars, requestVars
<1> QED BY <1>3, <1>4, <1>5, <1>6, <1>7 DEF Next

\* What an accepted request is shown.
LEMMA ContextStep ==
  ASSUME TypeOK, NoHalfTurn, LogsOwned, OwnContext, SequentialContext, [Next]_vars
  PROVE  OwnContext' /\ SequentialContext'
<1>1. CASE UNCHANGED <<customer, history, answeredBefore>>
  BY <1>1 DEF OwnContext, SequentialContext
<1>2. ASSUME NEW r \in Requests, NEW f \in Refs, NEW prior, Accept(r, f, prior),
             \A m \in ToSet(prior) : customer[m[1]] = customer[r],
             \A q \in Requests : phase[q] = "answered" /\ conv[q] = f =>
               {<<q, "user">>, <<q, "assistant">>} \subseteq ToSet(prior)
      PROVE  OwnContext' /\ SequentialContext'
  <2>1. /\ history'[r] = prior
        /\ answeredBefore'[r] = {q \in Requests : phase[q] = "answered" /\ conv[q] = f}
        /\ \A p \in Requests \ {r} : history'[p] = history[p] /\ answeredBefore'[p] = answeredBefore[p]
        /\ UNCHANGED customer
    BY <1>2 DEF Accept, TypeOK
  <2>2. \A p \in Requests : \A m \in ToSet(history'[p]) : customer[m[1]] = customer[p]
    BY <1>2, <2>1 DEF OwnContext
  <2>3. \A p \in Requests : \A q \in answeredBefore'[p] :
          {<<q, "user">>, <<q, "assistant">>} \subseteq ToSet(history'[p])
    BY <1>2, <2>1 DEF SequentialContext
  <2> QED BY <2>1, <2>2, <2>3 DEF OwnContext, SequentialContext
<1>3. ASSUME NEW r \in Requests, NEW f \in Refs, Resume(r, f)
      PROVE  OwnContext' /\ SequentialContext'
  <2>1. owner[f] = customer[r] /\ Accept(r, f, messages[f])
    BY <1>3 DEF Resume, MayLoad, Loaded
  <2>2. \A m \in ToSet(messages[f]) : customer[m[1]] = customer[r]
    BY <2>1 DEF ToSet, LogsOwned
  <2>3. ASSUME NEW q \in Requests, phase[q] = "answered", conv[q] = f
        PROVE  {<<q, "user">>, <<q, "assistant">>} \subseteq ToSet(messages[f])
    <3>1. WholeTurn(q, messages[f])
      BY <2>3 DEF NoHalfTurn
    <3> QED BY <3>1 DEF WholeTurn, ToSet
  <2> QED BY <1>2, <2>1, <2>2, <2>3
<1>4. ASSUME NEW r \in Requests, NEW f \in Refs, Start(r, f)
      PROVE  OwnContext' /\ SequentialContext'
  <2>1. owner[f] = Nobody /\ Accept(r, f, << >>)
    BY <1>4 DEF Start
  <2>2. \A m : m \notin ToSet(<< >>)
    BY DEF ToSet
  <2>3. ASSUME NEW q \in Requests, phase[q] = "answered", conv[q] = f PROVE FALSE
    BY <2>1, <2>3, NobodyAssumption DEF TypeOK
  <2> QED BY <1>2, <2>1, <2>2, <2>3
<1>5. CASE \E r \in Requests : Refuse(r) \/ StoreUnavailable(r) \/ TurnReturns(r) \/ TurnFails(r)
  BY <1>1, <1>5 DEF Refuse, StoreUnavailable, TurnReturns, TurnFails, End
<1>6. CASE \E r \in Requests, f \in Refs : NotFound(r, f)
  BY <1>1, <1>6 DEF NotFound, End
<1>7. CASE Crash \/ AllSent \/ UNCHANGED vars
  BY <1>1, <1>7 DEF Crash, AllSent, vars, requestVars
<1> QED BY <1>3, <1>4, <1>5, <1>6, <1>7 DEF Next

LEMMA InvariantInit == Init => IInv
<1> SUFFICES ASSUME Init PROVE IInv
  OBVIOUS
<1>1. << >> \in Seq(Message) /\ DOMAIN << >> = {}
  OBVIOUS
<1>2. TypeOK
  BY <1>1 DEF Init, TypeOK, Phases
<1>3. \A f \in Refs : messages[f] = << >>
  BY DEF Init
<1>4. \A r \in Requests : StoredFor(r) = {}
  BY <1>1, <1>3, StoredAt DEF StoredFor
<1>5. NoHalfTurn
  BY <1>4 DEF NoHalfTurn, Init
<1>6. LogsOwned
  BY <1>1, <1>3 DEF LogsOwned
<1>7. OwnContext /\ SequentialContext
  BY <1>1 DEF Init, OwnContext, SequentialContext, ToSet
<1> QED BY <1>2, <1>5, <1>6, <1>7 DEF IInv

LEMMA Invariant == Spec => []IInv
<1>1. IInv /\ [Next]_vars => IInv'
  BY TypeStep, LogsStep, ContextStep DEF IInv
<1> QED BY <1>1, InvariantInit, PTL DEF Spec

\* The state is well typed, and a request's turn is in a conversation it owns.
THEOREM ServiceTyped == Spec => []TypeOK
<1>1. IInv => TypeOK
  BY DEF IInv
<1> QED BY <1>1, Invariant, PTL

\* Turns are stored whole and once in their own conversation, or not at all.
THEOREM TurnsAreWhole == Spec => []NoHalfTurn
<1>1. IInv => NoHalfTurn
  BY DEF IInv
<1> QED BY <1>1, Invariant, PTL

\* No model is ever shown what another customer said.
THEOREM ContextIsOwn == Spec => []OwnContext
<1>1. IInv => OwnContext
  BY DEF IInv
<1> QED BY <1>1, Invariant, PTL

\* Who waits for each answer is always answered with all earlier ones in view.
THEOREM ContextIsComplete == Spec => []SequentialContext
<1>1. IInv => SequentialContext
  BY DEF IInv
<1> QED BY <1>1, Invariant, PTL

-----------------------------------------------------------------------------
\* Every step of the service is a step of the store, or none.
LEMMA StoreStep ==
  ASSUME IInv, [Next]_vars
  PROVE  [Store!StoreNext]_(Store!storeVars)
<1>1. ASSUME NEW r \in Requests, phase[r] = "turn", UNCHANGED owner,
             messages' = [messages EXCEPT ![conv[r]] = @ \o Pair(r)]
      PROVE  Store!StoreNext
  <2>1. conv[r] \in Refs /\ owner[conv[r]] # Nobody
    BY <1>1, NobodyAssumption DEF IInv, TypeOK
  <2>2. \A g \in Refs : \A i \in DOMAIN messages[g] : messages[g][i][1] # r
    BY <1>1, StoredAt DEF IInv, NoHalfTurn
  <2>3. Pair(r) = Store!Turn(r)
    BY DEF Pair, Store!Turn
  <2>4. Store!AddTurn(r, conv[r])
    BY <1>1, <2>1, <2>2, <2>3 DEF Store!AddTurn
  <2> QED BY <2>1, <2>4 DEF Store!StoreNext
<1>2. ASSUME NEW r \in Requests, NEW f \in Refs, Start(r, f)
      PROVE  Store!StoreNext
  <2>1. Store!Create(customer[r], f) /\ customer[r] \in Customers
    BY <1>2 DEF Start, Accept, Store!Create, IInv, TypeOK
  <2> QED BY <2>1 DEF Store!StoreNext
<1>3. CASE \E r \in Requests : TurnReturns(r)
  BY <1>1, <1>3 DEF TurnReturns
<1>4. CASE \E r \in Requests : Refuse(r) \/ StoreUnavailable(r) \/ TurnFails(r)
  BY <1>4 DEF Refuse, StoreUnavailable, TurnFails, Store!storeVars
<1>5. CASE \E r \in Requests, f \in Refs : Resume(r, f) \/ NotFound(r, f)
  BY <1>5 DEF Resume, NotFound, Accept, Store!storeVars
<1>6. CASE Crash
  BY <1>1, <1>6 DEF Crash, Store!storeVars
<1>7. CASE AllSent \/ UNCHANGED vars
  BY <1>7 DEF AllSent, vars, Store!storeVars
<1> QED BY <1>2, <1>3, <1>4, <1>5, <1>6, <1>7 DEF Next

\* The service implements the store: owners for good, whole turns at the end.
THEOREM ServiceImplementsStore == Spec => ImplementsStore
<1>1. Init => Store!StoreInit
  BY DEF Init, Store!StoreInit
<1>2. IInv /\ [Next]_vars => [Store!StoreNext]_(Store!storeVars)
  BY StoreStep
<1> QED BY <1>1, <1>2, Invariant, PTL DEF Spec, ImplementsStore, Store!StoreSpec
=============================================================================
