-------------------------- MODULE ConversationStore --------------------------
(***************************************************************************)
(* What api/conversations.py promises its caller, seen from outside: a     *)
(* conversation has one owner for good, and its messages are a log to      *)
(* which a whole turn, a question and its answer, is added at a time, each *)
(* request's at most once.                                                 *)
(***************************************************************************)
EXTENDS Sequences

CONSTANTS
  Customers,
  Requests,
  Refs,     \* conversation_refs
  Nobody

VARIABLES
  owner,    \* the customer a ref belongs to, Nobody while it is not in use
  log       \* its messages, oldest first

storeVars == <<owner, log>>

Turn(r) == << <<r, "user">>, <<r, "assistant">> >>

StoreInit ==
  /\ owner = [f \in Refs |-> Nobody]
  /\ log = [f \in Refs |-> << >>]

Create(c, f) ==
  /\ owner[f] = Nobody
  /\ owner' = [owner EXCEPT ![f] = c]
  /\ UNCHANGED log

AddTurn(r, f) ==
  /\ owner[f] # Nobody
  /\ \A g \in Refs : \A i \in DOMAIN log[g] : log[g][i][1] # r
  /\ log' = [log EXCEPT ![f] = @ \o Turn(r)]
  /\ UNCHANGED owner

StoreNext == \E f \in Refs :
  \/ \E c \in Customers : Create(c, f)
  \/ \E r \in Requests : AddTurn(r, f)

StoreSpec == StoreInit /\ [][StoreNext]_storeVars
=============================================================================
