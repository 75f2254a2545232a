-------------------------- MODULE MCSupervisorTurn --------------------------
(* Loops of at most two calls over one key of each kind.  Every draft with a *)
(* claim mentions the action vocabulary, as action_claims.py requires of it. *)
EXTENDS SupervisorTurn

MCDrafts == {[claim |-> "none", vocab |-> FALSE], [claim |-> "none", vocab |-> TRUE],
             [claim |-> "handoff", vocab |-> TRUE], [claim |-> "other", vocab |-> TRUE]}
=============================================================================
