-------------------------- MODULE CommerceStateMachine --------------------------
(***************************************************************************)
(* The state machine every purchase goes through (commerce/state.py):      *)
(* what CommerceStateMachine.transition_to accepts.  CommerceRunner is     *)
(* shown to implement it, i.e. never to make it raise                      *)
(* InvalidStateTransitionError.                                            *)
(***************************************************************************)
VARIABLE state

CommerceState ==
    {"INTENT_RECEIVED", "DISCOVERY", "EVALUATION", "SELECTION", "CART_CREATED", "PRECHECK",
     "READY_FOR_PAYMENT", "PAYMENT", "PAYMENT_PENDING", "PAYMENT_SUCCEEDED", "PAYMENT_FAILED",
     "AMBIGUOUS_REMOTE_STATE", "RECONCILIATION_REQUIRED", "RECOVERED_SUCCESS", "COMPLETED",
     "ABORTED"}

VALID_TRANSITIONS ==
    [INTENT_RECEIVED         |-> {"DISCOVERY", "ABORTED"},
     DISCOVERY               |-> {"EVALUATION", "ABORTED"},
     EVALUATION              |-> {"SELECTION", "ABORTED"},
     SELECTION               |-> {"CART_CREATED", "ABORTED"},
     CART_CREATED            |-> {"PRECHECK", "ABORTED"},
     PRECHECK                |-> {"READY_FOR_PAYMENT", "ABORTED"},
     READY_FOR_PAYMENT       |-> {"PAYMENT", "ABORTED"},
     PAYMENT                 |-> {"PAYMENT_PENDING", "ABORTED", "AMBIGUOUS_REMOTE_STATE"},
     PAYMENT_PENDING         |-> {"PAYMENT_SUCCEEDED", "PAYMENT_FAILED", "ABORTED"},
     PAYMENT_SUCCEEDED       |-> {"COMPLETED", "RECONCILIATION_REQUIRED"},
     PAYMENT_FAILED          |-> {"ABORTED", "RECONCILIATION_REQUIRED"},
     AMBIGUOUS_REMOTE_STATE  |-> {"RECONCILIATION_REQUIRED", "ABORTED"},
     RECONCILIATION_REQUIRED |-> {"RECOVERED_SUCCESS", "ABORTED"},
     RECOVERED_SUCCESS       |-> {"COMPLETED"},
     COMPLETED               |-> {},
     ABORTED                 |-> {}]

Init == state = "INTENT_RECEIVED"

Next == state' \in VALID_TRANSITIONS[state]

Spec == Init /\ [][Next]_state
=============================================================================
