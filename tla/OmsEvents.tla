------------------------------ MODULE OmsEvents ------------------------------
(***************************************************************************)
(* The event types of the OMS ledger that force a data sync before their   *)
(* append returns (IsCriticalEventType in HeptaTrade/oms_journal.cpp).     *)
(***************************************************************************)

CriticalEventTypes ==
    { "order_intent", "place_send_attempt", "flatten_intent",
      "flatten_send_attempt", "cancel_send_attempt", "place_sent",
      "place_activated", "flatten_sent", "flatten_noop", "flatten_reject",
      "flatten_outcome_uncertain", "place_outcome_uncertain", "status",
      "cancel", "reject", "risk_blocked", "account_new_entry_fenced",
      "session_owner_fenced", "session_owner_fence_release",
      "order_owner_reconciled_terminal", "execution_projection_failed",
      "execution_projection_resolved", "execution_command_resolved",
      "cancel_command_resolved", "broker_order_status",
      "broker_order_accepted", "broker_error", "broker_execution",
      "broker_commission", "broker_completed_order",
      "broker_completed_orders_end", "broker_execution_details_end" }

IsCriticalEventType(t) == t \in CriticalEventTypes
=============================================================================
