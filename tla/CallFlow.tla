---- MODULE CallFlow ----
(***************************************************************************)
(* The simulated phone call, CallFlowService.handle and _handoff of        *)
(* src/voiceagents/agent/service.py: when a call is answered by a tool,    *)
(* and when it goes to a human.                                            *)
(*                                                                         *)
(* A call is its intent, whether the speech was understood (asr_confidence *)
(* at 0.6 or above), whether a human was asked for, and whether there is   *)
(* an order number and it was confirmed.  What the adapters answer is      *)
(* chosen freely.                                                          *)
(***************************************************************************)
EXTENDS Naturals, Sequences

CONSTANT OtherIntents  \* the intents the service does not know; any string is accepted

LookupOf == [order_status |-> "lookup_order", logistics_tracking |-> "lookup_logistics"]
Known == {"complaint", "return_exchange_refund", "order_status", "logistics_tracking", "product_usage"}

ASSUME IntentsAssumption == OtherIntents \cap Known = {}

VARIABLES
  call,     \* the call being handled
  step,     \* "triage", a tool being asked, "hand off", "resolved", "handed off"
  reason,   \* handoff_reason
  tools,    \* tools_called
  handoffs, \* history: how often the handoff adapter was called for this call
  context   \* history: tools_called of the last request to it

told == <<handoffs, context>>
vars == <<call, step, reason, tools, told>>

Calls == [intent : Known \cup OtherIntents, understood : BOOLEAN, wants_human : BOOLEAN,
          has_order : BOOLEAN, confirmed : BOOLEAN]
Asked == {"lookup_order", "lookup_logistics", "query_product_knowledge"}
Reasons == {"none", "low_asr_confidence", "customer_requests_human", "complaint_or_angry_customer",
            "refund_or_return_exception", "order_id_unconfirmed", "tool_error",
            "rag_low_confidence", "unsupported_intent"}
Done == step \in {"resolved", "handed off"}

-----------------------------------------------------------------------------

Init ==
  /\ call \in Calls
  /\ step = "triage" /\ reason = "none" /\ tools = <<>>
  /\ handoffs = 0 /\ context = <<>>

\* The reasons for which no tool is asked, in the order in which they are tried.
Triage(c) ==
  IF ~c.understood THEN "low_asr_confidence"
  ELSE IF c.wants_human THEN "customer_requests_human"
  ELSE CASE c.intent = "complaint" -> "complaint_or_angry_customer"
         [] c.intent = "return_exchange_refund" -> "refund_or_return_exception"
         [] c.intent \in DOMAIN LookupOf ->
              IF c.confirmed /\ c.has_order THEN "none" ELSE "order_id_unconfirmed"
         [] c.intent = "product_usage" -> "none"
         [] OTHER -> "unsupported_intent"

ToolOf(c) == IF c.intent \in DOMAIN LookupOf THEN LookupOf[c.intent] ELSE "query_product_knowledge"

HandOffWithout ==
  /\ step = "triage" /\ Triage(call) # "none"
  /\ step' = "hand off" /\ reason' = Triage(call)
  /\ UNCHANGED <<call, tools, told>>

AskTool_Unconfirmed ==  \* mutant: a number that was not confirmed is looked up
  /\ step = "triage" /\ Triage(call) \in {"none", "order_id_unconfirmed"}
  /\ step' = ToolOf(call) /\ tools' = <<ToolOf(call)>>
  /\ UNCHANGED <<call, reason, told>>

AskTool ==
  /\ step = "triage" /\ Triage(call) = "none"
  /\ step' = ToolOf(call) /\ tools' = <<ToolOf(call)>>
  /\ UNCHANGED <<call, reason, told>>

\* Whether the tool's response answers the caller.
Answers(tool, ok, recommended) ==
  ok /\ (tool = "query_product_knowledge" => ~recommended)

ToolResponds(ok, recommended) ==
  /\ step \in Asked
  /\ IF Answers(step, ok, recommended)
     THEN step' = "resolved" /\ reason' = "none"
     ELSE /\ step' = "hand off"
          /\ reason' = IF step = "query_product_knowledge" THEN "rag_low_confidence" ELSE "tool_error"
  /\ UNCHANGED <<call, tools, told>>

HandOff_LateContext ==  \* mutant: the request names the handoff among the tools called before
  /\ step = "hand off"
  /\ step' = "handed off"
  /\ tools' = Append(tools, "handoff_to_human")
  /\ handoffs' = handoffs + 1 /\ context' = tools'
  /\ UNCHANGED <<call, reason>>

\* _handoff: the adapter's answer does not change the outcome.
HandOff ==
  /\ step = "hand off"
  /\ step' = "handed off"
  /\ handoffs' = handoffs + 1 /\ context' = tools
  /\ tools' = Append(tools, "handoff_to_human")
  /\ UNCHANGED <<call, reason>>

\* The next call, of any kind: the service keeps nothing of the last one.
NextCall ==
  /\ Done
  /\ call' \in Calls
  /\ step' = "triage" /\ reason' = "none" /\ tools' = <<>>
  /\ handoffs' = 0 /\ context' = <<>>

Next ==
  \/ HandOffWithout \/ AskTool \/ HandOff \/ NextCall
  \/ \E ok, recommended \in BOOLEAN : ToolResponds(ok, recommended)

Spec == Init /\ [][Next]_vars

-----------------------------------------------------------------------------
(* Properties *)

\* The call and its outcome have their types.
TypeOK ==
  /\ call \in Calls
  /\ step \in Asked \cup {"triage", "hand off", "resolved", "handed off"}
  /\ reason \in Reasons
  /\ tools \in Seq(Asked \cup {"handoff_to_human"}) /\ Len(tools) <= 2
  /\ handoffs \in Nat
  /\ context \in Seq(Asked \cup {"handoff_to_human"})

\* docs/contracts/handoff-rules.md, "Mandatory Handoff Triggers": what must go to
\* a human whatever a tool would say.
Mandatory(c) ==
  \/ ~c.understood \/ c.wants_human
  \/ c.intent \notin {"order_status", "logistics_tracking", "product_usage"}
  \/ c.intent \in {"order_status", "logistics_tracking"} /\ ~(c.confirmed /\ c.has_order)

\* A call that must go to a human does, without a tool having been asked for it:
\* above all no order is looked up by a number the caller did not confirm.
MandatoryHandoff ==
  Mandatory(call) =>
    /\ step \in {"triage", "hand off", "handed off"}
    /\ \A i \in 1..Len(tools) : tools[i] = "handoff_to_human"

\* A resolved call was resolved by the one tool its intent has, no human was
\* involved; any other finished call was handed over once, with a reason, and the
\* human was told exactly which tools had been asked.
HandoffContext ==
  /\ step = "resolved" => reason = "none" /\ handoffs = 0 /\ tools = <<ToolOf(call)>>
  /\ step = "handed off" =>
       /\ reason # "none"
       /\ handoffs = 1
       /\ tools = Append(context, "handoff_to_human")
       /\ reason \in {"tool_error", "rag_low_confidence"} <=> context = <<ToolOf(call)>>

====
