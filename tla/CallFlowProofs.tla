---- MODULE CallFlowProofs ----
(* The handoff rules of CallFlow, for any set of unknown intents. *)
EXTENDS CallFlow, TLAPS

\* What is known between two steps of a call: a tool is asked only when nothing
\* forbade it, and a handoff under way carries the tool that failed, if any.
UnderWay ==
  /\ step = "triage" => tools = <<>> /\ handoffs = 0 /\ reason = "none"
  /\ step \in Asked => /\ Triage(call) = "none" /\ step = ToolOf(call)
                       /\ tools = <<ToolOf(call)>> /\ handoffs = 0 /\ reason = "none"
  /\ step = "hand off" =>
       /\ handoffs = 0 /\ reason # "none"
       /\ \/ tools = <<>> /\ reason \notin {"tool_error", "rag_low_confidence"}
          \/ /\ tools = <<ToolOf(call)>> /\ Triage(call) = "none"
             /\ reason \in {"tool_error", "rag_low_confidence"}
  /\ step = "resolved" => Triage(call) = "none"

IInv == TypeOK /\ MandatoryHandoff /\ HandoffContext /\ UnderWay

\* The triage gives a reason to every call that must go to a human, and to no
\* other; it never gives one of the two reasons that tell of a tool's answer.
LEMMA TriageIsMandatory ==
  ASSUME NEW c \in Calls
  PROVE  /\ Mandatory(c) <=> Triage(c) # "none"
         /\ Triage(c) \in Reasons \ {"tool_error", "rag_low_confidence"}
         /\ ToolOf(c) \in Asked
<1>1. /\ c.intent \in Known \cup OtherIntents
      /\ c.understood \in BOOLEAN /\ c.wants_human \in BOOLEAN
      /\ c.has_order \in BOOLEAN /\ c.confirmed \in BOOLEAN
  BY DEF Calls
<1>2. DOMAIN LookupOf = {"order_status", "logistics_tracking"}
  BY DEF LookupOf
<1>3. /\ LookupOf["order_status"] = "lookup_order"
      /\ LookupOf["logistics_tracking"] = "lookup_logistics"
  BY DEF LookupOf
<1>4. ToolOf(c) \in Asked
  BY <1>2, <1>3 DEF ToolOf, Asked
<1>5. Triage(c) \in Reasons \ {"tool_error", "rag_low_confidence"}
  BY <1>1, <1>2 DEF Triage, Reasons
<1>6. Mandatory(c) <=> Triage(c) # "none"
  BY <1>1, <1>2 DEF Mandatory, Triage
<1> QED BY <1>4, <1>5, <1>6

\* The strengthened invariant holds when a call begins.
LEMMA CallInit == Init => IInv
  BY DEF Init, IInv, TypeOK, MandatoryHandoff, HandoffContext, UnderWay, Asked, Reasons

\* Each step of CallFlowService.handle and _handoff preserves it, one case per
\* action.
LEMMA CallStep == IInv /\ [Next]_vars => IInv'
<1> SUFFICES ASSUME IInv, [Next]_vars PROVE IInv'
  OBVIOUS
<1> USE DEF IInv
<1>t. /\ call \in Calls
      /\ Mandatory(call) <=> Triage(call) # "none"
      /\ Triage(call) \in Reasons \ {"tool_error", "rag_low_confidence"}
      /\ ToolOf(call) \in Asked
  BY TriageIsMandatory DEF TypeOK
<1>u. ASSUME call' = call
      PROVE  /\ Mandatory(call)' <=> Mandatory(call)
             /\ Triage(call)' = Triage(call) /\ ToolOf(call)' = ToolOf(call)
  BY <1>u DEF Mandatory, Triage, ToolOf
<1>1. CASE HandOffWithout
  BY <1>1, <1>t, <1>u DEF HandOffWithout, told, TypeOK, MandatoryHandoff, HandoffContext, UnderWay, Asked
<1>2. CASE AskTool
  <2>1. step' = ToolOf(call) /\ step' \in Asked /\ tools' = <<ToolOf(call)>> /\ call' = call
        /\ reason' = "none" /\ handoffs' = 0 /\ ~Mandatory(call) /\ Triage(call) = "none"
        /\ context' = context /\ context \in Seq(Asked \cup {"handoff_to_human"})
    BY <1>2, <1>t DEF AskTool, UnderWay, TypeOK, told
  <2>2. tools' \in Seq(Asked \cup {"handoff_to_human"}) /\ Len(tools') <= 2
    BY <2>1, <1>t
  <2>3. TypeOK'
    BY <2>1, <2>2, <1>t DEF TypeOK, Asked, Reasons
  <2>4. MandatoryHandoff' /\ HandoffContext' /\ UnderWay'
    BY <2>1, <1>t, <1>u DEF MandatoryHandoff, HandoffContext, UnderWay, Asked
  <2> QED BY <2>3, <2>4
<1>3. CASE \E ok, recommended \in BOOLEAN : ToolResponds(ok, recommended)
  <2>1. PICK ok \in BOOLEAN, recommended \in BOOLEAN : ToolResponds(ok, recommended)
    BY <1>3
  <2>2. /\ step = ToolOf(call) /\ tools = <<ToolOf(call)>> /\ handoffs = 0
        /\ Triage(call) = "none" /\ ~Mandatory(call)
    BY <2>1, <1>t DEF ToolResponds, UnderWay
  <2>3. UNCHANGED <<call, tools, told>>
    BY <2>1 DEF ToolResponds
  <2>4. CASE Answers(step, ok, recommended)
    <3>1. step' = "resolved" /\ reason' = "none"
      BY <2>1, <2>4 DEF ToolResponds
    <3> QED BY <3>1, <2>2, <2>3, <1>t, <1>u DEF told, TypeOK, MandatoryHandoff, HandoffContext, UnderWay, Asked, Reasons
  <2>5. CASE ~Answers(step, ok, recommended)
    <3>1. step' = "hand off" /\ reason' \in {"tool_error", "rag_low_confidence"}
      BY <2>1, <2>5 DEF ToolResponds
    <3> QED BY <3>1, <2>2, <2>3, <1>t, <1>u DEF told, TypeOK, MandatoryHandoff, HandoffContext, UnderWay, Asked, Reasons
  <2> QED BY <2>4, <2>5
<1>4. CASE HandOff
  <2>1. tools' = Append(tools, "handoff_to_human") /\ tools \in Seq(Asked \cup {"handoff_to_human"})
    BY <1>4, Zenon DEF HandOff, TypeOK
  <2>2. step = "hand off" /\ step' = "handed off" /\ context' = tools /\ call' = call /\ reason' = reason
    BY <1>4, Zenon DEF HandOff
  <2>3. handoffs = 0 /\ handoffs' = handoffs + 1 /\ reason # "none" /\ reason \in Reasons
    BY <1>4, Zenon DEF HandOff, UnderWay, TypeOK
  <2>4. handoffs' = 1
    BY <2>3
  <2>5. tools' \in Seq(Asked \cup {"handoff_to_human"}) /\ Len(tools') = Len(tools) + 1
    BY <2>1
  <2>6. context' \in Seq(Asked \cup {"handoff_to_human"}) /\ tools' = Append(context', "handoff_to_human")
    BY <2>1, <2>2, Zenon
  <2>7. UnderWay'
    BY <2>2 DEF UnderWay, Asked
  <2>8. \/ tools = <<>> /\ reason \notin {"tool_error", "rag_low_confidence"}
        \/ /\ tools = <<ToolOf(call)>> /\ Triage(call) = "none"
           /\ reason \in {"tool_error", "rag_low_confidence"}
    BY <2>2, Zenon DEF UnderWay
  <2>9. Len(tools) <= 1
    BY <2>8
  <2>10. TypeOK'
    <3>1. Len(tools') <= 2
      BY <2>5, <2>9, <2>1
    <3>2. call' \in Calls /\ reason' \in Reasons
      BY <2>2, <2>3, <1>t, Zenon
    <3>3. handoffs' \in Nat
      BY <2>4
    <3> QED BY <3>1, <3>2, <3>3, <2>2, <2>5, <2>6, Zenon DEF TypeOK
  <2>11. HandoffContext'
    <3>1. reason \in {"tool_error", "rag_low_confidence"} <=> tools = <<ToolOf(call)>>
      <4>1. <<>> # <<ToolOf(call)>>
        OBVIOUS
      <4> QED BY <2>8, <4>1, Zenon
    <3>2. reason' \in {"tool_error", "rag_low_confidence"} <=> context' = <<ToolOf(call)'>>
      BY <3>1, <2>2, <1>u, Zenon
    <3>3. step' # "resolved" /\ reason' # "none"
      BY <2>2, <2>3
    <3> QED BY <3>2, <3>3, <2>4, <2>6, Zenon DEF HandoffContext
  <2>12. MandatoryHandoff'
    <3>1. SUFFICES ASSUME Mandatory(call) PROVE \A k \in 1..Len(tools') : tools'[k] = "handoff_to_human"
      BY <2>2, <1>u DEF MandatoryHandoff
    <3>2. tools = <<>>
      BY <3>1, <2>8, <1>t
    <3> QED BY <3>2, <2>1
  <2> QED BY <2>7, <2>10, <2>11, <2>12
<1>5. CASE NextCall
  <2>1. call' \in Calls /\ step' = "triage" /\ reason' = "none" /\ tools' = <<>> /\ handoffs' = 0
    BY <1>5 DEF NextCall
  <2>2. context' = <<>>
    BY <1>5 DEF NextCall
  <2>3. context' \in Seq(Asked \cup {"handoff_to_human"})
    BY <2>2
  <2>4. tools' \in Seq(Asked \cup {"handoff_to_human"}) /\ Len(tools') = 0
    BY <2>1
  <2>5. handoffs' \in Nat /\ Len(tools') <= 2
    BY <2>1, <2>4
  <2>6. "none" \in Reasons
    BY DEF Reasons
  <2>7. TypeOK'
    BY <2>1, <2>3, <2>4, <2>5, <2>6, Zenon DEF TypeOK
  <2>8. \A k \in 1..Len(tools') : tools'[k] = "handoff_to_human"
    BY <2>4
  <2>9. MandatoryHandoff'
    BY <2>1, <2>8, Zenon DEF MandatoryHandoff
  <2>10. HandoffContext' /\ UnderWay'
    BY <2>1 DEF HandoffContext, UnderWay, Asked
  <2> QED BY <2>7, <2>9, <2>10
<1>6. CASE UNCHANGED vars
  BY <1>6, <1>u DEF vars, told, TypeOK, MandatoryHandoff, HandoffContext, UnderWay, Asked
<1> QED BY <1>1, <1>2, <1>3, <1>4, <1>5, <1>6 DEF Next

\* So it holds in every state of a call.
LEMMA CallInvariant == Spec => []IInv
<1> QED BY CallInit, CallStep, PTL DEF Spec

\* The call and its outcome always have their types (CallFlowService.handle).
THEOREM CallTypes == Spec => []TypeOK
<1> QED BY CallInvariant, PTL DEF IInv

\* A call that must go to a human goes there without a tool being asked: the
\* order of the tests in CallFlowService.handle, for any intent a caller may have.
THEOREM CallMandatoryHandoff == Spec => []MandatoryHandoff
<1> QED BY CallInvariant, PTL DEF IInv

\* The human who takes a call over was told of exactly the tools that were asked
\* (CallFlowService._handoff).
THEOREM CallHandoffContext == Spec => []HandoffContext
<1> QED BY CallInvariant, PTL DEF IInv
====
