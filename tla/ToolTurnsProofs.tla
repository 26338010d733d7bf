---- MODULE ToolTurnsProofs ----
(***************************************************************************)
(* Proofs about ToolTurns for any number of calls, turns and connections:  *)
(* the page's two flags keep in step with the provider, and no tool output *)
(* is forgotten.                                                           *)
(***************************************************************************)
EXTENDS ToolTurns, TLAPS

\* The signs in `s` of a response that begins, goes on or ends, and the requests
\* for one.
Signals(s) == {i \in 1..Len(s) : s[i].type # "error"}
Creates(s) == {i \in 1..Len(s) : s[i].type = "create"}
LastSignal(i, s) == i \in Signals(s) /\ \A j \in Signals(s) : j <= i

\* Only an open channel carries anything, and a flag is set only after one.
Empty ==
  /\ channel # "open" => down = <<>> /\ up = <<>> /\ ~active
  /\ channel \in {"none", "starting", "connecting"} => ~in_progress

\* What the page will have learnt of the provider when it has read its messages.
Agreed ==
  channel = "open" =>
    /\ \A i \in Signals(down) : LastSignal(i, down) => (active <=> down[i].type # "done")
    /\ Signals(down) = {} =>
         (active => in_progress) /\ (in_progress => active \/ Creates(up) # {})

\* The calls of a session that is not connected yet are of an earlier one.
Asked ==
  \A c \in Calls :
    /\ asked[c] <= connection
    /\ channel \in {"starting", "connecting"} => asked[c] < connection

\* A queued response.create waits for a response, or for an output of an earlier
\* session.
Queued ==
  /\ channel \in {"starting", "connecting"} /\ pending => mixed
  /\ PendingIsFlushed

\* While the user has interrupted nothing.
Alternate ==
  ~interrupted =>
    /\ ~refused
    /\ \A i, j \in Creates(up) : i = j
    /\ Creates(up) # {} => ~active /\ Signals(down) = {} /\ in_progress
    /\ \A i, j \in Signals(down) : i < j => down[i].type # "done"
    /\ Signals(down) # {} /\ ~in_progress => \A c \in Calls : step[c] \notin Waiting

\* InProgressAgrees needs Agreed, which also looks at what is under way;
\* NoRefusedCreate needs Agreed and Alternate, PendingIsFlushed needs Asked.
IInv == TypeOK /\ Empty /\ Agreed /\ Asked /\ Queued /\ Alternate

-----------------------------------------------------------------------------
(* The queues *)

\* Sending an event.
LEMMA SignalsAppend ==
  ASSUME NEW s \in Seq(Events), NEW e \in Events
  PROVE  /\ Append(s, e) \in Seq(Events)
         /\ Signals(Append(s, e)) = Signals(s) \cup (IF e.type # "error" THEN {Len(s) + 1} ELSE {})
         /\ \A i \in Signals(s) : i \in Nat /\ i < Len(s) + 1 /\ Append(s, e)[i] = s[i]
         /\ Append(s, e)[Len(s) + 1] = e
         /\ Len(s) + 1 \in Nat
BY DEF Signals

\* Reading an event.
LEMMA SignalsTail ==
  ASSUME NEW s \in Seq(Events), s # <<>>
  PROVE  /\ Tail(s) \in Seq(Events) /\ Head(s) \in Events /\ Head(s) = s[1]
         /\ \A i \in Int : i \in Signals(Tail(s)) <=> i >= 1 /\ i + 1 \in Signals(s)
         /\ \A i \in Signals(Tail(s)) : i \in Nat /\ Tail(s)[i] = s[i + 1]
         /\ 1 \in Signals(s) <=> Head(s).type # "error"
         /\ \A i \in Signals(s) : i \in Nat /\ i >= 1
BY DEF Signals

\* Sending a message.
LEMMA CreatesAppend ==
  ASSUME NEW s \in Seq(Messages), NEW m \in Messages
  PROVE  /\ Append(s, m) \in Seq(Messages)
         /\ Creates(Append(s, m)) = Creates(s) \cup (IF m.type = "create" THEN {Len(s) + 1} ELSE {})
BY DEF Creates

\* Reading a message.
LEMMA CreatesTail ==
  ASSUME NEW s \in Seq(Messages), s # <<>>
  PROVE  /\ Tail(s) \in Seq(Messages) /\ Head(s) \in Messages
         /\ \A i \in Int : i \in Creates(Tail(s)) <=> i >= 1 /\ i + 1 \in Creates(s)
         /\ 1 \in Creates(s) <=> Head(s).type = "create"
         /\ Creates(s) \subseteq Nat
BY DEF Creates

\* A sign is the last one when it is sent.
LEMMA SignalSent ==
  ASSUME NEW s \in Seq(Events), NEW e \in Events, e.type # "error"
  PROVE  /\ Signals(Append(s, e)) # {}
         /\ \A i : LastSignal(i, Append(s, e)) => Append(s, e)[i].type = e.type
BY SignalsAppend DEF LastSignal

\* An error is no sign.
LEMMA ErrorSent ==
  ASSUME NEW s \in Seq(Events)
  PROVE  /\ Append(s, [type |-> "error"]) \in Seq(Events)
         /\ Signals(Append(s, [type |-> "error"])) = Signals(s)
         /\ \A i \in Signals(s) : Append(s, [type |-> "error"])[i] = s[i]
<1>1. [type |-> "error"] \in Events /\ [type |-> "error"].type = "error"
  BY DEF Events
<1> QED BY <1>1, SignalsAppend

\* When an event is read the last sign stays the last one, unless it was that event.
LEMMA EventRead ==
  ASSUME NEW s \in Seq(Events), s # <<>>
  PROVE  /\ \A i \in Signals(Tail(s)) :
              /\ i \in Int /\ i + 1 \in Signals(s) /\ Tail(s)[i] = s[i + 1]
              /\ LastSignal(i, Tail(s)) => LastSignal(i + 1, s)
         /\ Signals(Tail(s)) = {} =>
              /\ Head(s).type # "error" => LastSignal(1, s) /\ s[1] = Head(s)
              /\ Head(s).type = "error" => Signals(s) = {}
<1> DEFINE t == Tail(s)
<1>0. /\ \A i \in Int : i \in Signals(t) <=> i >= 1 /\ i + 1 \in Signals(s)
      /\ \A i \in Signals(t) : i \in Nat /\ t[i] = s[i + 1]
      /\ 1 \in Signals(s) <=> Head(s).type # "error"
      /\ \A i \in Signals(s) : i \in Nat /\ i >= 1
      /\ Head(s) = s[1]
  BY SignalsTail
<1> HIDE DEF t
<1>1. ASSUME NEW i \in Signals(t)
      PROVE  i \in Int /\ i + 1 \in Signals(s) /\ t[i] = s[i + 1]
  BY <1>0
<1>2. ASSUME NEW i \in Signals(t), LastSignal(i, t) PROVE LastSignal(i + 1, s)
  <2>1. SUFFICES ASSUME NEW j \in Signals(s) PROVE j <= i + 1
    BY <1>1 DEF LastSignal
  <2>2. CASE j = 1
    BY <1>0, <1>1, <2>2
  <2>3. CASE j # 1
    <3>1. j \in Int /\ j - 1 >= 1 /\ (j - 1) + 1 \in Signals(s)
      BY <1>0, <2>3
    <3>2. j - 1 \in Signals(t)
      BY <1>0, <3>1
    <3> QED BY <1>1, <1>2, <3>1, <3>2 DEF LastSignal
  <2> QED BY <2>2, <2>3
<1>3. ASSUME Signals(t) = {}, NEW j \in Signals(s) PROVE j = 1
  <2>1. j \in Int /\ j >= 1 /\ j - 1 \in Int /\ (j - 1) + 1 = j /\ (j - 1) + 1 \in Signals(s)
    BY <1>0
  <2>2. ~(j - 1 >= 1)
    BY <1>0, <1>3, <2>1
  <2> QED BY <2>1, <2>2
<1> QED BY <1>0, <1>1, <1>2, <1>3 DEF LastSignal, t

\* Reading an output leaves a request where it is.
LEMMA OutputRead ==
  ASSUME NEW s \in Seq(Messages), s # <<>>, Head(s).type # "create", Creates(s) # {}
  PROVE  Creates(Tail(s)) # {}
<1>1. PICK i \in Creates(s) : i \in Int /\ i >= 1 /\ i # 1
  BY CreatesTail DEF Creates
<1>2. i - 1 \in Int /\ i - 1 >= 1 /\ (i - 1) + 1 \in Creates(s)
  BY <1>1
<1>3. i - 1 \in Creates(Tail(s))
  BY <1>2, CreatesTail
<1> QED BY <1>3

\* A queue that is empty holds neither.
LEMMA EmptyQueues == Signals(<<>>) = {} /\ Creates(<<>>) = {}
BY DEF Signals, Creates

\* Concatenation of at most one message.
LEMMA Concat1 ==
  ASSUME NEW S, NEW s \in Seq(S), NEW e \in S
  PROVE  s \o <<e>> = Append(s, e) /\ s \o <<>> = s
OBVIOUS

\* What the provider sends.
LEMMA ProviderEvents ==
  /\ [type |-> "created"] \in Events /\ [type |-> "done"] \in Events /\ [type |-> "error"] \in Events
  /\ \A c \in Calls : [type |-> "call", call |-> c] \in Events
  /\ \A e \in Events : e.type \in {"created", "done", "error", "call"}
  /\ \A e \in Events : e.type = "call" => e.call \in Calls
BY DEF Events

\* What the page sends.
LEMMA PageMessages ==
  /\ [type |-> "create"] \in Messages
  /\ \A c \in Calls : [type |-> "output", call |-> c] \in Messages
  /\ \A m \in Messages : m.type = "output" => m.call \in Calls
BY DEF Messages

\* flushOpenAIResponseCreate sends at most one response.create, after which the page
\* expects a response.
LEMMA Flushed ==
  ASSUME TypeOK, NEW busy \in BOOLEAN, NEW queued \in BOOLEAN,
         NEW messages, messages = <<>> \/ \E c \in Calls : messages = <<[type |-> "output", call |-> c]>>,
         Flush(busy, queued, messages)
  PROVE  /\ up' \in Seq(Messages) /\ in_progress' \in BOOLEAN /\ pending' \in BOOLEAN
         /\ IF queued /\ ~busy /\ channel = "open"
            THEN /\ ~pending' /\ in_progress'
                 /\ \E n \in Nat : Creates(up') = Creates(up) \cup {n}
            ELSE /\ pending' = queued /\ in_progress' = busy
                 /\ Creates(up') = Creates(up)
                 /\ messages = <<>> => up' = up
<1>1. up \in Seq(Messages)
  BY DEF TypeOK
<1>2. /\ up \o messages \in Seq(Messages) /\ Creates(up \o messages) = Creates(up)
      /\ messages = <<>> => up \o messages = up
  <2>1. CASE messages = <<>>
    BY <1>1, <2>1, Concat1
  <2>2. ASSUME NEW c \in Calls, messages = <<[type |-> "output", call |-> c]>>
        PROVE  /\ up \o messages \in Seq(Messages) /\ Creates(up \o messages) = Creates(up)
               /\ messages # <<>>
    <3>1. up \o messages = Append(up, [type |-> "output", call |-> c])
      BY <1>1, <2>2, PageMessages, Concat1
    <3>2. [type |-> "output", call |-> c].type # "create"
      OBVIOUS
    <3>3. messages # <<>>
      BY <2>2
    <3> QED BY <1>1, <3>1, <3>2, <3>3, PageMessages, CreatesAppend
  <2> QED BY <2>1, <2>2
<1>3. /\ (up \o messages) \o <<[type |-> "create"]>> \in Seq(Messages)
      /\ \E n \in Nat : Creates((up \o messages) \o <<[type |-> "create"]>>) = Creates(up) \cup {n}
  <2>1. (up \o messages) \o <<[type |-> "create"]>> = Append(up \o messages, [type |-> "create"])
    BY <1>2, PageMessages, Concat1
  <2>2. Len(up \o messages) + 1 \in Nat
    BY <1>2
  <2>3. [type |-> "create"].type = "create"
    OBVIOUS
  <2> QED BY <1>2, <2>1, <2>2, <2>3, PageMessages, CreatesAppend
<1> QED BY <1>2, <1>3 DEF Flush, TypeOK

\* The flags and requests after a tool's result was sent.
LEMMA SendFlushed ==
  ASSUME TypeOK, NEW c \in Calls, SendResult(c)
  PROVE  /\ up' \in Seq(Messages) /\ in_progress' \in BOOLEAN /\ pending' \in BOOLEAN
         /\ IF ~in_progress /\ channel = "open"
            THEN /\ ~pending' /\ in_progress'
                 /\ \E n \in Nat : Creates(up') = Creates(up) \cup {n}
            ELSE /\ pending' /\ in_progress' = in_progress
                 /\ Creates(up') = Creates(up)
                 /\ channel # "open" => up' = up
<1> DEFINE messages == IF channel = "open" THEN <<[type |-> "output", call |-> c]>> ELSE <<>>
<1>1. Flush(in_progress, TRUE, messages)
  BY DEF SendResult
<1>2. messages = <<>> \/ \E d \in Calls : messages = <<[type |-> "output", call |-> d]>>
  OBVIOUS
<1>3. channel # "open" => messages = <<>>
  OBVIOUS
<1>4. in_progress \in BOOLEAN
  BY DEF TypeOK
<1> HIDE DEF messages
<1> QED BY <1>1, <1>2, <1>3, <1>4, Flushed

\* The flags and requests after response.done was read.
LEMMA DoneFlushed ==
  ASSUME TypeOK, ResponseDone
  PROVE  /\ up' \in Seq(Messages) /\ in_progress' \in BOOLEAN /\ pending' \in BOOLEAN
         /\ ~pending' /\ in_progress' = pending
         /\ IF pending THEN \E n \in Nat : Creates(up') = Creates(up) \cup {n}
                       ELSE Creates(up') = Creates(up)
<1>1. Flush(FALSE, pending, <<>>) /\ channel = "open" /\ pending \in BOOLEAN
  BY DEF ResponseDone, Event, TypeOK
<1> QED BY <1>1, Flushed

-----------------------------------------------------------------------------
(* The types *)

\* Each action keeps the types.
LEMMA TypesStep == TypeOK /\ [Next]_vars => TypeOK'
<1> SUFFICES ASSUME TypeOK, [Next]_vars PROVE TypeOK'
  OBVIOUS
<1> USE DEF TypeOK, vars, page, provider, speech
<1>0. <<>> \in Seq(Events) /\ <<>> \in Seq(Messages)
  OBVIOUS
<1>1. CASE Start
  <2>1. connection' \in 0..MaxConnections
    BY <1>1, TurnsAssumption DEF Start
  <2> QED BY <1>0, <1>1, <2>1 DEF Start, Reset
<1>2. CASE SecretArrives \/ ChannelOpens \/ ChannelCloses
  BY <1>0, <1>2 DEF SecretArrives, ChannelOpens, ChannelCloses
<1>3. CASE Stop
  BY <1>0, <1>3 DEF Stop, Reset
<1>4. CASE UserSpeaks
  <2>1. down' \in Seq(Events)
    BY <1>4, ProviderEvents, SignalsAppend, Concat1 DEF UserSpeaks
  <2> QED BY <1>4, <2>1, TurnsAssumption DEF UserSpeaks, Quiet
<1>5. ASSUME NEW c \in Calls, ProviderCalls(c) PROVE TypeOK'
  <2>1. down' \in Seq(Events)
    BY <1>5, ProviderEvents DEF ProviderCalls
  <2> QED BY <1>5, <2>1 DEF ProviderCalls
<1>6. CASE ResponseEnds
  <2>1. down' \in Seq(Events)
    BY <1>6, ProviderEvents DEF ResponseEnds
  <2> QED BY <1>6, <2>1 DEF ResponseEnds
<1>7. CASE OutputArrives
  <2>1. down' \in Seq(Events) /\ up' \in Seq(Messages) /\ Head(up) \in Messages
    <3>1. up # <<>> /\ up' = Tail(up) /\ (down' = down \/ down' = Append(down, [type |-> "error"]))
      <4>1. CASE asked[Head(up).call] = connection
        BY <1>7, <4>1 DEF OutputArrives
      <4>2. CASE asked[Head(up).call] # connection
        BY <1>7, <4>2 DEF OutputArrives
      <4> QED BY <4>1, <4>2
    <3>2. down' \in Seq(Events)
      BY <3>1, ErrorSent
    <3> QED BY <3>1, <3>2, CreatesTail
  <2> QED BY <1>7, <2>1, PageMessages DEF OutputArrives
<1>8. CASE CreateArrives
  <2>1. down' \in Seq(Events) /\ up' \in Seq(Messages)
    <3>1. /\ up # <<>> /\ up' = Tail(up)
          /\ \E e \in Events : down' = Append(down, e)
      BY <1>8, ProviderEvents DEF CreateArrives
    <3> QED BY <3>1, SignalsAppend, CreatesTail
  <2> QED BY <1>8, <2>1 DEF CreateArrives
<1>9. CASE ResponseCreated \/ ProviderError
  <2>1. down' \in Seq(Events)
    BY <1>9, SignalsTail DEF ResponseCreated, ProviderError, Event
  <2> QED BY <1>9, <2>1 DEF ResponseCreated, ProviderError
<1>10. CASE ResponseDone
  <2>1. down' \in Seq(Events)
    BY <1>10, SignalsTail DEF ResponseDone, Event
  <2>2. up' \in Seq(Messages) /\ in_progress' \in BOOLEAN /\ pending' \in BOOLEAN
    BY <1>10, DoneFlushed DEF ResponseDone
  <2> QED BY <1>10, <2>1, <2>2 DEF ResponseDone
<1>11. CASE CallArrives
  <2>1. down' \in Seq(Events) /\ Head(down).call \in Calls
    BY <1>11, SignalsTail, ProviderEvents DEF CallArrives, Event
  <2> QED BY <1>11, <2>1 DEF CallArrives, Waiting
<1>12. ASSUME NEW c \in Calls, RequestedRelayed(c) \/ HandlerGivesUp(c) \/ ToolAnswered(c)
       PROVE  TypeOK'
  BY <1>12 DEF RequestedRelayed, HandlerGivesUp, ToolAnswered, Handler, Waiting
<1>13. ASSUME NEW c \in Calls, SendResult(c) PROVE TypeOK'
  <2>1. up' \in Seq(Messages) /\ in_progress' \in BOOLEAN /\ pending' \in BOOLEAN
    BY <1>13, SendFlushed DEF SendResult
  <2> QED BY <1>13, <2>1 DEF SendResult, Handler, Waiting
<1> QED BY <1>1, <1>2, <1>3, <1>4, <1>5, <1>6, <1>7, <1>8, <1>9, <1>10, <1>11, <1>12, <1>13
        DEF Next, Provide, Deliver, Handle, Continue

-----------------------------------------------------------------------------
(* The steps *)

\* Only an open channel carries messages.
LEMMA EmptyStep == IInv /\ [Next]_vars => Empty'
<1> SUFFICES ASSUME TypeOK, Empty, [Next]_vars PROVE Empty'
  BY DEF IInv
<1> USE DEF Empty, vars, page, provider, speech
<1>1. CASE Start \/ Stop \/ SecretArrives \/ ChannelOpens \/ ChannelCloses
  BY <1>1 DEF Start, Stop, Reset, SecretArrives, ChannelOpens, ChannelCloses
<1>2. CASE Provide \/ Deliver
  BY <1>2 DEF Provide, Deliver, UserSpeaks, ProviderCalls, ResponseEnds, OutputArrives, CreateArrives
<1>3. CASE Handle
  BY <1>3 DEF Handle, Event, ResponseCreated, ResponseDone, ProviderError, CallArrives
<1>4. ASSUME NEW c \in Calls, RequestedRelayed(c) \/ HandlerGivesUp(c) \/ ToolAnswered(c)
      PROVE  Empty'
  BY <1>4 DEF RequestedRelayed, HandlerGivesUp, ToolAnswered, Handler
<1>5. ASSUME NEW c \in Calls, SendResult(c) PROVE Empty'
  <2>1. channel # "open" => up' = up /\ in_progress' = in_progress
    BY <1>5, SendFlushed
  <2> QED BY <1>5, <2>1 DEF SendResult, Handler
<1> QED BY <1>1, <1>2, <1>3, <1>4, <1>5 DEF Next, Continue

\* A call is made on the session that is open, which a later one comes after.
LEMMA AskedStep == IInv /\ [Next]_vars => Asked'
<1> SUFFICES ASSUME TypeOK, Asked, [Next]_vars PROVE Asked'
  BY DEF IInv
<1> USE DEF TypeOK, Asked, vars, page, provider, speech
<1>1. CASE Start
  BY <1>1 DEF Start, Reset
<1>2. CASE Stop \/ SecretArrives \/ ChannelOpens \/ ChannelCloses
  BY <1>2 DEF Stop, Reset, SecretArrives, ChannelOpens, ChannelCloses
<1>3. ASSUME NEW c \in Calls, ProviderCalls(c) PROVE Asked'
  BY <1>3 DEF ProviderCalls
<1>4. CASE UserSpeaks \/ ResponseEnds \/ Deliver
  BY <1>4 DEF Deliver, UserSpeaks, ResponseEnds, OutputArrives, CreateArrives
<1>5. CASE Handle
  BY <1>5 DEF Handle, Event, ResponseCreated, ResponseDone, ProviderError, CallArrives
<1>6. ASSUME NEW c \in Calls, Continue(c) PROVE Asked'
  BY <1>6 DEF Continue, RequestedRelayed, HandlerGivesUp, ToolAnswered, SendResult, Handler
<1> QED BY <1>1, <1>2, <1>3, <1>4, <1>5, <1>6 DEF Next, Provide

\* Whatever queues a request while the channel is open sends it, or sees a response
\* in progress.
LEMMA QueuedStep == IInv /\ [Next]_vars => Queued'
<1> SUFFICES ASSUME TypeOK, Asked, Queued, [Next]_vars PROVE Queued'
  BY DEF IInv
<1> USE DEF Queued, PendingIsFlushed, vars, page, provider, speech
<1>1. CASE Start \/ Stop \/ SecretArrives \/ ChannelOpens \/ ChannelCloses
  BY <1>1 DEF Start, Stop, Reset, SecretArrives, ChannelOpens, ChannelCloses
<1>2. CASE Provide \/ Deliver
  <2>1. UNCHANGED <<channel, pending, mixed, in_progress>>
    BY <1>2 DEF Provide, Deliver, UserSpeaks, ProviderCalls, ResponseEnds, OutputArrives, CreateArrives
  <2> QED BY <2>1
<1>3. CASE ResponseCreated \/ ProviderError \/ CallArrives
  BY <1>3 DEF Event, ResponseCreated, ProviderError, CallArrives
<1>4. CASE ResponseDone
  <2>1. channel = "open" => ~pending'
    BY <1>4, DoneFlushed
  <2> QED BY <1>4, <2>1 DEF ResponseDone, Event
<1>5. ASSUME NEW c \in Calls, RequestedRelayed(c) \/ HandlerGivesUp(c) \/ ToolAnswered(c)
      PROVE  Queued'
  BY <1>5 DEF RequestedRelayed, HandlerGivesUp, ToolAnswered, Handler
<1>6. ASSUME NEW c \in Calls, SendResult(c) PROVE Queued'
  <2>1. channel = "open" /\ pending' => in_progress'
    BY <1>6, SendFlushed
  <2>2. channel \in {"starting", "connecting"} => mixed'
    <3>1. channel \in {"starting", "connecting"} => asked[c] # connection
      BY DEF Asked, TypeOK
    <3> QED BY <1>6, <3>1 DEF SendResult
  <2> QED BY <1>6, <2>1, <2>2 DEF SendResult, Handler
<1> QED BY <1>1, <1>2, <1>3, <1>4, <1>5, <1>6 DEF Next, Handle, Continue

\* A new sign tells of the provider's state.
LEMMA AgreedAfterSign ==
  ASSUME NEW d \in Seq(Events), NEW e \in Events, down' = Append(d, e), e.type # "error",
         active' <=> e.type # "done"
  PROVE  Agreed'
BY SignalSent DEF Agreed

\* The types of what the provider sends.
LEMMA SignTypes ==
  /\ [type |-> "created"].type = "created" /\ [type |-> "done"].type = "done"
  /\ \A c \in Calls : [type |-> "call", call |-> c].type = "call"
OBVIOUS

\* The page's flag follows the signs it reads.
LEMMA AgreedAfterRead ==
  ASSUME TypeOK, Agreed, channel = "open", down # <<>>, down' = Tail(down), active' = active,
         Head(down).type = "error" => in_progress' = in_progress /\ up' = up,
         Head(down).type \in {"created", "call"} => in_progress',
         Head(down).type = "done" => (in_progress' => Creates(up') # {})
  PROVE  Agreed'
<1>1. down \in Seq(Events) /\ Head(down).type \in {"created", "call", "done", "error"}
  BY ProviderEvents, SignalsTail DEF TypeOK
<1>2. ASSUME NEW i \in Signals(down'), LastSignal(i, down')
      PROVE  active' <=> down'[i].type # "done"
  <2>1. LastSignal(i + 1, down) /\ down'[i] = down[i + 1]
    BY <1>1, <1>2, EventRead
  <2> QED BY <2>1 DEF Agreed, LastSignal
<1>3. ASSUME Signals(down') = {}
      PROVE  (active' => in_progress') /\ (in_progress' => active' \/ Creates(up') # {})
  <2>1. CASE Head(down).type = "error"
    BY <1>1, <1>3, <2>1, EventRead DEF Agreed
  <2>2. CASE Head(down).type # "error"
    <3>1. active <=> Head(down).type # "done"
      BY <1>1, <1>3, <2>2, EventRead DEF Agreed, LastSignal
    <3> QED BY <1>1, <2>2, <3>1
  <2> QED BY <2>1, <2>2
<1> QED BY <1>2, <1>3 DEF Agreed

\* Each action keeps the flag in step with what is under way.
LEMMA AgreedStep == IInv /\ [Next]_vars => Agreed'
<1> SUFFICES ASSUME TypeOK, Empty, Agreed, [Next]_vars PROVE Agreed'
  BY DEF IInv
<1> USE DEF vars, page, provider, speech
<1>0. down \in Seq(Events) /\ up \in Seq(Messages)
  BY DEF TypeOK
<1>1. CASE Start \/ Stop \/ SecretArrives \/ ChannelCloses
  BY <1>1 DEF Agreed, Start, Stop, Reset, SecretArrives, ChannelCloses
<1>2. CASE ChannelOpens
  BY <1>2, EmptyQueues DEF ChannelOpens, Agreed, Empty
<1>3. CASE UserSpeaks
  <2>1. PICK d \in Seq(Events) : down' = Append(d, [type |-> "created"])
    <3>1. CASE active
      <4> DEFINE d == down \o <<[type |-> "done"]>>
      <4>1. d \in Seq(Events) /\ down' = d \o <<[type |-> "created"]>>
        BY <1>0, <1>3, <3>1, ProviderEvents DEF UserSpeaks
      <4> HIDE DEF d
      <4> QED BY <4>1, ProviderEvents, Concat1
    <3>2. CASE ~active
      BY <1>0, <1>3, <3>2, ProviderEvents, SignalsAppend, Concat1 DEF UserSpeaks
    <3> QED BY <3>1, <3>2
  <2> QED BY <1>3, <2>1, ProviderEvents, SignTypes, AgreedAfterSign DEF UserSpeaks
<1>4. ASSUME NEW c \in Calls, ProviderCalls(c) PROVE Agreed'
  BY <1>0, <1>4, ProviderEvents, SignTypes, AgreedAfterSign DEF ProviderCalls
<1>5. CASE ResponseEnds
  BY <1>0, <1>5, ProviderEvents, SignTypes, AgreedAfterSign DEF ResponseEnds
<1>6. CASE OutputArrives
  <2>1. Creates(up) # {} => Creates(up') # {}
    BY <1>0, <1>6, OutputRead DEF OutputArrives
  <2>2. Signals(down') = Signals(down) /\ \A i \in Signals(down) : down'[i] = down[i]
    BY <1>0, <1>6, ErrorSent DEF OutputArrives
  <2> QED BY <1>6, <2>1, <2>2 DEF OutputArrives, Agreed, LastSignal
<1>7. CASE CreateArrives
  <2>1. CASE active
    <3>1. Signals(down') = Signals(down) /\ \A i \in Signals(down) : down'[i] = down[i]
      BY <1>0, <1>7, <2>1, ErrorSent DEF CreateArrives
    <3> QED BY <1>7, <2>1, <3>1 DEF CreateArrives, Agreed, LastSignal
  <2>2. CASE ~active
    BY <1>0, <1>7, <2>2, ProviderEvents, SignTypes, AgreedAfterSign DEF CreateArrives
  <2> QED BY <2>1, <2>2
<1>8. CASE ResponseCreated
  BY <1>8, AgreedAfterRead DEF ResponseCreated, Event
<1>9. CASE ResponseDone
  <2>1. in_progress' => Creates(up') # {}
    BY <1>9, DoneFlushed
  <2> QED BY <1>9, <2>1, AgreedAfterRead DEF ResponseDone, Event
<1>10. CASE ProviderError
  BY <1>10, AgreedAfterRead DEF ProviderError, Event
<1>11. CASE CallArrives
  BY <1>11, AgreedAfterRead DEF CallArrives, Event
<1>12. ASSUME NEW c \in Calls, RequestedRelayed(c) \/ HandlerGivesUp(c) \/ ToolAnswered(c)
       PROVE  Agreed'
  BY <1>12 DEF RequestedRelayed, HandlerGivesUp, ToolAnswered, Handler, Agreed, LastSignal
<1>13. ASSUME NEW c \in Calls, SendResult(c) PROVE Agreed'
  BY <1>13, SendFlushed DEF SendResult, Handler, Agreed, LastSignal
<1>14. CASE UNCHANGED vars
  BY <1>14 DEF Agreed, LastSignal
<1> QED BY <1>1, <1>2, <1>3, <1>4, <1>5, <1>6, <1>7, <1>8, <1>9, <1>10, <1>11, <1>12, <1>13, <1>14
        DEF Next, Provide, Deliver, Handle, Continue

\* While a response is in progress no request is under way and the end of no
\* response; so the page knows, or waits with no result.
LEMMA NoDoneWhileActive ==
  ASSUME IInv, ~interrupted, active
  PROVE  /\ channel = "open" /\ Creates(up) = {}
         /\ \A i \in Signals(down) : down[i].type # "done"
         /\ in_progress \/ \A c \in Calls : step[c] \notin Waiting
<1> USE DEF IInv
<1>1. channel = "open"
  BY DEF Empty
<1>2. ASSUME NEW i \in Signals(down), down[i].type = "done" PROVE FALSE
  <2>1. \A j \in Signals(down) : ~(i < j)
    BY <1>2 DEF Alternate
  <2>2. LastSignal(i, down)
    BY <2>1 DEF LastSignal, Signals
  <2> QED BY <1>1, <1>2, <2>2 DEF Agreed
<1>3. in_progress \/ \A c \in Calls : step[c] \notin Waiting
  BY <1>1 DEF Agreed, Alternate
<1> QED BY <1>1, <1>2, <1>3 DEF Alternate

\* A sign after others of which none ends a response.
LEMMA AlternateAfterSign ==
  ASSUME TypeOK, NEW e \in Events, e.type # "error", down' = Append(down, e), Creates(up') = {}, ~refused',
         \A i \in Signals(down) : down[i].type # "done",
         in_progress' \/ \A c \in Calls : step'[c] \notin Waiting
  PROVE  Alternate'
<1>1. /\ Signals(down') = Signals(down) \cup {Len(down) + 1}
      /\ Len(down) + 1 \in Nat
      /\ \A i \in Signals(down) : i \in Nat /\ i < Len(down) + 1 /\ down'[i] = down[i]
  <2>1. down \in Seq(Events)
    BY DEF TypeOK
  <2> QED BY <2>1, SignalsAppend
<1>2. ASSUME NEW i \in Signals(down'), NEW j \in Signals(down'), i < j PROVE down'[i].type # "done"
  <2>1. i \in Signals(down)
    BY <1>1, <1>2
  <2> QED BY <1>1, <2>1
<1> QED BY <1>2 DEF Alternate

\* Reading an event; after the end of a response nothing is under way and a queued
\* request may go out.
LEMMA AlternateAfterRead ==
  ASSUME TypeOK, Alternate, ~interrupted, down # <<>>, down' = Tail(down), active' = active, ~refused',
         Head(down).type = "error" => UNCHANGED <<up, in_progress, step>>,
         Head(down).type \in {"created", "call"} => in_progress' /\ up' = up,
         Head(down).type = "done" =>
           /\ ~active
           /\ Creates(up') = Creates(up) \/ (in_progress' /\ \E n \in Nat : Creates(up') = Creates(up) \cup {n})
  PROVE  Alternate'
<1>1. down \in Seq(Events) /\ Head(down).type \in {"created", "call", "done", "error"}
  BY ProviderEvents, SignalsTail DEF TypeOK
<1>2. \A i \in Signals(down') : i \in Int /\ i + 1 \in Signals(down) /\ down'[i] = down[i + 1]
  BY <1>1, EventRead
<1>3. \A i, j \in Signals(down') : i < j => down'[i].type # "done"
  <2> SUFFICES ASSUME NEW i \in Signals(down'), NEW j \in Signals(down'), i < j
               PROVE  down'[i].type # "done"
    OBVIOUS
  <2>1. i + 1 < j + 1
    BY <1>2
  <2> QED BY <1>2, <2>1 DEF Alternate
<1>4. Head(down).type # "error" => 1 \in Signals(down) /\ Creates(up) = {}
  BY <1>1, SignalsTail DEF Alternate
<1>5. Head(down).type = "done" => Signals(down') = {}
  <2> SUFFICES ASSUME Head(down).type = "done", NEW i \in Signals(down') PROVE FALSE
    OBVIOUS
  <2>1. i + 1 \in Signals(down) /\ 1 < i + 1
    BY <1>1, <1>2, SignalsTail
  <2>2. down[1].type = "done"
    BY <1>1, SignalsTail
  <2> QED BY <1>4, <2>1, <2>2 DEF Alternate
<1>6. CASE Head(down).type = "error"
  BY <1>2, <1>3, <1>6 DEF Alternate
<1>7. CASE Head(down).type \in {"created", "call"}
  BY <1>3, <1>4, <1>7 DEF Alternate
<1>8. CASE Head(down).type = "done"
  BY <1>4, <1>5, <1>8 DEF Alternate
<1> QED BY <1>1, <1>6, <1>7, <1>8

\* Each action keeps requests and responses alternating.
LEMMA AlternateStep == IInv /\ [Next]_vars => Alternate'
<1> SUFFICES ASSUME IInv, [Next]_vars, ~interrupted' PROVE Alternate'
  BY DEF Alternate
<1> USE DEF vars, page, provider, speech
<1>0. down \in Seq(Events) /\ up \in Seq(Messages) /\ TypeOK /\ Empty /\ Agreed /\ Alternate
  BY DEF IInv, TypeOK
<1>1. CASE Start \/ Stop \/ ChannelCloses
  BY <1>0, <1>1, EmptyQueues DEF Alternate, Start, Stop, Reset, ChannelCloses
<1>2. CASE SecretArrives \/ ChannelOpens
  BY <1>0, <1>2 DEF SecretArrives, ChannelOpens, Alternate
<1>3. CASE UserSpeaks
  <2>1. ~refused /\ ~active /\ down = <<>> /\ up = <<>> /\ \A c \in Calls : step[c] \notin Waiting
    BY <1>0, <1>3 DEF UserSpeaks, Quiet, Alternate
  <2>2. down' = Append(down, [type |-> "created"])
    BY <1>3, <2>1 DEF UserSpeaks
  <2> QED BY <1>0, <1>3, <2>1, <2>2, EmptyQueues, ProviderEvents, SignTypes, AlternateAfterSign
          DEF UserSpeaks
<1>4. ASSUME NEW c \in Calls, ProviderCalls(c) PROVE Alternate'
  <2>1. active /\ ~interrupted
    BY <1>4 DEF ProviderCalls
  <2> QED BY <1>0, <1>4, <2>1, NoDoneWhileActive, ProviderEvents, SignTypes, AlternateAfterSign
          DEF ProviderCalls, Alternate
<1>5. CASE ResponseEnds
  <2>1. active /\ ~interrupted
    BY <1>5 DEF ResponseEnds
  <2> QED BY <1>0, <1>5, <2>1, NoDoneWhileActive, ProviderEvents, SignTypes, AlternateAfterSign
          DEF ResponseEnds, Alternate
<1>6. CASE OutputArrives
  <2>1. /\ Signals(down') = Signals(down)
        /\ \A i \in Signals(down) : down'[i] = down[i]
    BY <1>0, <1>6, ErrorSent DEF OutputArrives
  <2>2. \A i \in Creates(up') : i \in Int /\ i + 1 \in Creates(up)
    BY <1>0, <1>6, CreatesTail DEF OutputArrives, Creates
  <2>3. \A i, j \in Creates(up') : i = j
    BY <1>0, <1>6, <2>2 DEF OutputArrives, Alternate
  <2> QED BY <1>0, <1>6, <2>1, <2>2, <2>3 DEF OutputArrives, Alternate
<1>7. CASE CreateArrives
  <2>1. 1 \in Creates(up)
    BY <1>0, <1>7, CreatesTail DEF CreateArrives
  <2>2. ~active /\ Signals(down) = {} /\ in_progress /\ ~refused /\ ~interrupted
    BY <1>0, <1>7, <2>1 DEF CreateArrives, Alternate
  <2>3. Creates(up') = {}
    <3> SUFFICES ASSUME NEW i \in Creates(up') PROVE FALSE
      OBVIOUS
    <3>1. i \in Int /\ i >= 1 /\ i + 1 \in Creates(up)
      BY <1>0, <1>7, CreatesTail DEF CreateArrives, Creates
    <3> QED BY <1>0, <2>1, <2>2, <3>1 DEF Alternate
  <2>4. down' = Append(down, [type |-> "created"]) /\ UNCHANGED <<refused, in_progress, step>>
    BY <1>7, <2>2 DEF CreateArrives
  <2> QED BY <1>0, <2>2, <2>3, <2>4, ProviderEvents, SignTypes, AlternateAfterSign
<1>8. CASE ResponseCreated
  BY <1>0, <1>8, AlternateAfterRead DEF ResponseCreated, Event, Alternate
<1>9. CASE ResponseDone
  <2>1. ~interrupted /\ ~refused' /\ channel = "open" /\ down # <<>> /\ 1 \in Signals(down)
        /\ down[1].type = "done"
    BY <1>0, <1>9, SignalsTail DEF ResponseDone, Event, Alternate
  <2>2. ~active
    BY <2>1, NoDoneWhileActive
  <2>3. Creates(up') = Creates(up) \/ (in_progress' /\ \E n \in Nat : Creates(up') = Creates(up) \cup {n})
    BY <1>0, <1>9, DoneFlushed
  <2> QED BY <1>0, <1>9, <2>1, <2>2, <2>3, AlternateAfterRead DEF ResponseDone, Event
<1>10. CASE ProviderError
  BY <1>0, <1>10, AlternateAfterRead DEF ProviderError, Event, Alternate
<1>11. CASE CallArrives
  BY <1>0, <1>11, AlternateAfterRead DEF CallArrives, Event, Alternate
<1>12. ASSUME NEW c \in Calls, RequestedRelayed(c) \/ HandlerGivesUp(c) \/ ToolAnswered(c)
       PROVE  Alternate'
  BY <1>0, <1>12 DEF RequestedRelayed, HandlerGivesUp, ToolAnswered, Handler, Alternate, Waiting, TypeOK
<1>13. ASSUME NEW c \in Calls, SendResult(c) PROVE Alternate'
  <2>1. /\ ~interrupted /\ ~refused' /\ UNCHANGED <<channel, active, down>>
        /\ step[c] \in Waiting /\ \A d \in Calls : step'[d] \in Waiting => step[d] \in Waiting
    BY <1>0, <1>13 DEF SendResult, Handler, Alternate, Waiting, TypeOK
  <2>2. CASE ~in_progress /\ channel = "open"
    <3>1. Signals(down) = {} /\ Creates(up) = {} /\ ~active
      BY <1>0, <2>1, <2>2 DEF Alternate, Agreed
    <3> QED BY <1>0, <1>13, <2>1, <2>2, <3>1, SendFlushed DEF Alternate
  <2>3. CASE ~(~in_progress /\ channel = "open")
    BY <1>0, <1>13, <2>1, <2>3, SendFlushed DEF Alternate
  <2> QED BY <2>2, <2>3
<1>14. CASE UNCHANGED vars
  BY <1>0, <1>14 DEF Alternate
<1> QED BY <1>1, <1>2, <1>3, <1>4, <1>5, <1>6, <1>7, <1>8, <1>9, <1>10, <1>11, <1>12, <1>13, <1>14
        DEF Next, Provide, Deliver, Handle, Continue

\* Nothing is under way when the page is loaded.
LEMMA TurnsInit == Init => IInv
<1> SUFFICES ASSUME Init PROVE IInv
  OBVIOUS
<1>1. TypeOK
  <2>1. <<>> \in Seq(Events) /\ <<>> \in Seq(Messages)
    OBVIOUS
  <2>2. 0 \in 0..MaxConnections /\ 0 \in 0..MaxTurns
    BY TurnsAssumption
  <2>3. step \in [Calls -> Waiting \cup {"none", "over"}] /\ asked \in [Calls -> 0..MaxConnections]
    BY <2>2 DEF Init
  <2>4. down \in Seq(Events) /\ up \in Seq(Messages)
    BY <2>1 DEF Init
  <2>5. connection \in 0..MaxConnections /\ turns \in 0..MaxTurns
    BY <2>2 DEF Init
  <2>6. /\ channel \in {"none", "starting", "connecting", "open", "closed"} /\ unanswered \subseteq Calls
        /\ in_progress \in BOOLEAN /\ pending \in BOOLEAN /\ active \in BOOLEAN
        /\ interrupted \in BOOLEAN /\ refused \in BOOLEAN /\ mixed \in BOOLEAN
    BY DEF Init
  <2> QED BY <2>3, <2>4, <2>5, <2>6 DEF TypeOK
<1>2. Empty /\ Agreed /\ Queued /\ Alternate
  BY EmptyQueues DEF Init, Empty, Agreed, Queued, PendingIsFlushed, Alternate
<1>3. Asked
  <2>1. connection = 0 /\ channel = "none" /\ \A c \in Calls : asked[c] = 0
    BY DEF Init
  <2>2. 0 <= 0 /\ channel \notin {"starting", "connecting"}
    BY <2>1
  <2> QED BY <2>1, <2>2, Zenon DEF Asked
<1> QED BY <1>1, <1>2, <1>3 DEF IInv

\* The invariant holds.
LEMMA TurnsInductive == Spec => []IInv
<1>1. IInv /\ [Next]_vars => IInv'
  BY TypesStep, EmptyStep, AskedStep, QueuedStep, AgreedStep, AlternateStep DEF IInv
<1> QED BY <1>1, TurnsInit, PTL DEF Spec

-----------------------------------------------------------------------------
(* What becomes of the outputs *)

\* The page will ask for another response when the one it knows of ends.
WillAsk == pending /\ in_progress

\* Every output among the messages has a response.create behind it.
Followed(s) == \A i \in 1..Len(s) : s[i].type = "output" => \E j \in Creates(s) : i < j

\* Unless the user has interrupted, each output of this conversation, arrived or on its
\* way, will be taken up: by a create that is on its way, or by one that waits.
Remembered ==
  /\ unanswered # {} => channel = "open"
  /\ ~interrupted /\ ~WillAsk => Followed(up) /\ (unanswered # {} => Creates(up) # {})

\* A message is read.
LEMMA FollowedRead ==
  ASSUME NEW s \in Seq(Messages), s # <<>>, Followed(s)
  PROVE  /\ Followed(Tail(s))
         /\ Head(s).type = "output" => Creates(Tail(s)) # {}
<1>1. /\ \A i \in Int : i \in Creates(Tail(s)) <=> i >= 1 /\ i + 1 \in Creates(s)
      /\ Creates(s) \subseteq Nat
  BY CreatesTail
<1>2. /\ Len(s) \in Nat /\ Len(s) >= 1 /\ Len(Tail(s)) = Len(s) - 1 /\ Head(s) = s[1]
      /\ \A i \in 1..Len(Tail(s)) : Tail(s)[i] = s[i + 1]
  OBVIOUS
<1>3. ASSUME NEW i \in 1..Len(s), s[i].type = "output"
      PROVE  \E j \in Creates(Tail(s)) : i < j + 1
  <2>1. PICK j \in Creates(s) : i < j
    BY <1>3 DEF Followed
  <2>2. j \in Nat /\ j - 1 \in Int /\ j - 1 >= 1 /\ (j - 1) + 1 = j
    BY <1>1, <1>2, <2>1
  <2>3. j - 1 \in Creates(Tail(s))
    BY <1>1, <2>1, <2>2
  <2> QED BY <2>1, <2>2, <2>3
<1>4. Head(s).type = "output" => Creates(Tail(s)) # {}
  BY <1>2, <1>3
<1>5. ASSUME NEW i \in 1..Len(Tail(s)), Tail(s)[i].type = "output"
      PROVE  \E j \in Creates(Tail(s)) : i < j
  <2>1. i \in Int /\ i + 1 \in 1..Len(s) /\ s[i + 1].type = "output"
    BY <1>2, <1>5
  <2>2. PICK j \in Creates(Tail(s)) : i + 1 < j + 1
    BY <1>3, <2>1
  <2>3. j \in Int
    BY DEF Creates
  <2> QED BY <2>1, <2>2, <2>3
<1> QED BY <1>4, <1>5 DEF Followed

\* A create at the end follows whatever is before it.
LEMMA FollowedByCreate ==
  ASSUME NEW s \in Seq(Messages)
  PROVE  LET t == s \o <<[type |-> "create"]>> IN Followed(t) /\ Creates(t) # {}
<1> DEFINE t == Append(s, [type |-> "create"])
<1>1. s \o <<[type |-> "create"]>> = t
  BY PageMessages, Concat1
<1>2. Len(t) = Len(s) + 1 /\ Len(s) \in Nat /\ t[Len(s) + 1] = [type |-> "create"]
  OBVIOUS
<1>3. Len(s) + 1 \in Creates(t)
  BY <1>2 DEF Creates
<1>4. t[Len(s) + 1].type # "output"
  BY <1>2
<1> HIDE DEF t
<1>5. \A i \in 1..Len(t) : i = Len(s) + 1 \/ i < Len(s) + 1
  BY <1>2
<1> QED BY <1>1, <1>3, <1>4, <1>5 DEF Followed

\* Each step remembers the outputs.
LEMMA RememberedStep == IInv /\ Remembered /\ [Next]_vars => Remembered'
<1> SUFFICES ASSUME IInv, Remembered, [Next]_vars PROVE Remembered'
  OBVIOUS
<1>0. TypeOK /\ up \in Seq(Messages) /\ pending \in BOOLEAN /\ in_progress \in BOOLEAN
  BY DEF IInv, TypeOK
<1> USE DEF page, provider, speech, vars
<1>1. CASE Start \/ Stop
  BY <1>1 DEF Start, Stop, Reset, Remembered, Followed
<1>2. CASE SecretArrives \/ ChannelOpens
  BY <1>2 DEF SecretArrives, ChannelOpens, Remembered, WillAsk
<1>3. CASE ChannelCloses
  BY <1>3 DEF ChannelCloses, Remembered, Followed
<1>4. CASE UserSpeaks
  BY <1>4 DEF UserSpeaks, Remembered, WillAsk
<1>5. CASE ResponseEnds \/ \E c \in Calls : ProviderCalls(c)
  BY <1>5 DEF ResponseEnds, ProviderCalls, Remembered, WillAsk
<1>6. CASE OutputArrives \/ CreateArrives
  <2>1. up # <<>> /\ up' = Tail(up) /\ UNCHANGED <<channel, pending, in_progress, interrupted>>
    BY <1>6 DEF OutputArrives, CreateArrives
  <2>2. Followed(up) => Followed(up') /\ (Head(up).type = "output" => Creates(up') # {})
    BY <1>0, <2>1, FollowedRead
  <2>3. CASE OutputArrives
    <3>1. channel = "open" /\ Head(up).type = "output"
      BY <1>0, <2>1, <2>3 DEF OutputArrives, IInv, Empty
    <3> QED BY <2>1, <2>2, <3>1 DEF Remembered, WillAsk
  <2>4. CASE CreateArrives
    <3>1. interrupted \/ unanswered' = {}
      <4>1. 1 \in Creates(up)
        BY <1>0, <2>4, CreatesTail DEF CreateArrives
      <4>2. interrupted \/ ~active
        BY <4>1 DEF IInv, Alternate
      <4> QED BY <2>4, <4>2 DEF CreateArrives
    <3>2. unanswered' \subseteq unanswered
      BY <2>4 DEF CreateArrives
    <3> QED BY <2>1, <2>2, <3>1, <3>2 DEF Remembered, WillAsk
  <2> QED BY <1>6, <2>3, <2>4
<1>7. CASE ResponseCreated \/ ProviderError \/ CallArrives
  BY <1>7 DEF ResponseCreated, ProviderError, CallArrives, Remembered, WillAsk
<1>8. CASE ResponseDone
  <2>1. channel = "open" /\ UNCHANGED <<channel, unanswered, interrupted>>
    BY <1>8 DEF ResponseDone, Event
  <2>2. CASE pending
    <3>1. up' = (up \o <<>>) \o <<[type |-> "create"]>> /\ up \o <<>> = up
      BY <1>0, <1>8, <2>1, <2>2, Concat1 DEF ResponseDone, Flush
    <3>2. Followed(up') /\ Creates(up') # {}
      BY <1>0, <3>1, FollowedByCreate
    <3> QED BY <2>1, <3>2 DEF Remembered
  <2>3. CASE ~pending
    <3>1. up' = up
      BY <1>0, <1>8, <2>3, Concat1 DEF ResponseDone, Flush
    <3> QED BY <2>1, <2>3, <3>1 DEF Remembered, WillAsk
  <2> QED BY <2>2, <2>3
<1>9. ASSUME NEW c \in Calls, RequestedRelayed(c) \/ HandlerGivesUp(c) \/ ToolAnswered(c)
      PROVE  Remembered'
  BY <1>9 DEF RequestedRelayed, HandlerGivesUp, ToolAnswered, Handler, Remembered, WillAsk
<1>10. ASSUME NEW c \in Calls, SendResult(c) PROVE Remembered'
  <2>1. UNCHANGED <<channel, unanswered, interrupted>>
    BY <1>10 DEF SendResult, Handler
  <2>2. CASE channel = "open" /\ ~in_progress
    <3> DEFINE sent == up \o <<[type |-> "output", call |-> c]>>
    <3>1. up' = sent \o <<[type |-> "create"]>>
      BY <1>10, <2>2 DEF SendResult, Flush
    <3>2. sent \in Seq(Messages)
      BY <1>0, PageMessages, Concat1
    <3> HIDE DEF sent
    <3>3. Followed(up') /\ Creates(up') # {}
      BY <3>1, <3>2, FollowedByCreate
    <3> QED BY <2>1, <2>2, <3>3 DEF Remembered
  <2>3. CASE channel = "open" /\ in_progress
    <3>1. pending' /\ in_progress'
      BY <1>0, <1>10, <2>3, SendFlushed
    <3> QED BY <2>1, <2>3, <3>1 DEF Remembered, WillAsk
  <2>4. CASE channel # "open"
    <3>1. up = <<>> /\ up' = up
      BY <1>0, <1>10, <2>4, SendFlushed DEF IInv, Empty
    <3> QED BY <2>1, <2>4, <3>1 DEF Remembered, Followed
  <2> QED BY <2>2, <2>3, <2>4
<1>11. CASE UNCHANGED vars
  BY <1>11 DEF Remembered, WillAsk
<1> QED BY <1>1, <1>2, <1>3, <1>4, <1>5, <1>6, <1>7, <1>8, <1>9, <1>10, <1>11
        DEF Next, Provide, Deliver, Handle, Continue

-----------------------------------------------------------------------------
(* The theorems *)

\* The page's flags, handlers and queues have their types.
THEOREM TurnTypes == Spec => []TypeOK
<1>1. IInv => TypeOK
  BY DEF IInv
<1> QED BY <1>1, TurnsInductive, PTL

\* For any number of calls, sessions and interruptions: when nothing is in flight,
\* state.openAIResponseInProgress says whether the provider has a response in
\* progress.
THEOREM TurnsAgree == Spec => []InProgressAgrees
<1>1. IInv => InProgressAgrees
  BY EmptyQueues DEF IInv, Agreed, InProgressAgrees, TypeOK
<1> QED BY <1>1, TurnsInductive, PTL

\* A queued response.create waits only for a response in progress, unless a result of
\* an earlier session got mixed in.
THEOREM TurnsFlushPending == Spec => []PendingIsFlushed
<1>1. IInv => PendingIsFlushed
  BY DEF IInv, Queued
<1> QED BY <1>1, TurnsInductive, PTL

\* As long as the user speaks into nothing under way, however many tool results come
\* together, the page never asks for a response during another.
THEOREM TurnsNeverCollide == Spec => []NoRefusedCreate
<1>1. IInv => NoRefusedCreate
  BY DEF IInv, Alternate, NoRefusedCreate
<1> QED BY <1>1, TurnsInductive, PTL

\* An output that no response has taken up has a response.create on its way, or one that
\* waits, and then the response whose end will flush it is in progress or the sign of it
\* is on its way to the page.
OutputNotForgotten ==
  (unanswered # {} /\ ~interrupted) =>
    Creates(up) # {} \/ (pending /\ in_progress /\ (active \/ Signals(down) # {}))

\* Of OutputIsAnswered, what needs no fairness: an output waits only for something that
\* is under way.
THEOREM TurnsForgetNoOutput == Spec => []OutputNotForgotten
<1>1. Init => Remembered
  BY DEF Init, Remembered, Followed
<1>2. IInv /\ Remembered => OutputNotForgotten
  BY DEF IInv, Agreed, Remembered, WillAsk, OutputNotForgotten
<1> QED BY <1>1, <1>2, RememberedStep, TurnsInductive, PTL DEF Spec
====
