---------------------- MODULE AwsIotIntegrationProofs ----------------------
(***************************************************************************)
(* Theorems about AwsIotIntegration for any values, with failing and       *)
(* reliable calls of the library, and any number of events: its types, the *)
(* connection flag, the reconnection, the payload and the shadow, and that *)
(* it implements AwsSession.                                               *)
(***************************************************************************)
EXTENDS AwsIotIntegration, WellFoundedInduction, TLAPS

-----------------------------------------------------------------------------
(* The events of the library and the flag they leave.                      *)

\* What the events carry.
LEMMA EventTypes ==
  /\ Connected \in Events /\ Connected.type = "connected"
  /\ Disconnected \in Events /\ Disconnected.type = "disconnected"
  /\ \A d \in Desires : Delta(d) \in Events /\ Delta(d).type = "delta" /\ Delta(d).state = d
BY DEF Events, Connected, Disconnected, Delta

\* An event is one of the three.
LEMMA EventCases ==
  ASSUME NEW e \in Events
  PROVE  \/ e = Connected
         \/ e = Disconnected
         \/ e.type = "delta" /\ e.state \in Desires
BY EventTypes DEF Events

\* A delta says nothing of the session.
LEMMA AppendDelta ==
  ASSUME NEW box \in Seq(Events), NEW d \in Desires, NEW flag \in BOOLEAN
  PROVE  FlagAfter(Append(box, Delta(d)), flag) <=> FlagAfter(box, flag)
<1> DEFINE longer == Append(box, Delta(d))
<1>1. /\ DOMAIN box = 1..Len(box) /\ Len(box) \in Nat
      /\ DOMAIN longer = 1..(Len(box) + 1)
      /\ \A i \in DOMAIN box : longer[i] = box[i]
      /\ longer[Len(box) + 1].type = "delta"
  BY EventTypes
<1>2. Telling(longer) = Telling(box)
  BY <1>1 DEF Telling
<1>3. \A i \in Telling(box) : longer[i] = box[i]
  BY <1>1 DEF Telling
<1> QED
  BY <1>2, <1>3 DEF FlagAfter

\* The start or the end of a session decides what the flag becomes.
LEMMA AppendTold ==
  ASSUME NEW box \in Seq(Events), NEW e \in {Connected, Disconnected}, NEW flag \in BOOLEAN
  PROVE  FlagAfter(Append(box, e), flag) <=> e = Connected
<1> DEFINE longer == Append(box, e)
           last   == Len(box) + 1
<1>1. /\ DOMAIN longer = 1..last /\ last \in Nat
      /\ longer[last] = e
      /\ e.type # "delta"
  BY EventTypes
<1>2. last \in Telling(longer) /\ \A j \in Telling(longer) : j \in Nat /\ j <= last
  BY <1>1 DEF Telling
<1>3. \A i \in Telling(longer) : (\A j \in Telling(longer) : j <= i) => i = last
  BY <1>2
<1> QED
  BY <1>1, <1>2, <1>3 DEF FlagAfter

\* Where the events are once the first is taken away.
LEMMA TailTelling ==
  ASSUME NEW box \in Seq(Events), box # <<>>
  PROVE  /\ Tail(box) \in Seq(Events)
         /\ Head(box) \in Events
         /\ 1 \in Telling(box) <=> Head(box).type # "delta"
         /\ box[1] = Head(box)
         /\ \A i \in Telling(Tail(box)) :
              i \in Nat \ {0} /\ i + 1 \in Telling(box) /\ box[i + 1] = Tail(box)[i]
         /\ \A i \in Telling(box) :
              i \in Nat \ {0} /\ (i # 1 => /\ i - 1 \in Telling(Tail(box))
                                           /\ Tail(box)[i - 1] = box[i])
<1>1. /\ Tail(box) \in Seq(Events)
      /\ Head(box) = box[1] /\ Head(box) \in Events
      /\ DOMAIN box = 1..Len(box) /\ Len(box) \in Nat /\ Len(box) >= 1
      /\ DOMAIN Tail(box) = 1..(Len(box) - 1)
      /\ \A i \in DOMAIN Tail(box) : Tail(box)[i] = box[i + 1]
  OBVIOUS
<1>2. ASSUME NEW i \in Telling(Tail(box))
      PROVE  i \in Nat \ {0} /\ i + 1 \in Telling(box) /\ box[i + 1] = Tail(box)[i]
  BY <1>1 DEF Telling
<1>3. ASSUME NEW i \in Telling(box)
      PROVE  i \in Nat \ {0} /\ (i # 1 => /\ i - 1 \in Telling(Tail(box))
                                          /\ Tail(box)[i - 1] = box[i])
  <2>1. i \in 1..Len(box) /\ box[i].type # "delta"
    BY <1>1 DEF Telling
  <2>2. CASE i # 1
    <3>1. i - 1 \in DOMAIN Tail(box) /\ Tail(box)[i - 1] = box[(i - 1) + 1] /\ (i - 1) + 1 = i
      BY <1>1, <2>1, <2>2
    <3> QED
      BY <2>1, <3>1 DEF Telling
  <2> QED
    BY <1>1, <2>1, <2>2
<1>4. 1 \in Telling(box) <=> Head(box).type # "delta"
  BY <1>1 DEF Telling
<1> QED
  BY <1>1, <1>2, <1>3, <1>4

\* The last event that tells is the last of what is left, if anything is.
LEMMA TailLast ==
  ASSUME NEW box \in Seq(Events), box # <<>>, Telling(Tail(box)) # {}, NEW flag
  PROVE  FlagAfter(Tail(box), flag) <=> FlagAfter(box, flag)
<1>1. Telling(box) # {}
  BY TailTelling
<1>2. ASSUME NEW i \in Telling(box), \A j \in Telling(box) : j <= i
      PROVE  /\ i - 1 \in Telling(Tail(box)) /\ Tail(box)[i - 1] = box[i]
             /\ \A j \in Telling(Tail(box)) : j <= i - 1
  <2>1. ASSUME NEW j \in Telling(Tail(box)) PROVE j \in Nat \ {0} /\ j + 1 <= i
    BY <1>2, TailTelling
  <2>2. i \in Nat /\ i # 1
    BY <2>1, TailTelling
  <2>3. \A j \in Telling(Tail(box)) : j <= i - 1
    BY <2>1, <2>2
  <2> QED
    BY <2>2, <2>3, TailTelling
<1>3. ASSUME NEW i \in Telling(Tail(box)), \A j \in Telling(Tail(box)) : j <= i
      PROVE  /\ i + 1 \in Telling(box) /\ Tail(box)[i] = box[i + 1]
             /\ \A j \in Telling(box) : j <= i + 1
  <2>1. i \in Nat \ {0}
    BY TailTelling
  <2>2. ASSUME NEW j \in Telling(box) PROVE j <= i + 1
    <3>1. j \in Nat \ {0} /\ (j # 1 => j - 1 <= i)
      BY <1>3, TailTelling
    <3> QED
      BY <2>1, <3>1
  <2> QED
    BY <2>2, TailTelling
<1>4. FlagAfter(box, flag) => FlagAfter(Tail(box), flag)
  BY <1>1, <1>2 DEF FlagAfter
<1>5. FlagAfter(Tail(box), flag) => FlagAfter(box, flag)
  BY <1>1, <1>3 DEF FlagAfter
<1> QED
  BY <1>4, <1>5

\* Handling a delta leaves the flag and what it becomes.
LEMMA TailOfDelta ==
  ASSUME NEW box \in Seq(Events), box # <<>>, Head(box).type = "delta", NEW flag \in BOOLEAN
  PROVE  FlagAfter(Tail(box), flag) <=> FlagAfter(box, flag)
<1>1. CASE Telling(Tail(box)) = {}
  <2>1. Telling(box) = {}
    BY <1>1, TailTelling
  <2> QED
    BY <1>1, <2>1 DEF FlagAfter
<1> QED
  BY <1>1, TailLast

\* Handling the start or the end of a session sets the flag it told of.
LEMMA TailOfTold ==
  ASSUME NEW box \in Seq(Events), box # <<>>, NEW flag \in BOOLEAN, NEW told \in BOOLEAN,
         Head(box) \in {Connected, Disconnected}, told <=> Head(box) = Connected
  PROVE  FlagAfter(Tail(box), told) <=> FlagAfter(box, flag)
<1>1. 1 \in Telling(box) /\ box[1] = Head(box)
  BY TailTelling, EventTypes
<1>2. CASE Telling(Tail(box)) = {}
  <2>1. Telling(box) = {1}
    BY <1>1, <1>2, TailTelling
  <2> QED
    BY <1>1, <1>2, <2>1 DEF FlagAfter
<1>3. CASE Telling(Tail(box)) # {}
  <2>1. FlagAfter(Tail(box), told) <=> FlagAfter(Tail(box), flag)
    BY <1>3 DEF FlagAfter
  <2> QED
    BY <1>3, <2>1, TailLast
<1> QED
  BY <1>2, <1>3

-----------------------------------------------------------------------------
(* Type correctness.                                                       *)

\* What is sent to the shadow leaves a shadow, and events in the inbox.
LEMMA PublishType ==
  ASSUME NEW box \in Seq(Events), NEW des \in Desires, NEW rep \in Reports
  PROVE  /\ Difference(des, rep) \in Desires
         /\ Publish(box, des, rep) \in Seq(Events)
         /\ \/ Publish(box, des, rep) = box
            \/ Publish(box, des, rep) = Append(box, Delta(Difference(des, rep)))
<1>1. Difference(des, rep) \in Desires
  BY DEF Difference, Desires, Reports
<1> QED
  BY <1>1, EventTypes DEF Publish

\* Both ways to send, or not to, as seen by the shadow and the inbox.
LEMMA SendType ==
  ASSUME TypeOK, NEW m \in Reports, NEW old \in BOOLEAN,
         ClearDesired \/ SendReported(m, old) \/ SendFails
  PROVE  /\ desired' \in Desires /\ reported' \in Reports /\ inbox' \in Seq(Events)
         /\ failed' \in BOOLEAN /\ stale' \in BOOLEAN
         /\ \/ inbox' = inbox
            \/ \E d \in Desires : inbox' = Append(inbox, Delta(d))
<1>1. NoDesire \in Desires
  BY DEF NoDesire, Desires
<1>0. failed \in BOOLEAN /\ stale \in BOOLEAN
  BY DEF TypeOK
<1>2. CASE ClearDesired
  BY <1>0, <1>1, <1>2 DEF ClearDesired, TypeOK, history
<1>3. CASE SendReported(m, old)
  <2>1. inbox \in Seq(Events) /\ desired \in Desires /\ reported \in Reports
    BY DEF TypeOK
  <2>4. failed' \in BOOLEAN /\ stale' \in BOOLEAN
    BY <1>0, <1>3 DEF SendReported
  <2>2. CASE session = "up"
    <3>1. inbox' = Publish(inbox, desired, m) /\ desired' = desired /\ reported' = m
      BY <1>3, <2>2 DEF SendReported
    <3>2. /\ Publish(inbox, desired, m) \in Seq(Events)
          /\ \/ Publish(inbox, desired, m) = inbox
             \/ \E d \in Desires : Publish(inbox, desired, m) = Append(inbox, Delta(d))
      BY <2>1, PublishType
    <3> QED
      BY <2>1, <2>4, <3>1, <3>2
  <2>3. CASE session # "up"
    BY <1>3, <2>1, <2>3, <2>4 DEF SendReported
  <2> QED
    BY <2>2, <2>3
<1>4. CASE SendFails
  BY <1>0, <1>4 DEF SendFails, TypeOK, shadow
<1> QED
  BY <1>2, <1>3, <1>4

\* The next event, for a handler that takes it, and the events that are left.
LEMMA ReceiveType ==
  ASSUME TypeOK, NEW type, Receive(type)
  PROVE  /\ inbox' \in Seq(Events)
         /\ Head(inbox) \in Events
         /\ type = "delta" => Head(inbox).state \in Desires
         /\ type = "connected" => Head(inbox) = Connected
         /\ type = "disconnected" => Head(inbox) = Disconnected
<1>1. Head(inbox) \in Events /\ inbox' = Tail(inbox) /\ Head(inbox).type = type
  BY TailTelling DEF TypeOK, Receive
<1> QED
  BY <1>1, TailTelling, EventCases, EventTypes DEF TypeOK, Receive

LEMMA Init_TypeOK == Init => TypeOK
<1> SUFFICES ASSUME Init PROVE TypeOK
  OBVIOUS
<1>1. [a \in Attributes |-> 0] \in Reports
  BY ValuesAssumption DEF Reports
<1>2. inbox \in Seq(Events)
  BY DEF Init
<1> QED
  BY <1>1, <1>2, ValuesAssumption DEF Init, TypeOK, Attributes

LEMMA Set_TypeOK == TypeOK /\ SetStep => TypeOK'
<1> SUFFICES ASSUME TypeOK, SetStep PROVE TypeOK'
  OBVIOUS
<1> USE DEF TypeOK, link, attempt, copy, libPc, setPc, shadow, history
<1>1. CASE ComparePayload
  <2>1. payload' \in Reports /\ unapplied' \subseteq Attributes
    BY <1>1 DEF ComparePayload, Reports
  <2> QED
    BY <1>1, <2>1 DEF ComparePayload, SetReturns
<1>2. CASE CheckConnected
  BY <1>2 DEF CheckConnected, SetReturns
<1>3. CASE SetEncodes
  BY <1>3 DEF SetEncodes
<1>4. CASE SetSends
  <2>1. /\ desired' \in Desires /\ reported' \in Reports /\ inbox' \in Seq(Events)
        /\ failed' \in BOOLEAN /\ stale' \in BOOLEAN
    BY <1>4, SendType DEF SetSends
  <2>2. late' \in BOOLEAN
    BY <1>4 DEF SetSends, ClearDesired
  <2>3. \/ set' = "update" /\ lock' = "matter"
        \/ set' = "idle" /\ lock' = "free"
    BY <1>4 DEF SetSends, SetReturns
  <2>4. UNCHANGED <<link, is_connected_to_aws_iot, copy, libPc, id, setMessage, device,
                    session>>
    BY <1>4 DEF SetSends
  <2> QED
    BY <2>1, <2>2, <2>3, <2>4
<1> QED
  BY <1>1, <1>2, <1>3, <1>4 DEF SetStep

\* What a delta leaves of the payload, decoded as a whole or in part.
LEMMA DecodeType ==
  ASSUME TypeOK, Receive("delta"), NEW met \in SUBSET Numbers(Head(inbox).state),
         Decode(Head(inbox).state, met)
  PROVE  payload' \in Reports /\ unapplied' \subseteq Attributes
<1>1. met \subseteq Attributes /\ \A a \in met : Head(inbox).state[a] \in Values
  BY DEF Numbers
<1> QED
  BY <1>1 DEF TypeOK, Decode, Reports

LEMMA Lib_TypeOK == TypeOK /\ LibStep => TypeOK'
<1> SUFFICES ASSUME TypeOK, LibStep PROVE TypeOK'
  OBVIOUS
<1> USE DEF TypeOK, link, attempt, copy, libPc, setPc, shadow, history
<1>1. CASE OnConnected
  BY <1>1, ReceiveType DEF OnConnected
<1>2. CASE OnDisconnected
  <2>1. inbox' \in Seq(Events)
    BY <1>2, ReceiveType DEF OnDisconnected
  <2>2. /\ connect_work' = "armed" /\ gaveUp' \in BOOLEAN
        /\ is_connected_to_aws_iot' \in BOOLEAN
    BY <1>2 DEF OnDisconnected, Arm
  <2>3. UNCHANGED <<is_connected_to_network, connecting, init, copy, libPc, setPc, lock,
                    device, session, shadow, history>>
    BY <1>2 DEF OnDisconnected
  <2> QED
    BY <2>1, <2>2, <2>3
<1>3. CASE OnDelta
  <2>1. inbox' \in Seq(Events)
    BY <1>3, ReceiveType DEF OnDelta
  <2>2. payload' \in Reports /\ unapplied' \subseteq Attributes
    BY <1>3, DecodeType DEF OnDelta
  <2> QED
    BY <1>3, <2>1, <2>2 DEF OnDelta, Attributes
<1>4. CASE ReadValue
  BY <1>4 DEF ReadValue, Reports
<1>5. CASE ApplyValue
  <2>1. device' \in Reports /\ payload' \in Reports /\ unapplied' \subseteq Attributes
    BY <1>5 DEF ApplyValue, Reports
  <2>2. /\ lib' \in {"clear", "read", "update"} /\ attr' \in Attributes
        /\ lock' \in {"free", "lib"} /\ lock = "free"
    BY <1>5 DEF ApplyValue, NextAttribute, Attributes
  <2>3. UNCHANGED <<link, is_connected_to_aws_iot, value, libMessage, setPc, session, inbox,
                    shadow, history>>
    BY <1>5 DEF ApplyValue
  <2> QED
    BY <2>1, <2>2, <2>3
<1>6. CASE RefuseValue
  <2>1. lib' = "idle" /\ failed' \in BOOLEAN
    BY <1>6 DEF RefuseValue
  <2>2. UNCHANGED <<link, is_connected_to_aws_iot, copy, attr, value, libMessage, setPc,
                    lock, device, session, inbox, shadow, late, stale>>
    BY <1>6 DEF RefuseValue
  <2> QED
    BY <2>1, <2>2
<1>7. CASE LibEncodes
  <2>1. lib' = "send" /\ libMessage' \in Reports /\ late' \in BOOLEAN
    BY <1>7 DEF LibEncodes
  <2>2. UNCHANGED <<link, is_connected_to_aws_iot, copy, attr, value, setPc, lock, device,
                    session, inbox, shadow, failed, stale>>
    BY <1>7 DEF LibEncodes
  <2> QED
    BY <2>1, <2>2
<1>8. CASE LibSends
  <2>1. /\ desired' \in Desires /\ reported' \in Reports /\ inbox' \in Seq(Events)
        /\ failed' \in BOOLEAN /\ stale' \in BOOLEAN
    BY <1>8, SendType DEF LibSends
  <2>2. late' \in BOOLEAN
    BY <1>8 DEF LibSends, ClearDesired
  <2> QED
    BY <1>8, <2>1, <2>2 DEF LibSends, LibReturns, NextAttribute, Attributes
<1>9. CASE OnBadDelta
  <2>1. inbox' \in Seq(Events)
    BY <1>9, ReceiveType DEF OnBadDelta
  <2>2. payload' \in Reports /\ unapplied' \subseteq Attributes
    BY <1>9, DecodeType DEF OnBadDelta
  <2> QED
    BY <1>9, <2>1, <2>2 DEF OnBadDelta
<1> QED
  BY <1>1, <1>2, <1>3, <1>4, <1>5, <1>6, <1>7, <1>8, <1>9 DEF LibStep

\* The variables of the attempts to connect and those of the session, apart
\* from the others, which no handler of theirs touches.
LinkTypes == /\ {is_connected_to_network, connecting, init, gaveUp} \subseteq BOOLEAN
             /\ connect_work \in {"none", "armed"}

SessionTypes == session \in {"up", "down"} /\ inbox \in Seq(Events)

LEMMA TypesOfLink ==
  ASSUME TypeOK, LinkTypes', SessionTypes',
         UNCHANGED <<is_connected_to_aws_iot, copy, libPc, setPc, lock, device, shadow,
                     history>>
  PROVE  TypeOK'
<1>1. /\ is_connected_to_aws_iot' \in BOOLEAN
      /\ {is_connected_to_network', connecting', init', gaveUp'} \subseteq BOOLEAN
  BY DEF TypeOK, LinkTypes
<1> QED
  BY <1>1 DEF TypeOK, LinkTypes, SessionTypes, copy, libPc, setPc, shadow, history

LEMMA Work_TypeOK == TypeOK /\ WorkStep => TypeOK'
<1> SUFFICES ASSUME TypeOK, WorkStep PROVE TypeOK'
  OBVIOUS
<1>1. LinkTypes /\ SessionTypes
  BY DEF TypeOK, LinkTypes, SessionTypes
<1> USE DEF LinkTypes
<1>2. CASE ConnectWork
  BY <1>1, <1>2, TypesOfLink DEF ConnectWork, GiveUp, SessionTypes
<1>3. CASE ConnectOk
  <2>1. SessionTypes'
    BY <1>1, <1>3, EventTypes DEF ConnectOk, SessionTypes
  <2> QED
    BY <1>1, <1>3, <2>1, TypesOfLink DEF ConnectOk
<1>4. CASE ConnectTimeout
  BY <1>1, <1>4, TypesOfLink DEF ConnectTimeout, Arm, SessionTypes
<1>5. CASE ConnectError
  BY <1>1, <1>5, TypesOfLink DEF ConnectError, GiveUp, SessionTypes
<1> QED
  BY <1>2, <1>3, <1>4, <1>5 DEF WorkStep

LEMMA Env_TypeOK == TypeOK /\ EnvStep => TypeOK'
<1> SUFFICES ASSUME TypeOK, EnvStep PROVE TypeOK'
  OBVIOUS
<1>0. LinkTypes /\ SessionTypes
  BY DEF TypeOK, LinkTypes, SessionTypes
<1>1. CASE L4Connected
  BY <1>0, <1>1, TypesOfLink DEF L4Connected, Arm, LinkTypes, SessionTypes
<1>2. CASE L4Disconnected
  <2>1. SessionTypes'
    BY <1>0, <1>2, EventTypes DEF L4Disconnected, SessionEnds, SessionTypes
  <2> QED
    BY <1>0, <1>2, <2>1, TypesOfLink DEF L4Disconnected, LinkTypes, attempt
<1>3. CASE SessionDrop
  <2>1. SessionTypes'
    BY <1>0, <1>3, EventTypes DEF SessionDrop, SessionEnds, SessionTypes
  <2> QED
    BY <1>0, <1>3, <2>1, TypesOfLink DEF SessionDrop, LinkTypes, link, attempt
<1> USE DEF TypeOK, link, attempt, copy, libPc, setPc, shadow, history
<1>4. ASSUME NEW a \in Attributes, NEW v \in Values, LocalChange(a, v) PROVE TypeOK'
  BY <1>4 DEF LocalChange, Reports
<1>5. ASSUME NEW a \in Attributes, NEW v \in Values \cup {NoNumber}, CloudDesire(a, v) PROVE TypeOK'
  <2>1. desired' \in Desires
    BY <1>5 DEF CloudDesire, Desires
  <2>2. inbox' \in Seq(Events)
    BY <1>5, <2>1, PublishType DEF CloudDesire
  <2> QED
    BY <1>5, <2>1, <2>2 DEF CloudDesire
<1> QED
  BY <1>1, <1>2, <1>3, <1>4, <1>5 DEF EnvStep

LEMMA Next_TypeOK == TypeOK /\ [Next]_vars => TypeOK'
<1>1. TypeOK /\ UNCHANGED vars => TypeOK'
  BY DEF TypeOK, vars, link, attempt, copy, libPc, setPc, shadow, history
<1> QED
  BY <1>1, Set_TypeOK, Lib_TypeOK, Work_TypeOK, Env_TypeOK DEF Next

\* Whatever order the four parties act in, every variable of the module, the
\* inbox and the shadow keep their types, and the Matter stack is locked
\* exactly while an attribute is being reported.
THEOREM Spec_TypeOK == Spec => []TypeOK
BY Init_TypeOK, Next_TypeOK, PTL DEF Spec

-----------------------------------------------------------------------------
(* The connection flag.                                                    *)

\* What a step may do to the session, the flag and the events on their way.
Silent    == UNCHANGED <<session, is_connected_to_aws_iot, inbox>>
Published == /\ UNCHANGED <<session, is_connected_to_aws_iot>>
             /\ \E d \in Desires : inbox' = Append(inbox, Delta(d))
Starts    == /\ session = "down" /\ session' = "up" /\ UNCHANGED is_connected_to_aws_iot
             /\ inbox' = Append(inbox, Connected)
Ends      == session = "up" /\ SessionEnds /\ UNCHANGED is_connected_to_aws_iot

LEMMA NextEvents ==
  ASSUME TypeOK, [Next]_vars
  PROVE  Silent \/ Published \/ Starts \/ Ends \/ OnConnected \/ OnDisconnected \/ OnDelta
         \/ OnBadDelta
<1> USE DEF Silent
<1>1. CASE SetStep
  <2>1. CASE ComparePayload \/ CheckConnected \/ SetEncodes
    BY <2>1 DEF ComparePayload, CheckConnected, SetEncodes
  <2>2. CASE SetSends
    <3>1. UNCHANGED <<session, is_connected_to_aws_iot>>
      BY <2>2 DEF SetSends
    <3>2. inbox' = inbox \/ \E d \in Desires : inbox' = Append(inbox, Delta(d))
      BY <2>2, SendType DEF SetSends, TypeOK
    <3> QED
      BY <3>1, <3>2 DEF Published
  <2> QED
    BY <1>1, <2>1, <2>2 DEF SetStep
<1>2. CASE LibStep
  <2>1. CASE ReadValue \/ ApplyValue \/ RefuseValue \/ LibEncodes
    BY <2>1 DEF ReadValue, ApplyValue, RefuseValue, LibEncodes
  <2>2. CASE LibSends
    <3>1. UNCHANGED <<session, is_connected_to_aws_iot>>
      BY <2>2 DEF LibSends
    <3>2. inbox' = inbox \/ \E d \in Desires : inbox' = Append(inbox, Delta(d))
      BY <2>2, SendType DEF LibSends, TypeOK
    <3> QED
      BY <3>1, <3>2 DEF Published
  <2> QED
    BY <1>2, <2>1, <2>2 DEF LibStep
<1>3. CASE WorkStep
  <2>1. CASE ConnectWork \/ ConnectTimeout \/ ConnectError
    BY <2>1 DEF ConnectWork, ConnectTimeout, ConnectError
  <2>2. CASE ConnectOk
    BY <2>2 DEF ConnectOk, Starts
  <2> QED
    BY <1>3, <2>1, <2>2 DEF WorkStep
<1>4. CASE EnvStep
  <2>1. CASE L4Connected
    BY <2>1 DEF L4Connected
  <2>2. CASE L4Disconnected
    BY <2>2 DEF L4Disconnected, Ends
  <2>3. CASE SessionDrop
    BY <2>3 DEF SessionDrop, Ends
  <2>4. ASSUME NEW a \in Attributes, NEW v \in Values, LocalChange(a, v)
        PROVE  Silent
    BY <2>4 DEF LocalChange
  <2>5. ASSUME NEW a \in Attributes, NEW v \in Values \cup {NoNumber}, CloudDesire(a, v)
        PROVE  Silent \/ Published
    <3>1. desired' \in Desires /\ reported \in Reports /\ inbox \in Seq(Events)
      BY <2>5, Env_TypeOK DEF EnvStep, TypeOK
    <3>2. UNCHANGED <<session, is_connected_to_aws_iot>>
      BY <2>5 DEF CloudDesire
    <3>3. inbox' = inbox \/ \E d \in Desires : inbox' = Append(inbox, Delta(d))
      <4>1. CASE session = "up"
        <5>1. inbox' = Publish(inbox, desired', reported)
          BY <2>5, <4>1 DEF CloudDesire
        <5>2. /\ Difference(desired', reported) \in Desires
              /\ \/ Publish(inbox, desired', reported) = inbox
                 \/ Publish(inbox, desired', reported)
                      = Append(inbox, Delta(Difference(desired', reported)))
          BY <3>1, PublishType
        <5> QED
          BY <5>1, <5>2
      <4>2. CASE session # "up"
        BY <2>5, <4>2 DEF CloudDesire
      <4> QED
        BY <4>1, <4>2
    <3> QED
      BY <3>2, <3>3 DEF Published
  <2> QED
    BY <1>4, <2>1, <2>2, <2>3, <2>4, <2>5 DEF EnvStep
<1>5. CASE UNCHANGED vars
  BY <1>5 DEF vars
<1> QED
  BY <1>1, <1>2, <1>3, <1>4, <1>5 DEF Next

LEMMA Next_FlagFollowsSession ==
  TypeOK /\ FlagFollowsSession /\ [Next]_vars => FlagFollowsSession'
<1> SUFFICES ASSUME TypeOK, FlagFollowsSession, [Next]_vars PROVE FlagFollowsSession'
  OBVIOUS
<1> DEFINE flag == is_connected_to_aws_iot
<1>1. /\ inbox \in Seq(Events) /\ flag \in BOOLEAN
      /\ FlagAfter(inbox, flag) <=> session = "up"
  BY DEF TypeOK, FlagFollowsSession
<1>2. CASE Silent
  BY <1>1, <1>2 DEF Silent, FlagFollowsSession
<1>3. CASE Published
  BY <1>1, <1>3, AppendDelta DEF Published, FlagFollowsSession
<1>4. CASE Starts
  BY <1>1, <1>4, AppendTold DEF Starts, FlagFollowsSession
<1>5. CASE Ends
  <2>1. Connected # Disconnected
    BY EventTypes
  <2> QED
    BY <1>1, <1>5, <2>1, AppendTold DEF Ends, SessionEnds, FlagFollowsSession
<1>6. CASE OnConnected
  <2>1. Head(inbox) = Connected /\ inbox # <<>> /\ inbox' = Tail(inbox)
    BY <1>6, ReceiveType DEF OnConnected, Receive
  <2>2. FlagAfter(inbox', TRUE) <=> FlagAfter(inbox, flag)
    BY <1>1, <2>1, TailOfTold
  <2> QED
    BY <1>1, <1>6, <2>2 DEF OnConnected, FlagFollowsSession
<1>7. CASE OnDisconnected
  <2>1. Head(inbox) = Disconnected /\ inbox # <<>> /\ inbox' = Tail(inbox)
    BY <1>7, ReceiveType DEF OnDisconnected, Receive
  <2>2. FlagAfter(inbox', FALSE) <=> FlagAfter(inbox, flag)
    BY <1>1, <2>1, TailOfTold, EventTypes
  <2> QED
    BY <1>1, <1>7, <2>2 DEF OnDisconnected, FlagFollowsSession
<1>8. CASE OnDelta \/ OnBadDelta
  <2>1. /\ Head(inbox).type = "delta" /\ inbox # <<>> /\ inbox' = Tail(inbox)
        /\ UNCHANGED <<is_connected_to_aws_iot, session>>
    BY <1>8 DEF OnDelta, OnBadDelta, Receive
  <2> QED
    BY <1>1, <2>1, TailOfDelta DEF FlagFollowsSession
<1> QED
  BY <1>2, <1>3, <1>4, <1>5, <1>6, <1>7, <1>8, NextEvents

LEMMA Init_FlagFollowsSession == Init => FlagFollowsSession
BY DEF Init, FlagFollowsSession, FlagAfter, Telling

\* However many sessions start and end and whenever their events are handled,
\* is_connected_to_aws_iot is right once they are: the two stores of
\* aws_iot_event_handler need no lock to stay in step with the session.
THEOREM Spec_FlagFollowsSession == Spec => []FlagFollowsSession
<1>1. TypeOK /\ FlagFollowsSession /\ [Next]_vars => (TypeOK /\ FlagFollowsSession)'
  BY Next_TypeOK, Next_FlagFollowsSession
<1> QED
  BY <1>1, Init_TypeOK, Init_FlagFollowsSession, PTL DEF Spec

-----------------------------------------------------------------------------
(* The reconnection.                                                       *)

\* What is in a longer and in a shorter inbox.
LEMMA InboxParts ==
  ASSUME NEW box \in Seq(Events)
  PROVE  /\ \A i \in DOMAIN box : box[i] \in Range(box)
         /\ \A e \in Events : Range(Append(box, e)) = Range(box) \cup {e}
         /\ box # <<>> => Range(box) = {Head(box)} \cup Range(Tail(box))
         /\ box = <<>> => Range(box) = {}
<1> USE DEF Range
<1>1. ASSUME NEW e \in Events
      PROVE  Range(Append(box, e)) = Range(box) \cup {e}
  <2>1. /\ DOMAIN Append(box, e) = DOMAIN box \cup {Len(box) + 1}
        /\ \A i \in DOMAIN box : Append(box, e)[i] = box[i]
        /\ Append(box, e)[Len(box) + 1] = e
    OBVIOUS
  <2> QED
    BY <2>1
<1>2. ASSUME box # <<>>
      PROVE  Range(box) = {Head(box)} \cup Range(Tail(box))
  <2>1. /\ Head(box) = box[1] /\ 1 \in DOMAIN box
        /\ \A i \in DOMAIN Tail(box) : i + 1 \in DOMAIN box /\ Tail(box)[i] = box[i + 1]
    BY <1>2
  <2>2. ASSUME NEW i \in DOMAIN box
        PROVE  box[i] = Head(box) \/ \E j \in DOMAIN Tail(box) : Tail(box)[j] = box[i]
    <3>1. i # 1 => i - 1 \in DOMAIN Tail(box) /\ Tail(box)[i - 1] = box[i]
      BY <1>2
    <3> QED
      BY <2>1, <3>1
  <2>3. Range(box) \subseteq {Head(box)} \cup Range(Tail(box))
    BY <2>2
  <2>4. Range(Tail(box)) \subseteq Range(box) /\ Head(box) \in Range(box)
    BY <2>1
  <2> QED
    BY <2>3, <2>4
<1>3. box = <<>> => Range(box) = {}
  <2>1. DOMAIN box = 1..Len(box) /\ (box = <<>> => Len(box) = 0)
    OBVIOUS
  <2> QED
    BY <2>1
<1> QED
  BY <1>1, <1>2, <1>3

\* Among the events that tell there is a last one.
LEMMA LastTold ==
  ASSUME NEW box \in Seq(Events), Telling(box) # {}
  PROVE  \E i \in Telling(box) : \A j \in Telling(box) : j <= i
<1> DEFINE left == {Len(box) - i : i \in Telling(box)}
           less == {p \in Nat \X Nat : p[1] < p[2]}
<1>1. \A i \in Telling(box) : i \in Nat /\ Len(box) - i \in Nat
  BY DEF Telling
<1>2. left \subseteq Nat /\ left # {}
  BY <1>1
<1>3. IsWellFoundedOn(less, Nat)
  BY NatLessThanWellFounded DEF OpToRel
<1>4. PICK n \in left : \A m \in left : <<m, n>> \notin less
  <2> HIDE DEF left, less
  <2> QED
    BY <1>2, <1>3, WFMin
<1>5. PICK i \in Telling(box) : n = Len(box) - i
  OBVIOUS
<1>6. ASSUME NEW j \in Telling(box) PROVE j <= i
  <2>1. Len(box) - j \in left /\ Len(box) - j \in Nat /\ n \in Nat
    BY <1>1, <1>2
  <2>2. ~(Len(box) - j < n)
    BY <1>4, <2>1
  <2> QED
    BY <1>1, <1>5, <2>2
<1> QED
  BY <1>6

\* If an event says that a session is up and there is none by now, the event
\* that says so is behind it.
LEMMA EndIsOnItsWay ==
  ASSUME NEW box \in Seq(Events), box # <<>>, Head(box) = Connected,
         NEW flag \in BOOLEAN, ~FlagAfter(box, flag)
  PROVE  Disconnected \in Range(Tail(box))
<1>1. 1 \in Telling(box) /\ box[1] = Connected
  BY TailTelling, EventTypes
<1>2. PICK i \in Telling(box) : \A j \in Telling(box) : j <= i
  BY <1>1, LastTold
<1>3. i \in DOMAIN box /\ box[i] \in Events /\ box[i].type # "delta"
  BY DEF Telling
<1>4. box[i] # Connected
  BY <1>1, <1>2 DEF FlagAfter
<1>5. box[i] = Disconnected
  BY <1>3, <1>4, EventCases
<1>6. Connected # Disconnected /\ Head(box) = Connected
  BY EventTypes
<1> QED
  BY <1>3, <1>5, <1>6, InboxParts

\* What a step that begins or ends no session does to the events that do so.
LEMMA Next_Inbox ==
  ASSUME TypeOK, [Next]_vars, NEW e \in {Connected, Disconnected}
  PROVE  \/ e \in Range(inbox) <=> (e \in Range(inbox))'
         \/ Starts \/ Ends \/ OnConnected \/ OnDisconnected
<1>1. inbox \in Seq(Events) /\ e.type # "delta" /\ e \in Events
  BY EventTypes DEF TypeOK
<1>2. CASE Silent
  BY <1>2 DEF Silent
<1>3. CASE Published
  BY <1>1, <1>3, InboxParts, EventTypes DEF Published
<1>4. CASE OnDelta \/ OnBadDelta
  <2>1. inbox # <<>> /\ inbox' = Tail(inbox) /\ Head(inbox) # e
    BY <1>1, <1>4 DEF OnDelta, OnBadDelta, Receive
  <2> QED
    BY <1>1, <2>1, InboxParts
<1> QED
  BY <1>2, <1>3, <1>4, NextEvents

\* What a step does to the network and to the attempts to connect.
LEMMA NextAttempt ==
  ASSUME [Next]_vars
  PROVE  \/ UNCHANGED <<is_connected_to_network, attempt, session>>
         \/ OnConnected \/ OnDisconnected \/ L4Connected \/ Ends \/ WorkStep
         \/ L4Disconnected /\ UNCHANGED <<attempt, session, inbox>>
<1> USE DEF link
<1>1. CASE SetStep
  BY <1>1 DEF SetStep, ComparePayload, CheckConnected, SetEncodes, SetSends
<1>2. CASE LibStep
  BY <1>2 DEF LibStep, OnDelta, OnBadDelta, ReadValue, ApplyValue, RefuseValue, LibEncodes,
              LibSends
<1>3. CASE EnvStep
  BY <1>3 DEF EnvStep, L4Disconnected, SessionDrop, LocalChange, CloudDesire, Ends
<1>4. CASE UNCHANGED vars
  BY <1>4 DEF vars
<1> QED
  BY <1>1, <1>2, <1>3, <1>4 DEF Next

\* The event of a session's end stays in the inbox until it is handled.
LEMMA EndStays ==
  ASSUME TypeOK, [Next]_vars, Disconnected \in Range(inbox)
  PROVE  OnDisconnected \/ (Disconnected \in Range(inbox))'
<1>1. inbox \in Seq(Events) /\ Connected # Disconnected
  BY EventTypes DEF TypeOK
<1>2. CASE Starts \/ Ends
  <2>1. PICK e \in Events : inbox' = Append(inbox, e)
    BY <1>2, EventTypes DEF Starts, Ends, SessionEnds
  <2>2. Range(Append(inbox, e)) = Range(inbox) \cup {e}
    BY <1>1, InboxParts
  <2> QED
    BY <2>1, <2>2
<1>3. CASE OnConnected
  <2>1. inbox # <<>> /\ inbox' = Tail(inbox) /\ Head(inbox) = Connected
    BY <1>3, ReceiveType DEF OnConnected, Receive
  <2> QED
    BY <1>1, <2>1, InboxParts
<1> QED
  BY <1>2, <1>3, Next_Inbox

LEMMA Next_NeverStranded ==
  TypeOK /\ FlagFollowsSession /\ NeverStranded /\ [Next]_vars => NeverStranded'
<1> SUFFICES ASSUME TypeOK, FlagFollowsSession, NeverStranded, [Next]_vars,
                    is_connected_to_network', session' = "down"
             PROVE  (gaveUp \/ Trying)'
  BY DEF NeverStranded
<1>1. CASE OnConnected
  <2>1. inbox # <<>> /\ Head(inbox) = Connected /\ inbox' = Tail(inbox)
    BY <1>1, ReceiveType DEF OnConnected, Receive
  <2>2. ~FlagAfter(inbox, is_connected_to_aws_iot)
    BY <1>1 DEF OnConnected, FlagFollowsSession
  <2> QED
    BY <2>1, <2>2, EndIsOnItsWay DEF Trying, TypeOK
<1>2. CASE OnDisconnected
  BY <1>2 DEF OnDisconnected, Arm, Trying
<1>3. CASE Ends
  <2>1. inbox' = Append(inbox, Disconnected) /\ inbox \in Seq(Events)
    BY <1>3 DEF Ends, SessionEnds, TypeOK
  <2> QED
    BY <2>1, InboxParts, EventTypes DEF Trying
<1>4. CASE WorkStep
  <2>1. CASE ConnectWork
    BY <2>1 DEF ConnectWork, GiveUp, Trying
  <2>2. CASE ConnectOk
    BY <2>2 DEF ConnectOk
  <2>3. CASE ConnectTimeout
    BY <2>3 DEF ConnectTimeout, Arm, Trying
  <2>4. CASE ConnectError
    BY <2>4 DEF ConnectError, GiveUp, Trying
  <2> QED
    BY <1>4, <2>1, <2>2, <2>3, <2>4 DEF WorkStep
<1>5. CASE L4Connected
  BY <1>5 DEF L4Connected, Arm, Trying
<1>6. CASE UNCHANGED <<is_connected_to_network, attempt, session>> /\ ~OnDisconnected
  <2>1. gaveUp \/ Trying
    BY <1>6 DEF NeverStranded
  <2> QED
    BY <1>6, <2>1, EndStays DEF Trying, attempt
<1> QED
  BY <1>1, <1>2, <1>3, <1>4, <1>5, <1>6, NextAttempt DEF L4Disconnected

LEMMA Init_NeverStranded == Init => NeverStranded
BY DEF Init, NeverStranded

\* With a network and no session something is always on its way that will try
\* to connect, or the application has been told of an error: cancelling
\* connect_work on AWS_IOT_EVT_CONNECTED loses no attempt that is still needed.
THEOREM Spec_NeverStranded == Spec => []NeverStranded
<1>1. /\ TypeOK /\ FlagFollowsSession /\ NeverStranded /\ [Next]_vars
           => (TypeOK /\ FlagFollowsSession /\ NeverStranded)'
  BY Next_TypeOK, Next_FlagFollowsSession, Next_NeverStranded
<1> QED
  BY <1>1, Init_TypeOK, Init_FlagFollowsSession, Init_NeverStranded, PTL DEF Spec

-----------------------------------------------------------------------------
(* The session: AwsIotIntegration implements AwsSession.                   *)

\* A session needs a network; and without errors, a session that is up is the
\* only reason to give up, so that giving up does no harm.
SessionInv ==
  /\ session = "up" => is_connected_to_network
  /\ ~Errors /\ gaveUp /\ session = "down" =>
       Disconnected \in Range(inbox)

LEMMA Next_SessionInv ==
  TypeOK /\ SessionInv /\ [Next]_vars => SessionInv'
<1> SUFFICES ASSUME TypeOK, SessionInv, [Next]_vars PROVE SessionInv'
  OBVIOUS
<1>1. CASE UNCHANGED <<is_connected_to_network, attempt, session>> /\ ~OnDisconnected
  BY <1>1, EndStays DEF SessionInv, attempt
<1>2. CASE OnConnected
  <2>1. ~OnDisconnected
    BY <1>2, EventTypes DEF OnConnected, OnDisconnected, Receive
  <2> QED
    BY <1>2, <2>1, EndStays DEF OnConnected, SessionInv
<1>3. CASE OnDisconnected
  BY <1>3 DEF OnDisconnected, Arm, SessionInv
<1>4. CASE L4Connected
  BY <1>4 DEF L4Connected, Arm, SessionInv
<1>5. CASE Ends
  <2>1. session' = "down" /\ (Disconnected \in Range(inbox))'
    BY <1>5, InboxParts, EventTypes DEF Ends, SessionEnds, TypeOK
  <2> QED
    BY <2>1 DEF SessionInv
<1>6. CASE L4Disconnected /\ UNCHANGED <<attempt, session, inbox>>
  BY <1>6, EventTypes DEF L4Disconnected, SessionInv, attempt, SessionEnds, TypeOK
<1>7. CASE WorkStep
  <2>1. CASE ConnectWork
    BY <2>1 DEF ConnectWork, GiveUp, SessionInv
  <2>2. CASE ConnectOk
    BY <2>2 DEF ConnectOk, SessionInv
  <2>3. CASE ConnectTimeout
    BY <2>3 DEF ConnectTimeout, Arm, SessionInv
  <2>4. CASE ConnectError
    BY <2>4 DEF ConnectError, GiveUp, SessionInv
  <2> QED
    BY <1>7, <2>1, <2>2, <2>3, <2>4 DEF WorkStep
<1> QED
  BY <1>1, <1>2, <1>3, <1>4, <1>5, <1>6, <1>7, NextAttempt

\* A step that starts or ends a session, or is about one that is up.
LEMMA Up_Session ==
  ASSUME TypeOK, SessionInv, SessionInv', [Next]_vars, session = "up" \/ session' = "up"
  PROVE  [Session!Next]_<<is_connected_to_network, Phase>>
<1> USE DEF Session!Next
<1>1. CASE ConnectOk
  BY <1>1 DEF ConnectOk, Phase, Trying, Session!SessionStarts
<1>2. CASE Ends
  <2>1. (Disconnected \in Range(inbox))'
    BY <1>2, InboxParts, EventTypes DEF Ends, SessionEnds, TypeOK
  <2>2. session = "up" /\ session' = "down" /\ is_connected_to_network
    BY <1>2 DEF Ends, SessionEnds, SessionInv, TypeOK
  <2>3. Phase = "up" /\ Phase' = "trying"
    BY <2>1, <2>2 DEF Phase, Trying
  <2>4. is_connected_to_network' \in BOOLEAN
    BY Next_TypeOK DEF TypeOK
  <2> QED
    BY <2>2, <2>3, <2>4 DEF Session!SessionEnds, Session!NetworkGoes
<1>3. CASE session = "up" /\ session' = "up"
  <2>1. is_connected_to_network /\ is_connected_to_network'
    BY <1>3 DEF SessionInv
  <2>2. Phase = "up" /\ Phase' = "up"
    BY <1>3 DEF Phase
  <2> QED
    BY <2>1, <2>2 DEF TypeOK
<1>4. ConnectOk \/ Ends \/ session' = session
  BY NextAttempt DEF OnConnected, OnDisconnected, L4Connected, WorkStep, ConnectWork,
                     ConnectTimeout, ConnectError
<1> QED
  BY <1>1, <1>2, <1>3, <1>4

\* A step between two sessions.
LEMMA Down_Session ==
  ASSUME TypeOK, FlagFollowsSession, SessionInv, SessionInv', [Next]_vars,
         session = "down", session' = "down"
  PROVE  [Session!Next]_<<is_connected_to_network, Phase>>
<1> USE DEF Session!Next
<1>1. /\ Phase  = IF Trying THEN "trying" ELSE IF gaveUp THEN "failed" ELSE "idle"
      /\ Phase' = IF Trying' THEN "trying" ELSE IF gaveUp' THEN "failed" ELSE "idle"
  BY DEF Phase
<1>2. ~Errors /\ gaveUp' => Trying'
  BY DEF SessionInv, Trying
<1>3. CASE OnConnected
  <2>1. inbox # <<>> /\ Head(inbox) = Connected /\ inbox' = Tail(inbox)
    BY <1>3, ReceiveType DEF OnConnected, Receive
  <2>2. ~FlagAfter(inbox, is_connected_to_aws_iot)
    BY DEF FlagFollowsSession
  <2>3. (Disconnected \in Range(inbox))'
    BY <2>1, <2>2, EndIsOnItsWay DEF TypeOK
  <2>4. Disconnected \in Range(inbox)
    BY <2>1, <2>3, InboxParts DEF TypeOK
  <2> QED
    BY <1>1, <1>3, <2>3, <2>4 DEF OnConnected, Trying
<1>4. CASE OnDisconnected
  <2>1. inbox # <<>> /\ Head(inbox) = Disconnected
    BY <1>4, ReceiveType DEF OnDisconnected, Receive
  <2>2. Disconnected \in Range(inbox)
    BY <2>1, InboxParts DEF TypeOK
  <2> QED
    BY <1>1, <1>4, <2>2 DEF OnDisconnected, Arm, Trying
<1>5. CASE L4Connected
  BY <1>1, <1>5 DEF L4Connected, Arm, Trying, Session!NetworkComes
<1>6. CASE L4Disconnected /\ UNCHANGED <<attempt, session, inbox>>
  <2>1. (Trying' <=> Trying) /\ gaveUp' = gaveUp
    BY <1>6 DEF attempt, Trying
  <2>2. Phase' = Phase /\ Phase # "up"
    BY <1>1, <2>1
  <2>3. is_connected_to_network /\ is_connected_to_network' = FALSE
    BY <1>6 DEF L4Disconnected
  <2> QED
    BY <2>2, <2>3 DEF Session!NetworkGoes
<1>7. CASE WorkStep
  <2>1. UNCHANGED <<is_connected_to_network, inbox>> /\ Trying
    BY <1>7 DEF WorkStep, ConnectWork, ConnectOk, ConnectTimeout, ConnectError, Trying
  <2>2. Trying' \/ ~is_connected_to_network \/ Errors
    BY <1>7 DEF WorkStep, ConnectWork, ConnectOk, ConnectTimeout, ConnectError, Arm, GiveUp, Trying
  <2>3. Trying' \/ gaveUp' \/ ~is_connected_to_network
    BY <1>7 DEF WorkStep, ConnectWork, ConnectOk, ConnectTimeout, ConnectError, Arm, GiveUp, Trying
  <2> QED
    BY <1>1, <1>2, <2>1, <2>2, <2>3 DEF Session!PassedOver, Session!Fails
<1>8. CASE UNCHANGED <<is_connected_to_network, attempt, session>>
           /\ ~OnConnected /\ ~OnDisconnected
  <2>1. ~Starts /\ ~Ends
    BY DEF Starts, Ends, SessionEnds
  <2>2. Trying' <=> Trying
    BY <1>8, <2>1, Next_Inbox DEF attempt, Trying
  <2> QED
    BY <1>1, <1>8, <2>2 DEF attempt
<1> QED
  BY <1>3, <1>4, <1>5, <1>6, <1>7, <1>8, NextAttempt DEF Ends, SessionEnds

\* The attempts to connect, seen from outside, in every setting: a session that
\* ends is tried again until there is one, or no network, or an error.
THEOREM Spec_SessionSpec == Spec => SessionSpec
<1> DEFINE Inv == TypeOK /\ FlagFollowsSession /\ SessionInv
<1>1. Init => Inv
  BY Init_TypeOK, Init_FlagFollowsSession DEF Init, SessionInv
<1>2. Inv /\ [Next]_vars => Inv'
  BY Next_TypeOK, Next_FlagFollowsSession, Next_SessionInv
<1>3. Init => Session!Init
  BY Init_TypeOK, InboxParts DEF Init, Phase, Trying, Session!Init, TypeOK
<1>4. Inv /\ Inv' /\ [Next]_vars => [Session!Next]_<<is_connected_to_network, Phase>>
  BY Up_Session, Down_Session DEF TypeOK
<1> QED
  BY <1>1, <1>2, <1>3, <1>4, PTL DEF Spec, SessionSpec, Session!Spec

-----------------------------------------------------------------------------
(* The payload.                                                            *)

\* A difference is one that the delta has made, or about to be removed; and a
\* value that is being applied is still in the payload, or has been written
\* over by a local change.
PayloadInv ==
  /\ \A a \in Attributes \ unapplied :
       payload[a] = device[a] \/ (set = "compare" /\ id = a)
  /\ lib = "apply" /\ attr \in unapplied => payload[attr] = value

LEMMA Init_PayloadInv == Init => PayloadInv
BY DEF Init, PayloadInv

LEMMA Set_PayloadInv == TypeOK /\ PayloadInv /\ SetStep => PayloadInv'
<1> SUFFICES ASSUME TypeOK, PayloadInv, SetStep PROVE PayloadInv'
  OBVIOUS
<1> USE DEF PayloadInv, copy, libPc
<1>1. CASE ComparePayload /\ payload[id] # device[id]
  <2>1. \A a \in Attributes : payload'[a] = IF a = id THEN device[a] ELSE payload[a]
    BY <1>1 DEF ComparePayload, TypeOK, Reports
  <2>2. unapplied' = unapplied \ {id} /\ UNCHANGED <<device, lib, attr, value, id>>
    BY <1>1 DEF ComparePayload
  <2> QED
    BY <2>1, <2>2 DEF TypeOK
<1>2. CASE ComparePayload /\ payload[id] = device[id]
  BY <1>2 DEF ComparePayload, SetReturns
<1>3. CASE CheckConnected \/ SetEncodes \/ SetSends
  BY <1>3 DEF CheckConnected, SetEncodes, SetSends, SetReturns
<1> QED
  BY <1>1, <1>2, <1>3 DEF SetStep

LEMMA Lib_PayloadInv == TypeOK /\ PayloadInv /\ LibStep => PayloadInv'
<1> SUFFICES ASSUME TypeOK, PayloadInv, LibStep PROVE PayloadInv'
  OBVIOUS
<1> USE DEF PayloadInv, copy, setPc
<1>1. CASE OnConnected \/ OnDisconnected
  BY <1>1 DEF OnConnected, OnDisconnected, Receive, libPc
<1>2. ASSUME NEW met, Decode(Head(inbox).state, met), lib' # "apply",
             UNCHANGED <<device, set, id>>
      PROVE  PayloadInv'
  <2>1. \A a \in Attributes \ unapplied' : payload'[a] = payload[a]
    BY <1>2 DEF Decode
  <2>2. unapplied \subseteq unapplied'
    BY <1>2 DEF Decode
  <2> QED
    BY <1>2, <2>1, <2>2
<1>3. CASE OnDelta \/ OnBadDelta
  <2>1. lib' # "apply" /\ UNCHANGED <<device, set, id>>
    BY <1>3 DEF OnDelta, OnBadDelta, Receive, libPc
  <2> QED
    BY <1>2, <1>3, <2>1 DEF OnDelta, OnBadDelta
<1>4. CASE ReadValue
  BY <1>4 DEF ReadValue
<1>5. CASE ApplyValue
  <2>1. attr \in Attributes /\ payload \in Reports /\ device \in Reports
    BY DEF TypeOK
  <2>2. \A a \in Attributes : device'[a] = IF a = attr THEN value ELSE device[a]
    BY <1>5, <2>1 DEF ApplyValue, Reports
  <2>3. /\ set = "idle" /\ lib = "apply" /\ unapplied' = unapplied \ {attr}
        /\ UNCHANGED <<set, id>>
    BY <1>5 DEF ApplyValue, TypeOK
  <2>4. lib' # "apply"
    BY <1>5 DEF ApplyValue, NextAttribute
  <2>5. \A a \in Attributes \ {attr} : payload'[a] = payload[a]
    BY <1>5, <2>1 DEF ApplyValue, Reports
  <2>6. payload'[attr] = device'[attr]
    <3>1. CASE device[attr] # value
      BY <1>5, <2>1, <2>2, <3>1 DEF ApplyValue, Reports
    <3>2. CASE device[attr] = value
      BY <1>5, <2>1, <2>2, <2>3, <3>2 DEF ApplyValue
    <3> QED
      BY <3>1, <3>2
  <2> QED
    BY <2>2, <2>3, <2>4, <2>5, <2>6
<1>6. CASE RefuseValue \/ LibEncodes
  BY <1>6 DEF RefuseValue, LibEncodes
<1>7. CASE LibSends
  BY <1>7 DEF LibSends, LibReturns, NextAttribute
<1> QED
  BY <1>1, <1>3, <1>4, <1>5, <1>6, <1>7 DEF LibStep

LEMMA Other_PayloadInv ==
  TypeOK /\ PayloadInv /\ (WorkStep \/ EnvStep \/ UNCHANGED vars) => PayloadInv'
<1> SUFFICES ASSUME TypeOK, PayloadInv, WorkStep \/ EnvStep \/ UNCHANGED vars
             PROVE  PayloadInv'
  OBVIOUS
<1>1. ASSUME NEW a \in Attributes, NEW v \in Values, LocalChange(a, v) PROVE PayloadInv'
  <2>1. \A b \in Attributes : b # a => device'[b] = device[b]
    BY <1>1 DEF LocalChange, TypeOK, Reports
  <2> QED
    BY <1>1, <2>1 DEF LocalChange, PayloadInv, copy, libPc
<1>2. CASE UNCHANGED <<copy, device, libPc, set, id>>
  BY <1>2 DEF PayloadInv, copy, libPc
<1>3. UNCHANGED <<copy, device, libPc, set, id>>
        \/ \E a \in Attributes, v \in Values : LocalChange(a, v)
  BY DEF WorkStep, ConnectWork, ConnectOk, ConnectTimeout, ConnectError, EnvStep,
         L4Connected, L4Disconnected, SessionDrop, CloudDesire, vars, setPc
<1> QED
  BY <1>1, <1>2, <1>3

\* Whatever the callback refuses and whatever cannot be decoded, the module's
\* copy of an attribute is what the device has whenever no thread is in the
\* module, unless a delta wrote it last and the application has not accepted
\* that: although the two threads write it without a common lock and a delta is
\* written before it is applied, whoever makes a difference removes it.
THEOREM Spec_PayloadTracks == Spec => []PayloadTracks
<1>1. TypeOK /\ PayloadInv /\ [Next]_vars => (TypeOK /\ PayloadInv)'
  BY Next_TypeOK, Set_PayloadInv, Lib_PayloadInv, Other_PayloadInv DEF Next
<1>2. PayloadInv => PayloadTracks
  BY DEF PayloadInv, PayloadTracks, AtRest
<1> QED
  BY <1>1, <1>2, Init_TypeOK, Init_PayloadInv, PTL DEF Spec

-----------------------------------------------------------------------------
(* What the cloud desires.                                                 *)

\* An event is on its way that makes the library thread report.
Awaited == Range(inbox) \ {Disconnected} # {}

DesireInv ==
  session = "up" /\ ~failed =>
    Difference(desired, reported) = NoDesire \/ Awaited \/ lib # "idle"

\* An update that leaves a difference has its delta delivered.
LEMMA PublishAwaited ==
  ASSUME TypeOK, NEW des \in Desires, NEW rep \in Reports, inbox' = Publish(inbox, des, rep)
  PROVE  Difference(des, rep) = NoDesire \/ Awaited'
<1>1. CASE inbox' = Append(inbox, Delta(Difference(des, rep)))
  <2>1. Difference(des, rep) \in Desires /\ inbox \in Seq(Events)
    BY PublishType DEF TypeOK
  <2>2. Delta(Difference(des, rep)) \in Events \ {Disconnected}
    BY <2>1, EventTypes
  <2> QED
    BY <1>1, <2>1, <2>2, InboxParts DEF Awaited
<1>2. CASE Difference(des, rep) = NoDesire
  BY <1>2
<1> QED
  BY <1>1, <1>2 DEF Publish

\* What is awaited stays so, unless its handling begins.
LEMMA AwaitedStays ==
  ASSUME TypeOK, Awaited, [Next]_vars
  PROVE  Awaited' \/ OnConnected \/ OnDelta \/ OnBadDelta
<1>1. inbox \in Seq(Events)
  BY DEF TypeOK
<1>2. ASSUME NEW e \in Events, inbox' = Append(inbox, e) PROVE Awaited'
  BY <1>1, <1>2, InboxParts DEF Awaited
<1>3. CASE Published \/ Starts \/ Ends
  BY <1>2, <1>3, EventTypes DEF Published, Starts, Ends, SessionEnds
<1>4. CASE Silent
  BY <1>4 DEF Silent, Awaited
<1>5. CASE OnDisconnected
  <2>1. inbox # <<>> /\ inbox' = Tail(inbox) /\ Head(inbox) = Disconnected
    BY <1>5, ReceiveType DEF OnDisconnected, Receive
  <2> QED
    BY <1>1, <2>1, InboxParts DEF Awaited
<1> QED
  BY <1>3, <1>4, <1>5, NextEvents

\* The start of a session has its event delivered.
LEMMA StartAwaited == TypeOK /\ Starts => Awaited'
<1>1. Connected \in Events \ {Disconnected}
  BY EventTypes
<1>2. ASSUME TypeOK, Starts PROVE Awaited'
  <2>1. inbox \in Seq(Events) /\ inbox' = Append(inbox, Connected)
    BY <1>2 DEF TypeOK, Starts
  <2>2. Range(Append(inbox, Connected)) = Range(inbox) \cup {Connected}
    BY <1>1, <2>1, InboxParts
  <2> QED
    BY <1>1, <2>1, <2>2 DEF Awaited
<1> QED
  BY <1>2

\* A step that starts no session, sends nothing and hands no event over leaves a
\* session that was up, and whatever was awaited.
LEMMA Next_DesireInv == TypeOK /\ DesireInv /\ [Next]_vars => DesireInv'
<1> SUFFICES ASSUME TypeOK, DesireInv, [Next]_vars, session' = "up", ~failed'
             PROVE  Difference(desired', reported') = NoDesire \/ Awaited' \/ lib' # "idle"
  BY DEF DesireInv, Difference, NoDesire
<1>1. CASE OnConnected \/ OnDelta
  BY <1>1 DEF OnConnected, OnDelta
<1>2. CASE Starts
  BY <1>2, StartAwaited
<1>3. CASE SetSends \/ LibSends
  <2>1. session = "up" /\ ~SendFails
    BY <1>3 DEF SetSends, LibSends, SendFails
  <2>2. CASE ClearDesired
    BY <2>1, <2>2 DEF ClearDesired, Difference, NoDesire
  <2>3. ASSUME NEW m \in Reports, NEW old, SendReported(m, old)
        PROVE  Difference(desired', reported') = NoDesire \/ Awaited'
    <3>1. inbox' = Publish(inbox, desired, m) /\ desired' = desired /\ reported' = m
      BY <2>1, <2>3 DEF SendReported
    <3> QED
      BY <3>1, PublishAwaited DEF TypeOK
  <2>4. setMessage \in Reports /\ libMessage \in Reports
    BY DEF TypeOK
  <2> QED
    BY <1>3, <2>1, <2>2, <2>3, <2>4 DEF SetSends, LibSends
<1>4. ASSUME NEW a \in Attributes, NEW v \in Values \cup {NoNumber}, CloudDesire(a, v)
      PROVE  Difference(desired', reported') = NoDesire \/ Awaited'
  <2>1. /\ session = "up" /\ UNCHANGED reported
        /\ inbox' = Publish(inbox, desired', reported)
    BY <1>4 DEF CloudDesire
  <2>2. desired' \in Desires /\ reported \in Reports
    BY <1>4, Env_TypeOK DEF EnvStep, TypeOK
  <2> QED
    BY <2>1, <2>2, PublishAwaited
<1>5. CASE UNCHANGED <<shadow, session, failed>> /\ (lib' = lib \/ lib' # "idle")
           /\ ~OnConnected /\ ~OnDelta /\ ~OnBadDelta
  BY <1>5, AwaitedStays DEF DesireInv, shadow
<1>6. \/ OnConnected \/ OnDelta \/ Starts \/ SetSends \/ LibSends
      \/ \E a \in Attributes, v \in Values \cup {NoNumber} : CloudDesire(a, v)
      \/ UNCHANGED <<shadow, session, failed>> /\ (lib' = lib \/ lib' # "idle")
  <2> USE DEF libPc, shadow, history
  <2>1. CASE SetStep
    BY <2>1 DEF SetStep, ComparePayload, CheckConnected, SetEncodes
  <2>2. CASE LibStep
    BY <2>2 DEF LibStep, OnDisconnected, OnBadDelta, ReadValue, ApplyValue, NextAttribute,
                RefuseValue, LibEncodes
  <2>3. CASE WorkStep
    BY <2>3 DEF WorkStep, ConnectWork, ConnectOk, ConnectTimeout, ConnectError, Starts
  <2>4. CASE EnvStep
    BY <2>4 DEF EnvStep, L4Connected, L4Disconnected, SessionDrop, SessionEnds, LocalChange
  <2>5. CASE UNCHANGED vars
    BY <2>5 DEF vars
  <2> QED
    BY <2>1, <2>2, <2>3, <2>4, <2>5 DEF Next
<1>7. ~OnBadDelta
  BY DEF OnBadDelta
<1> QED
  BY <1>1, <1>2, <1>3, <1>4, <1>5, <1>6, <1>7

\* Whatever the cloud desires while a session is up is reported, or cleared,
\* by the time no thread is in the module, even if the two threads send at once;
\* only a notified error, which nothing was reported after, leaves a desire.
THEOREM Spec_NoDesireLeft == Spec => []NoDesireLeft
<1>1. Init => DesireInv
  BY DEF Init, DesireInv
<1>2. TypeOK /\ DesireInv /\ [Next]_vars => (TypeOK /\ DesireInv)'
  BY Next_TypeOK, Next_DesireInv
<1>3. TypeOK /\ DesireInv => NoDesireLeft
  BY InboxParts DEF DesireInv, NoDesireLeft, AtRest, Awaited, TypeOK
<1> QED
  BY <1>1, <1>2, <1>3, Init_TypeOK, PTL DEF Spec

-----------------------------------------------------------------------------
(* What is reported.                                                       *)

\* A message is right about what was accepted, but for what is under way; and
\* as long as no thread has changed the payload since, it is the payload.
Right(message) ==
  \A a \in Attributes \ unapplied :
    /\ message[a] = device[a] \/ UnderWay(a)
    /\ set \in {"idle", "compare"} => message[a] = payload[a]

\* What the Matter thread is about to send is right; so is what the library
\* thread is about to send unless it was overtaken, and what it has sent last.
ReportInv ==
  /\ set = "send" => \A a \in Attributes \ unapplied : setMessage[a] = device[a]
  /\ Linked /\ lib = "send" /\ ~late => Right(libMessage)
  /\ Linked /\ lib = "idle" /\ ~failed /\ ~stale => Right(reported)

\* The start of a session that is up is delivered by OnConnected; the end of a
\* session undoes that at once.
LEMMA Next_Linked ==
  ASSUME TypeOK, [Next]_vars
  PROVE  \/ (Linked' <=> Linked) /\ ~OnConnected
         \/ Ends /\ ~Linked'
         \/ OnConnected /\ ~Linked
<1>1. inbox \in Seq(Events) /\ Connected \in Events /\ Connected # Disconnected
  BY EventTypes DEF TypeOK
<1>2. CASE Starts
  <2>1. Range(Append(inbox, Connected)) = Range(inbox) \cup {Connected}
    BY <1>1, InboxParts
  <2> QED
    BY <1>2, <2>1 DEF Starts, Linked
<1>3. CASE Ends
  BY <1>3 DEF Ends, SessionEnds, Linked
<1>4. CASE OnConnected
  <2>1. inbox # <<>> /\ Head(inbox) = Connected
    BY <1>4, ReceiveType DEF OnConnected, Receive
  <2>2. Connected \in Range(inbox)
    BY <1>1, <2>1, InboxParts
  <2> QED
    BY <1>4, <2>2 DEF Linked
<1>5. CASE OnDisconnected /\ ~OnConnected
  <2>1. inbox # <<>> /\ Head(inbox) = Disconnected /\ inbox' = Tail(inbox)
    BY <1>5, ReceiveType DEF OnDisconnected, Receive
  <2>2. Range(inbox) = {Disconnected} \cup Range(inbox')
    BY <1>1, <2>1, InboxParts
  <2>3. Connected \in Range(inbox) <=> (Connected \in Range(inbox))'
    BY <1>1, <2>2
  <2> QED
    BY <1>5, <2>3 DEF OnDisconnected, Linked
<1>6. CASE /\ session' = session /\ (Connected \in Range(inbox) <=> (Connected \in Range(inbox))')
           /\ ~OnConnected
  BY <1>6 DEF Linked
<1>7. \/ Starts \/ Ends \/ OnConnected \/ OnDisconnected
      \/ session' = session /\ (Connected \in Range(inbox) <=> (Connected \in Range(inbox))')
  BY Next_Inbox, NextEvents DEF Silent, Published, OnDelta, OnBadDelta
<1> QED
  BY <1>2, <1>3, <1>4, <1>5, <1>6, <1>7

LEMMA Set_Linked ==
  ASSUME TypeOK, SetStep
  PROVE  UNCHANGED <<session, libPc, device>> /\ (Linked' <=> Linked)
<1>1. UNCHANGED <<session, libPc, device>> /\ ~OnConnected
  BY DEF SetStep, ComparePayload, CheckConnected, SetEncodes, SetSends, OnConnected,
         Receive, libPc
<1> QED
  BY <1>1, Next_Linked DEF Next, Ends, SessionEnds

LEMMA Lib_Linked ==
  ASSUME TypeOK, LibStep
  PROVE  /\ UNCHANGED <<session, setPc>>
         /\ IF OnConnected THEN ~Linked ELSE Linked' <=> Linked
<1>1. UNCHANGED <<session, setPc>>
  BY DEF LibStep, OnConnected, OnDisconnected, OnDelta, OnBadDelta, ReadValue, ApplyValue,
         RefuseValue, LibEncodes, LibSends, setPc
<1> QED
  BY <1>1, Next_Linked DEF Next, Ends, SessionEnds

\* Then the flag is set.
LEMMA LinkedFlag == FlagFollowsSession /\ Linked => is_connected_to_aws_iot
BY DEF FlagFollowsSession, FlagAfter, Telling, Linked, Range

LEMMA Set_ReportInv ==
  TypeOK /\ FlagFollowsSession /\ PayloadInv /\ ReportInv /\ SetStep => ReportInv'
<1> SUFFICES ASSUME TypeOK, FlagFollowsSession, PayloadInv, ReportInv, SetStep
             PROVE  ReportInv'
  OBVIOUS
<1>1. UNCHANGED <<lib, libMessage, device, session>> /\ (Linked' <=> Linked)
  BY Set_Linked DEF libPc
<1> USE DEF ReportInv, Right, UnderWay, copy, history, shadow
<1>2. CASE ComparePayload /\ payload[id] # device[id]
  <2>1. /\ set' = "check" /\ unapplied' = unapplied \ {id}
        /\ UNCHANGED <<id, reported, failed, late, stale>>
    BY <1>2 DEF ComparePayload
  <2> QED
    BY <1>1, <1>2, <2>1 DEF ComparePayload
<1>3. CASE ComparePayload /\ payload[id] = device[id]
  <2>1. /\ set = "compare" /\ set' = "idle"
        /\ UNCHANGED <<payload, unapplied, id, reported, failed, late, stale>>
    BY <1>3 DEF ComparePayload, SetReturns
  <2> QED
    BY <1>1, <1>3, <2>1
<1>4. CASE CheckConnected /\ is_connected_to_aws_iot
  BY <1>1, <1>4 DEF CheckConnected
<1>5. CASE CheckConnected /\ ~is_connected_to_aws_iot
  <2>1. ~Linked /\ set' = "idle"
    BY <1>5, LinkedFlag DEF CheckConnected, SetReturns
  <2> QED
    BY <1>1, <2>1
<1>6. CASE SetEncodes
  BY <1>1, <1>6 DEF SetEncodes, PayloadInv
<1>7. CASE SetSends
  <2>1. UNCHANGED <<payload, unapplied, id>>
    BY <1>7 DEF SetSends
  <2>2. CASE set' # "idle"
    <3>1. set = "clear" /\ set' = "update" /\ UNCHANGED <<reported, failed, late, stale>>
      BY <1>7, <2>2 DEF SetSends, SetReturns, ClearDesired
    <3> QED
      BY <1>1, <2>1, <3>1
  <2>3. CASE set' = "idle"
    <3>1. lib = "send" => late'
      BY <1>7, <2>3 DEF SetSends
    <3>2. CASE SendFails
      <4>1. failed'
        BY <3>2 DEF SendFails
      <4> QED
        BY <1>1, <2>3, <3>1, <4>1
    <3>3. CASE ~SendFails
      <4>1. set = "send" /\ SendReported(setMessage, FALSE)
        BY <1>7, <2>3, <3>3 DEF SetSends
      <4>2. Linked => reported' = setMessage
        BY <4>1 DEF SendReported, Linked
      <4>3. \A a \in Attributes \ unapplied :
              setMessage[a] = device[a] /\ payload[a] = device[a]
        BY <4>1 DEF PayloadInv
      <4> QED
        BY <1>1, <2>1, <2>3, <3>1, <4>2, <4>3
    <3> QED
      BY <3>2, <3>3
  <2> QED
    BY <2>2, <2>3
<1> QED
  BY <1>2, <1>3, <1>4, <1>5, <1>6, <1>7 DEF SetStep

LEMMA Lib_ReportInv ==
  TypeOK /\ PayloadInv /\ ReportInv /\ LibStep => ReportInv'
<1> SUFFICES ASSUME TypeOK, PayloadInv, ReportInv, LibStep
             PROVE  ReportInv'
  OBVIOUS
<1>1. UNCHANGED <<set, id, setMessage>> /\ (~OnConnected => (Linked' <=> Linked))
  BY Lib_Linked DEF setPc
<1> USE DEF ReportInv, Right, UnderWay, copy, history, shadow
\* The Matter thread holds the lock while it has a message.
<1>2. set = "send" => UNCHANGED device /\ unapplied \subseteq unapplied'
  <2>1. CASE ApplyValue
    BY <2>1 DEF ApplyValue, TypeOK
  <2>2. CASE OnDelta \/ OnBadDelta
    BY <2>2 DEF OnDelta, OnBadDelta, Decode
  <2>3. ApplyValue \/ OnDelta \/ OnBadDelta \/ UNCHANGED <<device, unapplied>>
    BY DEF LibStep, OnConnected, OnDisconnected, ReadValue, RefuseValue, LibEncodes, LibSends
  <2> QED
    BY <2>1, <2>2, <2>3
<1>3. CASE lib' \notin {"idle", "send"}
  BY <1>1, <1>2, <1>3
<1>4. CASE OnDisconnected
  <2>1. UNCHANGED <<lib, libMessage, device, payload, unapplied, reported, failed, stale, late>>
    BY <1>4 DEF OnDisconnected, libPc
  <2>2. ~OnConnected
    BY <1>4, EventTypes DEF OnDisconnected, OnConnected, Receive
  <2> QED
    BY <1>1, <2>1, <2>2
<1>5. CASE OnBadDelta \/ RefuseValue
  <2>1. failed' /\ lib' = "idle"
    BY <1>5 DEF OnBadDelta, RefuseValue, Receive, libPc
  <2> QED
    BY <1>1, <1>2, <2>1
<1>6. CASE LibEncodes
  <2>1. /\ lib' = "send" /\ libMessage' = payload
        /\ UNCHANGED <<device, payload, unapplied>>
    BY <1>6 DEF LibEncodes
  <2> QED
    BY <1>1, <1>2, <2>1 DEF PayloadInv
<1>7. CASE LibSends /\ lib' = "idle"
  <2>1. /\ UNCHANGED <<device, payload, unapplied>> /\ ~OnConnected
    BY <1>7 DEF LibSends, OnConnected, Receive
  <2>2. CASE SendFails
    BY <1>1, <1>7, <2>1, <2>2 DEF SendFails
  <2>3. CASE ~SendFails
    <3>1. lib = "send" /\ SendReported(libMessage, late)
      BY <1>7, <2>3 DEF LibSends
    <3>2. Linked => reported' = libMessage /\ stale' = late
      BY <3>1 DEF SendReported, Linked
    <3> QED
      BY <1>1, <1>7, <2>1, <3>1, <3>2
  <2> QED
    BY <2>2, <2>3
<1>8. \/ lib' \notin {"idle", "send"}
      \/ OnDisconnected \/ OnBadDelta \/ RefuseValue \/ LibEncodes
      \/ LibSends /\ lib' = "idle"
  BY DEF LibStep, OnConnected, OnDelta, ReadValue, ApplyValue, LibSends, LibReturns,
         NextAttribute
<1> QED
  BY <1>3, <1>4, <1>5, <1>6, <1>7, <1>8

LEMMA Other_ReportInv ==
  TypeOK /\ ReportInv /\ (WorkStep \/ EnvStep \/ UNCHANGED vars) => ReportInv'
<1> SUFFICES ASSUME TypeOK, ReportInv, WorkStep \/ EnvStep \/ UNCHANGED vars
             PROVE  ReportInv'
  OBVIOUS
<1>1. UNCHANGED <<libPc, copy, reported, history>>
  BY DEF WorkStep, ConnectWork, ConnectOk, ConnectTimeout, ConnectError, EnvStep,
         L4Connected, L4Disconnected, SessionDrop, LocalChange, CloudDesire, vars, shadow
<1>2. Linked' => Linked
  <2>1. ~OnConnected
    BY <1>1 DEF OnConnected, Receive, libPc
  <2> QED
    BY <2>1, Next_Linked DEF Next
<1> USE DEF ReportInv, Right, UnderWay, copy, libPc, setPc, history
<1>3. ASSUME NEW a \in Attributes, NEW v \in Values, LocalChange(a, v) PROVE ReportInv'
  <2>1. /\ set = "idle" /\ set' = "compare" /\ id' = a
        /\ \A b \in Attributes \ {a} : device'[b] = device[b]
    BY <1>3 DEF LocalChange, TypeOK, Reports
  <2> QED
    BY <1>1, <1>2, <2>1
<1>4. CASE UNCHANGED <<device, setPc>>
  BY <1>1, <1>2, <1>4
<1>5. UNCHANGED <<device, setPc>>
        \/ \E a \in Attributes, v \in Values : LocalChange(a, v)
  BY DEF WorkStep, ConnectWork, ConnectOk, ConnectTimeout, ConnectError, EnvStep,
         L4Connected, L4Disconnected, SessionDrop, CloudDesire, vars
<1> QED
  BY <1>3, <1>4, <1>5

\* What the threads have reported and are about to report is right.
LEMMA Spec_ReportInv ==
  Spec => [](TypeOK /\ FlagFollowsSession /\ PayloadInv /\ ReportInv)
<1> DEFINE Inv == TypeOK /\ FlagFollowsSession /\ PayloadInv /\ ReportInv
<1>1. Init => Inv
  <2>1. Init => ReportInv
    BY DEF Init, ReportInv, Linked
  <2> QED
    BY <2>1, Init_TypeOK, Init_FlagFollowsSession, Init_PayloadInv
<1>2. Inv /\ [Next]_vars => Inv'
  BY Next_TypeOK, Next_FlagFollowsSession, Set_PayloadInv, Lib_PayloadInv, Other_PayloadInv,
     Set_ReportInv, Lib_ReportInv, Other_ReportInv DEF Next
<1> QED
  BY <1>1, <1>2, PTL DEF Spec

\* When no thread is in the module, a session is up and no error is pending, the
\* shadow reports what the device has of all that was accepted, unless the last
\* message of the library thread was overtaken: however changes, deltas, errors
\* and lost sessions interleave, the missing lock around encoding and sending
\* (see the run of the stale report) is the only way for it to stay wrong.
THEOREM Spec_InSyncUnlessStale == Spec => []InSyncUnlessStale
<1>1. TypeOK /\ ReportInv => InSyncUnlessStale
  <2> SUFFICES ASSUME TypeOK, ReportInv, AtRest, session = "up", ~failed, ~stale
               PROVE  Reported
    BY DEF InSyncUnlessStale
  <2>1. Linked
    BY InboxParts DEF AtRest, Linked, TypeOK
  <2> QED
    BY <2>1 DEF ReportInv, Right, Reported, AtRest, UnderWay
<1> QED
  BY <1>1, Spec_ReportInv, PTL

\* Every single report, of either thread, is right about what was accepted, but
\* for a change that the Matter thread has yet to report, and for a message that
\* was overtaken: no report undoes what the other thread has told the cloud.
THEOREM Spec_ReportsRight == Spec => ReportsRight
<1> DEFINE Inv == TypeOK /\ ReportInv
           Fit == reported' # reported /\ Linked /\ ~stale' =>
                    \A a \in Attributes \ unapplied : reported'[a] = device[a] \/ UnderWay(a)'
<1>1. Inv /\ [Next]_vars => Fit
  <2> SUFFICES ASSUME Inv, [Next]_vars, reported' # reported, Linked, ~stale',
                      NEW a \in Attributes \ unapplied
               PROVE  reported'[a] = device[a] \/ UnderWay(a)'
    OBVIOUS
  <2>1. CASE SetSends
    <3>1. set = "send" /\ reported' = setMessage
      BY <2>1 DEF SetSends, ClearDesired, SendReported, SendFails, shadow
    <3> QED
      BY <3>1 DEF ReportInv
  <2>2. CASE LibSends
    <3>1. lib = "send" /\ reported' = libMessage /\ stale' = late
      BY <2>2 DEF LibSends, ClearDesired, SendReported, SendFails, shadow
    <3>2. UNCHANGED <<set, id>>
      BY <2>2 DEF LibSends, setPc
    <3> QED
      BY <3>1, <3>2 DEF ReportInv, Right, UnderWay
  <2>3. SetSends \/ LibSends
    BY DEF Next, SetStep, ComparePayload, CheckConnected, SetEncodes,
           LibStep, OnConnected, OnDisconnected, OnDelta, OnBadDelta, ReadValue, ApplyValue,
           RefuseValue, LibEncodes,
           WorkStep, ConnectWork, ConnectOk, ConnectTimeout, ConnectError,
           EnvStep, L4Connected, L4Disconnected, SessionDrop, LocalChange, CloudDesire,
           vars, shadow
  <2> QED
    BY <2>1, <2>2, <2>3
<1>2. Inv /\ [Next]_vars => [Fit]_vars
  BY <1>1
<1> QED
  BY <1>2, Spec_ReportInv, PTL DEF Spec, ReportsRight
=============================================================================
