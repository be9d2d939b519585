------------------------- MODULE AwsIotIntegration -------------------------
(***************************************************************************)
(* src/src/aws_iot_integration: mirrors two attributes of the device in an *)
(* AWS IoT shadow document.  Four parties meet in it:                      *)
(*                                                                         *)
(*  - the Matter thread reports local changes with attribute_set;          *)
(*  - the thread of the AWS IoT library delivers its events, in order, to  *)
(*    aws_iot_event_handler, which applies deltas through the callback the *)
(*    application has registered;                                          *)
(*  - the work queue of the module runs connect_work, whose aws_iot_connect*)
(*    blocks until the session is up or the attempt has failed;            *)
(*  - the network raises L4 events.                                        *)
(*                                                                         *)
(* External: the library, the broker with its shadow document, and the     *)
(* application, of which the module expects that an attribute that changes *)
(* is reported with attribute_set, under the lock of the Matter stack, and *)
(* that the registered callback takes that lock to change an attribute.    *)
(* The work queue and the network share one variable only with the others, *)
(* so their handlers are one step each; the Matter thread and the library  *)
(* thread share the payload, and each access to it is a step.              *)
(*                                                                         *)
(* Kept of what may fail: a delta that cannot be decoded, after some of it *)
(* has been written; a value the application refuses; every call of the    *)
(* library; and messages that are lost with their session.                 *)
(***************************************************************************)
EXTENDS Integers, Sequences, Functions

CONSTANTS Values, \* values of an attribute, 0 among them
          Errors  \* TRUE: aws_iot_init, aws_iot_connect and aws_iot_send may
                  \* fail for reasons the header calls irrecoverable

ASSUME ValuesAssumption == 0 \in Values /\ Values \subseteq Nat
ASSUME ErrorsAssumption == Errors \in BOOLEAN

VARIABLES
  is_connected_to_network, is_connected_to_aws_iot,
  payload,      \* the module's copy of the attributes
  unapplied,    \* history: attributes of it that a delta wrote last, with a
                \* value the callback has not accepted (yet)
  connect_work, \* "none", "armed": its delay is running
  connecting,   \* TRUE while the work queue is inside aws_iot_connect
  init,         \* aws_iot_init has succeeded
  gaveUp,       \* history: the last attempt to connect ended with an error
                \* that is notified, and nothing has armed connect_work since
  lib,          \* where the library thread is in aws_iot_event_handler
  attr, value,  \* attribute it applies, and data.value
  libMessage,   \* message it has encoded
  set,          \* where the Matter thread is in attribute_set
  id,           \* attribute it reports
  setMessage,   \* message it has encoded
  lock,         \* who holds the Matter stack: "free", "matter", "lib"
  device,       \* external: the attributes of the device
  session,      \* external: "up", "down"
  inbox,        \* external: events of the library not delivered yet
  desired, reported, \* external: the shadow document
  failed,       \* history: an error was notified, and no report sent since
  late,         \* history: the Matter thread has sent or given up a message
                \* since the one of the library thread was encoded
  stale         \* history: what was reported last was late

attempt == <<connect_work, connecting, init, gaveUp>>
link    == <<is_connected_to_network, attempt>>
copy    == <<payload, unapplied>>
libPc   == <<lib, attr, value, libMessage>>
setPc   == <<set, id, setMessage>>
shadow  == <<desired, reported>>
history == <<failed, late, stale>>
vars    == <<link, is_connected_to_aws_iot, copy, libPc, setPc, lock, device,
             session, inbox, shadow, history>>

-----------------------------------------------------------------------------
(* The attributes, the shadow document and the events of the library.      *)

Attributes == {"onoff", "level_control"}
NoValue    == -1   \* null
NoNumber   == -2   \* a value that the codec does not take for a number
Desires    == [Attributes -> Values \cup {NoValue, NoNumber}]
Reports    == [Attributes -> Values]
NoDesire   == [a \in Attributes |-> NoValue]

Connected    == [type |-> "connected"]
Disconnected == [type |-> "disconnected"]
Delta(d)     == [type |-> "delta", state |-> d]
Events       == {Connected, Disconnected} \cup {Delta(d) : d \in Desires}

\* What is desired and not reported.
Difference(des, rep) ==
  [a \in Attributes |-> IF des[a] = rep[a] THEN NoValue ELSE des[a]]

\* The broker publishes a delta after an update that leaves a difference.
Publish(box, des, rep) ==
  IF Difference(des, rep) = NoDesire
  THEN box ELSE Append(box, Delta(Difference(des, rep)))

-----------------------------------------------------------------------------
Init ==
  /\ is_connected_to_network = FALSE
  /\ is_connected_to_aws_iot = FALSE
  /\ payload = [a \in Attributes |-> 0]
  /\ unapplied = {}
  /\ connect_work = "none"
  /\ connecting = FALSE
  /\ init = FALSE
  /\ gaveUp = FALSE
  /\ lib = "idle"
  /\ attr = "onoff"
  /\ value = 0
  /\ libMessage = payload
  /\ set = "idle"
  /\ id = "onoff"
  /\ setMessage = payload
  /\ lock = "free"
  /\ device = payload
  /\ session = "down"
  /\ inbox = <<>>
  /\ desired \in Desires
  /\ reported \in Reports
  /\ failed = FALSE
  /\ late = FALSE
  /\ stale = FALSE

-----------------------------------------------------------------------------
\* k_work_reschedule_for_queue(&queue, &connect_work, ...)
Arm == connect_work' = "armed" /\ gaveUp' = FALSE

-----------------------------------------------------------------------------
(* Sending to the shadow, from either thread.                              *)

\* shadow_update_desired_state_clear: aws_iot_send returns 0.  What is sent
\* at QoS 0 on a session that has just gone is lost.
ClearDesired ==
  /\ IF session = "up" THEN desired' = NoDesire ELSE UNCHANGED desired
  /\ UNCHANGED <<reported, inbox, history>>

\* The end of shadow_update: aws_iot_send of the encoded message.
SendReported(message, old) ==
  /\ IF session = "up"
     THEN /\ reported' = message
          /\ inbox' = Publish(inbox, desired, message)
          /\ failed' = FALSE
          /\ stale' = old
     ELSE UNCHANGED <<reported, inbox, failed, stale>>
  /\ UNCHANGED desired

\* aws_iot_send returns an error; the caller gives up and notifies it.
SendFails ==
  /\ session = "down" \/ Errors
  /\ failed' = TRUE
  /\ UNCHANGED <<shadow, inbox, stale>>

-----------------------------------------------------------------------------
(* The Matter thread: aws_iot_integration_attribute_set.                   *)

\* A local change of an attribute, under the lock of the Matter stack.
LocalChange(a, v) ==
  /\ set = "idle"
  /\ lock = "free"
  /\ device[a] # v
  /\ device' = [device EXCEPT ![a] = v]
  /\ lock' = "matter"
  /\ set' = "compare"
  /\ id' = a
  /\ UNCHANGED <<link, is_connected_to_aws_iot, copy, libPc, setMessage,
                 session, inbox, shadow, history>>

SetReturns == set' = "idle" /\ lock' = "free"

\* Fault: the value is only kept while connected.
CompareIfConnected ==
  /\ set = "compare"
  /\ IF payload[id] # device[id] /\ is_connected_to_aws_iot
     THEN /\ payload' = [payload EXCEPT ![id] = device[id]]
          /\ unapplied' = unapplied \ {id}
          /\ set' = "check"
          /\ UNCHANGED lock
     ELSE SetReturns /\ UNCHANGED copy
  /\ UNCHANGED <<link, is_connected_to_aws_iot, libPc, id, setMessage, device,
                 session, inbox, shadow, history>>

\* Nothing to do if the payload has the value already.
ComparePayload ==
  /\ set = "compare"
  /\ IF payload[id] # device[id]
     THEN /\ payload' = [payload EXCEPT ![id] = device[id]]
          /\ unapplied' = unapplied \ {id}
          /\ set' = "check"
          /\ UNCHANGED lock
     ELSE SetReturns /\ UNCHANGED copy
  /\ UNCHANGED <<link, is_connected_to_aws_iot, libPc, id, setMessage, device,
                 session, inbox, shadow, history>>

\* Nothing to send if not connected; connecting will send it.
CheckConnected ==
  /\ set = "check"
  /\ IF is_connected_to_aws_iot THEN set' = "clear" /\ UNCHANGED lock
                                ELSE SetReturns
  /\ UNCHANGED <<link, is_connected_to_aws_iot, copy, libPc, id, setMessage,
                 device, session, inbox, shadow, history>>

SetEncodes ==
  /\ set = "update"
  /\ setMessage' = payload
  /\ set' = "send"
  /\ UNCHANGED <<link, is_connected_to_aws_iot, copy, libPc, id, lock, device,
                 session, inbox, shadow, history>>

SetSends ==
  /\ \/ /\ set = "clear" /\ ClearDesired
        /\ set' = "update" /\ UNCHANGED lock
     \/ /\ \/ set = "send" /\ SendReported(setMessage, FALSE)
           \/ set \in {"clear", "send"} /\ SendFails
        /\ late' = (lib = "send")
        /\ SetReturns
  /\ UNCHANGED <<link, is_connected_to_aws_iot, copy, libPc, id, setMessage, device,
                 session>>

-----------------------------------------------------------------------------
(* The library thread: aws_iot_event_handler.                              *)

Receive(type) == /\ lib = "idle"
                 /\ inbox # <<>>
                 /\ Head(inbox).type = type
                 /\ inbox' = Tail(inbox)

\* Fault: the shadow is not brought up to date.
ConnectedNoSync ==
  /\ Receive("connected")
  /\ connect_work' = "none"
  /\ is_connected_to_aws_iot' = TRUE
  /\ UNCHANGED <<is_connected_to_network, connecting, init, gaveUp, copy, libPc,
                 setPc, lock, device, session, shadow, history>>

\* Cancels the pending attempt and brings the shadow up to date.
OnConnected ==
  /\ Receive("connected")
  /\ connect_work' = "none"
  /\ is_connected_to_aws_iot' = TRUE
  /\ lib' = "clear"
  /\ UNCHANGED <<is_connected_to_network, connecting, init, gaveUp, copy, attr,
                 value, libMessage, setPc, lock, device, session, shadow, history>>

\* Fault: the flag is not reset.
DisconnectedKeepsFlag ==
  /\ Receive("disconnected")
  /\ Arm
  /\ UNCHANGED <<is_connected_to_network, connecting, init, is_connected_to_aws_iot,
                 copy, libPc, setPc, lock, device, session, shadow, history>>

\* Fault: no new attempt is scheduled.
DisconnectedNoRetry ==
  /\ Receive("disconnected")
  /\ is_connected_to_aws_iot' = FALSE
  /\ UNCHANGED <<link, copy, libPc, setPc, lock, device, session, shadow, history>>

\* Schedules an attempt to connect again.
OnDisconnected ==
  /\ Receive("disconnected")
  /\ Arm
  /\ is_connected_to_aws_iot' = FALSE
  /\ UNCHANGED <<is_connected_to_network, connecting, init, copy, libPc, setPc,
                 lock, device, session, shadow, history>>

\* Fault: attributes that the delta does not have are overwritten as well.
DeltaOverwrites ==
  /\ Receive("delta")
  /\ NoNumber \notin Range(Head(inbox).state)
  /\ payload' = Head(inbox).state
  /\ unapplied' = Attributes
  /\ lib' = "read"
  /\ attr' = "onoff"
  /\ UNCHANGED <<link, is_connected_to_aws_iot, value, libMessage, setPc, lock,
                 device, session, shadow, history>>

\* The attributes a delta has a number for.
Numbers(delta) == {a \in Attributes : delta[a] \in Values}

\* codec_json_decode_delta_message writes straight into the payload.
Decode(delta, attributes) ==
  /\ payload' = [a \in Attributes |-> IF a \in attributes THEN delta[a] ELSE payload[a]]
  /\ unapplied' = unapplied \cup attributes

OnDelta ==
  /\ Receive("delta")
  /\ NoNumber \notin Range(Head(inbox).state)
  /\ Decode(Head(inbox).state, Numbers(Head(inbox).state))
  /\ lib' = "read"
  /\ attr' = "onoff"
  /\ UNCHANGED <<link, is_connected_to_aws_iot, value, libMessage, setPc, lock,
                 device, session, shadow, history>>

\* The codec stops at what is not a number; what it met before has been
\* written, and stays so.  The error is notified, and the event is over.
OnBadDelta ==
  /\ Receive("delta")
  /\ NoNumber \in Range(Head(inbox).state)
  /\ \E met \in SUBSET Numbers(Head(inbox).state) : Decode(Head(inbox).state, met)
  /\ failed' = TRUE
  /\ UNCHANGED <<link, is_connected_to_aws_iot, libPc, setPc, lock, device, session,
                 shadow, late, stale>>

\* data.value is read from the payload, which attribute_set may write.
ReadValue ==
  /\ lib = "read"
  /\ value' = payload[attr]
  /\ lib' = "apply"
  /\ UNCHANGED <<link, is_connected_to_aws_iot, copy, attr, libMessage, setPc,
                 lock, device, session, inbox, shadow, history>>

\* Fault: the applied values are not reported.
NextAttributeOnly ==
  IF attr = "onoff" THEN lib' = "read" /\ attr' = "level_control"
                    ELSE lib' = "idle" /\ UNCHANGED attr

\* Where the thread goes after an attribute: to the other, then to the shadow.
NextAttribute ==
  IF attr = "onoff" THEN lib' = "read" /\ attr' = "level_control"
                    ELSE lib' = "update" /\ UNCHANGED attr

\* The callback changes the attribute; if that is a change, it comes back as
\* a call of attribute_set on this thread.
ApplyValue ==
  /\ lib = "apply"
  /\ lock = "free"
  /\ device' = [device EXCEPT ![attr] = value]
  /\ IF device[attr] # value
     THEN payload' = [payload EXCEPT ![attr] = value]
     ELSE UNCHANGED payload
  /\ unapplied' = unapplied \ {attr}
  /\ IF payload' # payload /\ is_connected_to_aws_iot
     THEN lock' = "lib" /\ lib' = "clear" /\ UNCHANGED attr
     ELSE NextAttribute /\ UNCHANGED lock
  /\ UNCHANGED <<link, is_connected_to_aws_iot, value, libMessage, setPc, session,
                 inbox, shadow, history>>

\* The callback returns false: the handler gives up on the delta, with its
\* values in the payload, and notifies an error.
RefuseValue ==
  /\ lib = "apply"
  /\ lock = "free"
  /\ lib' = "idle"
  /\ failed' = TRUE
  /\ UNCHANGED <<link, is_connected_to_aws_iot, copy, attr, value, libMessage,
                 setPc, lock, device, session, inbox, shadow, late, stale>>

LibEncodes ==
  /\ lib = "update"
  /\ late' = FALSE
  /\ libMessage' = payload
  /\ lib' = "send"
  /\ UNCHANGED <<link, is_connected_to_aws_iot, copy, attr, value, setPc, lock,
                 device, session, inbox, shadow, failed, stale>>

\* Inside attribute_set, the callback returns and the lock is given back;
\* otherwise the event has been handled.
LibReturns == IF lock = "lib" THEN NextAttribute /\ lock' = "free"
                              ELSE lib' = "idle" /\ UNCHANGED <<attr, lock>>

LibSends ==
  /\ \/ /\ lib = "clear" /\ ClearDesired
        /\ lib' = "update" /\ UNCHANGED <<attr, lock>>
     \/ /\ \/ lib = "send" /\ SendReported(libMessage, late)
           \/ lib \in {"clear", "send"} /\ SendFails
        /\ late' = FALSE
        /\ LibReturns
  /\ UNCHANGED <<link, is_connected_to_aws_iot, copy, value, libMessage, setPc, device,
                 session>>

-----------------------------------------------------------------------------
(* The work queue: connect_work_fn.                                        *)

\* An error other than -EAGAIN is notified only: nothing tries again.
GiveUp == connecting' = FALSE /\ gaveUp' = TRUE

\* The delay ends.  Without a network the attempt is dropped, not retried; the
\* first attempt with one initialises the library, which may fail.
ConnectWork ==
  /\ connect_work = "armed"
  /\ ~connecting
  /\ connect_work' = "none"
  /\ \/ connecting' = is_connected_to_network
        /\ init' = (init \/ is_connected_to_network)
        /\ UNCHANGED gaveUp
     \/ is_connected_to_network /\ ~init /\ Errors /\ GiveUp /\ UNCHANGED init
  /\ UNCHANGED <<is_connected_to_network, is_connected_to_aws_iot, copy, libPc,
                 setPc, lock, device, session, inbox, shadow, history>>

\* aws_iot_connect: the broker has accepted.
ConnectOk ==
  /\ connecting
  /\ is_connected_to_network
  /\ session = "down"
  /\ connecting' = FALSE
  /\ session' = "up"
  /\ inbox' = Append(inbox, Connected)
  /\ UNCHANGED <<is_connected_to_network, is_connected_to_aws_iot, connect_work, init,
                 gaveUp, copy, libPc, setPc, lock, device, shadow, history>>

\* Fault: the attempt is not repeated.
TimeoutGivesUp ==
  /\ connecting
  /\ session = "down"
  /\ connecting' = FALSE
  /\ UNCHANGED <<is_connected_to_network, is_connected_to_aws_iot, connect_work, init,
                 gaveUp, copy, libPc, setPc, lock, device, session, inbox, shadow,
                 history>>

\* -EAGAIN: the attempt is repeated later.
ConnectTimeout ==
  /\ connecting
  /\ session = "down"
  /\ connecting' = FALSE
  /\ Arm
  /\ UNCHANGED <<is_connected_to_network, init, is_connected_to_aws_iot, copy, libPc,
                 setPc, lock, device, session, inbox, shadow, history>>

\* Any other error: the session is up already, or worse.
ConnectError ==
  /\ connecting
  /\ session = "up" \/ Errors
  /\ GiveUp
  /\ UNCHANGED <<is_connected_to_network, is_connected_to_aws_iot, connect_work, init,
                 copy, libPc, setPc, lock, device, session, inbox, shadow, history>>

-----------------------------------------------------------------------------
(* The network (l4_handler), the session and the cloud.                    *)

L4Connected ==
  /\ ~is_connected_to_network
  /\ is_connected_to_network' = TRUE
  /\ Arm
  /\ UNCHANGED <<connecting, init, is_connected_to_aws_iot, copy, libPc, setPc,
                 lock, device, session, inbox, shadow, history>>

\* The end of a session; the library has yet to deliver the event.
SessionEnds == session' = "down" /\ inbox' = Append(inbox, Disconnected)

\* disconnect: an error, which is ignored, without a session.
L4Disconnected ==
  /\ is_connected_to_network
  /\ is_connected_to_network' = FALSE
  /\ IF session = "up" THEN SessionEnds ELSE UNCHANGED <<session, inbox>>
  /\ UNCHANGED <<attempt, is_connected_to_aws_iot, copy, libPc, setPc, lock, device,
                 shadow, history>>

\* The broker or the transport ends the session.
SessionDrop ==
  /\ session = "up"
  /\ SessionEnds
  /\ UNCHANGED <<link, is_connected_to_aws_iot, copy, libPc, setPc, lock, device,
                 shadow, history>>

\* A client of the cloud desires a value, or something that is not one.
CloudDesire(a, v) ==
  /\ desired' = [desired EXCEPT ![a] = v]
  /\ inbox' = IF session = "up" THEN Publish(inbox, desired', reported) ELSE inbox
  /\ UNCHANGED <<link, is_connected_to_aws_iot, copy, libPc, setPc, lock, device,
                 session, reported, history>>

-----------------------------------------------------------------------------
SetStep  == ComparePayload \/ CheckConnected \/ SetEncodes \/ SetSends

LibStep  == \/ OnConnected \/ OnDisconnected \/ OnDelta \/ OnBadDelta
            \/ ReadValue \/ ApplyValue \/ RefuseValue
            \/ LibEncodes \/ LibSends

WorkStep == ConnectWork \/ ConnectOk \/ ConnectTimeout \/ ConnectError

EnvStep  == \/ L4Connected \/ L4Disconnected \/ SessionDrop
            \/ \E a \in Attributes, v \in Values : LocalChange(a, v)
            \/ \E a \in Attributes, v \in Values \cup {NoNumber} : CloudDesire(a, v)

Next == SetStep \/ LibStep \/ WorkStep \/ EnvStep

Spec == Init /\ [][Next]_vars

\* Every thread runs, and an attempt to connect that is repeated for ever
\* succeeds some time.
Fairness == /\ WF_vars(SetStep)
            /\ WF_vars(LibStep)
            /\ WF_vars(WorkStep)
            /\ SF_vars(ConnectOk)

FairSpec == Spec /\ Fairness

-----------------------------------------------------------------------------
(* Safety.                                                                 *)

\* Every variable keeps its type; the Matter stack is locked exactly while an
\* attribute is being reported.
TypeOK ==
  /\ is_connected_to_network \in BOOLEAN
  /\ is_connected_to_aws_iot \in BOOLEAN
  /\ payload \in Reports
  /\ unapplied \subseteq Attributes
  /\ connect_work \in {"none", "armed"}
  /\ connecting \in BOOLEAN
  /\ init \in BOOLEAN
  /\ gaveUp \in BOOLEAN
  /\ lib \in {"idle", "read", "apply", "clear", "update", "send"}
  /\ attr \in Attributes
  /\ value \in Values
  /\ libMessage \in Reports
  /\ set \in {"idle", "compare", "check", "clear", "update", "send"}
  /\ id \in Attributes
  /\ setMessage \in Reports
  /\ lock \in {"free", "matter", "lib"}
  /\ lock = "matter" <=> set # "idle"
  /\ device \in Reports
  /\ session \in {"up", "down"}
  /\ inbox \in Seq(Events)
  /\ desired \in Desires
  /\ reported \in Reports
  /\ failed \in BOOLEAN
  /\ late \in BOOLEAN
  /\ stale \in BOOLEAN

\* Where in a box there are events that tell how the session is.
Telling(box) == {i \in DOMAIN box : box[i].type # "delta"}

\* What a flag becomes once the events of a box are handled.
FlagAfter(box, flag) ==
  IF Telling(box) = {}
  THEN flag
  ELSE \E i \in Telling(box) : box[i] = Connected /\ \A j \in Telling(box) : j <= i

\* is_connected_to_aws_iot lags behind the session but never stays wrong,
\* whatever order sessions start and end in: it is right once the library
\* thread has handled the events it still has.
FlagFollowsSession == FlagAfter(inbox, is_connected_to_aws_iot) <=> session = "up"

\* Something is on its way that will try to connect: connect_work, the attempt
\* under way or the disconnected event that will arm it.
Trying == \/ connect_work = "armed"
          \/ connecting
          \/ Disconnected \in Range(inbox)

\* With a network and no session something will try to connect, even if
\* AWS_IOT_EVT_CONNECTED has cancelled connect_work.  Only an error that the
\* application was told of ends this.
NeverStranded == is_connected_to_network /\ session = "down" => gaveUp \/ Trying

\* No thread is in the module and no event waits for it.
AtRest == set = "idle" /\ lib = "idle" /\ inbox = <<>>

\* A comment of aws_iot_integration.c:37 says payload keeps track of the state
\* of the attributes: at rest it is what the device has, although both threads
\* write it and a delta is written before it is applied.  Only what the cloud
\* has put there and the application has not accepted, or was never asked to
\* because the rest of the delta could not be decoded, may differ.
PayloadTracks ==
  AtRest => \A a \in Attributes \ unapplied : payload[a] = device[a]

\* What the cloud desires is never forgotten while a session is up: when no
\* thread is in the module, nothing is desired that is not reported, even if
\* the desire fell between the clearing and the update of a local change, or
\* an error has been notified that nothing has been reported after.
NoDesireLeft ==
  AtRest /\ session = "up" /\ ~failed => Difference(desired, reported) = NoDesire

\* The shadow reports what the device has, but for what was not accepted.
Reported == \A a \in Attributes \ unapplied : reported[a] = device[a]

\* Comments of aws_iot_integration.c:226 and 382-384 say the shadow is updated
\* with the applied value and brought in step on connecting: when no thread is
\* in the module, the session is up and no error is pending, it is so.
ShadowInSync == AtRest /\ session = "up" /\ ~failed => Reported

\* It is, unless the library thread was overtaken by the Matter thread between
\* encoding and sending its last message: shadow_update has no other weakness,
\* whatever is refused, unreadable or lost.
InSyncUnlessStale == AtRest /\ session = "up" /\ ~failed /\ ~stale => Reported

-----------------------------------------------------------------------------
(* What the module promises at every moment.                               *)

\* How far the session is; see AwsSession.
Phase == IF session = "up" THEN "up"
         ELSE IF Trying THEN "trying"
         ELSE IF gaveUp THEN "failed" ELSE "idle"

Session == INSTANCE AwsSession WITH
             MayFail <- Errors, network <- is_connected_to_network, phase <- Phase

\* Attempts to connect are begun, repeated, cancelled and given up from three
\* threads (aws_iot_integration.c:87, 272, 291 and 312): seen from outside, a
\* session that ends is always tried again, until there is one, or no network,
\* or an error that the application is told of.
SessionSpec == Session!Spec

\* The library has delivered the start of the session that is up.
Linked == session = "up" /\ Connected \notin Range(inbox)

\* The Matter thread is about to report the attribute.
UnderWay(a) == set # "idle" /\ id = a

\* Not only at rest: each report of either thread is right about every
\* attribute, but for a change whose own report is still to come, for what was
\* not accepted, and for a message of the library thread that was overtaken;
\* no report undoes what the other thread has told the cloud of a change.
ReportsRight ==
  [][reported' # reported /\ Linked /\ ~stale' =>
       \A a \in Attributes \ unapplied : reported'[a] = device[a] \/ UnderWay(a)']_vars

-----------------------------------------------------------------------------
(* Liveness.                                                               *)

\* Once users, cloud and network are quiet and there is a network, every change
\* gets handled and the session comes up for good, or stays away because of an
\* error that the application was told of.
Reconnects ==
  \/ []<><<EnvStep>>_vars
  \/ <>[]is_connected_to_network
       => <>[](AtRest /\ \/ session = "up" /\ is_connected_to_aws_iot
                         \/ session = "down" /\ gaveUp)
=============================================================================
