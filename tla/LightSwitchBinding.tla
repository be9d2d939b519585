------------------------- MODULE LightSwitchBinding -------------------------
(***************************************************************************)
(* How a command of the light switch of src/src_old reaches the bound      *)
(* lights (light_switch.cpp, shell_commands.cpp), and the memory it takes. *)
(*                                                                         *)
(* The main thread and the shell allocate a BindingData each and hand it   *)
(* over; from then on the Matter thread owns it.  For a command to a light *)
(* the handler makes two more copies, one for each callback, of which one  *)
(* is called.                                                              *)
(*                                                                         *)
(* External: the binding handler of the board's common code, which lets    *)
(* every binding that IsGroup admits have its turn, a light's once there   *)
(* is a session (the handler asserts ConnectionReady), releases its data   *)
(* after the last turn, and the copy of a callback with the callback; the  *)
(* sessions, the lights and the heap.                                      *)
(***************************************************************************)
EXTENDS Functions, SequencesExt

CONSTANTS Blocks,         \* bound: what the heap has room for
          Lights, Groups, \* the unicast and the multicast bindings
          ShellCommands,  \* the commands the shell is given
          NoBlock         \* the null pointer

ASSUME BindingAssumption == /\ NoBlock \notin Blocks
                            /\ Lights \cap Groups = {}
                            /\ ShellCommands \subseteq {"toggle", "on", "off"}

VARIABLES data,      \* the BindingData of the commands, by block
          copies,    \* the blocks of the callbacks' copies, lost ones included
          works,     \* the blocks RunBoundClusterAction has scheduled
          turns,     \* the handlers to be called: whose data, and to what
          exchanges  \* unanswered requests: the copies of onSuccess and onFailure

binding == <<data, copies, works, turns, exchanges>>

Commands == {"toggle", "on", "off", "level"}
Askers   == {"button", "unicast", "group"}  \* Askers: history, see AskedFor

Free == Blocks \ (DOMAIN data \cup copies)

BindingInit ==
  /\ data = <<>>
  /\ copies = {}
  /\ works = <<>>
  /\ turns = {}
  /\ exchanges = {}

-----------------------------------------------------------------------------
(* Whoever asks for a command.                                             *)

\* Fault: the shell's group commands leave the field alone.
IsGroupUnset(asker) == IF asker = "unicast" THEN {FALSE} ELSE {}

\* BindingData::IsGroup, which the button's commands leave without a value.
IsGroup(asker) ==
  CASE asker = "unicast" -> {FALSE}
    [] asker = "group"   -> {TRUE}
    [] OTHER             -> {}

Schedule(command, asker) ==
  \E b \in Free :
    /\ data' = [c \in DOMAIN data \cup {b} |->
                  IF c = b THEN [command |-> command, asker |-> asker,
                                 isGroup |-> IsGroup(asker)]
                           ELSE data[c]]
    /\ works' = Append(works, b)
    /\ UNCHANGED <<copies, turns, exchanges>>

\* InitiateActionSwitch and DimmerChangeBrightness: without memory, nothing.
Send(command) == Schedule(command, "button") \/ UNCHANGED binding

UnicastCommand(command) == Schedule(command, "unicast")

GroupCommand(command) == Schedule(command, "group")

-----------------------------------------------------------------------------
(* The Matter thread.                                                      *)

Admitted(b) == (IF TRUE \in data[b].isGroup THEN {} ELSE Lights) \cup
               (IF FALSE \in data[b].isGroup THEN {} ELSE Groups)

\* The data goes with the last of its turns.
EndTurns(left, b) ==
  /\ turns' = left
  /\ data' = IF \E turn \in left : turn.of = b
               THEN data ELSE Restrict(data, DOMAIN data \ {b})

RunBoundClusterAction ==
  /\ works # <<>>
  /\ LET b == Head(works)
     IN  EndTurns(turns \cup {[of |-> b, to |-> to] : to \in Admitted(b)}, b)
  /\ works' = Tail(works)
  /\ UNCHANGED <<copies, exchanges>>

\* No session with the light: its turn passes without the handler.
NoSession(turn) ==
  /\ turn.to \in Lights
  /\ EndTurns(turns \ {turn}, turn.of)
  /\ UNCHANGED <<copies, works, exchanges>>

\* Fault: the callbacks capture the data itself.
CaptureData(b) == {<<b, b>>}

\* The lambdas of OnOffProcessCommand and LevelControlProcessCommand, onSuccess
\* and onFailure: either's copy of the data in b may fail, unnoticed.
Capture(b) == {c \in (Free \cup {NoBlock}) \X (Free \cup {NoBlock}) :
                 c[1] = c[2] => c[1] = NoBlock}

Captured(c) == {c[1], c[2]} \ {NoBlock}

\* SwitchChangedHandler for a light: the request is refused or is under way.
SwitchLight(turn) ==
  /\ turn.to \in Lights
  /\ \E c \in Capture(turn.of) :
       /\ copies' = copies \cup Captured(c)
       /\ exchanges' \in {exchanges, exchanges \cup {c}}
  /\ EndTurns(turns \ {turn}, turn.of)
  /\ UNCHANGED works

\* SwitchChangedHandler for a group: nobody answers, both copies are lost.
SwitchGroup(turn) ==
  /\ turn.to \in Groups
  /\ \E c \in Capture(turn.of) : copies' = copies \cup Captured(c)
  /\ EndTurns(turns \ {turn}, turn.of)
  /\ UNCHANGED <<works, exchanges>>

\* One of the callbacks is called and releases its copy; the other is lost.
Answer(exchange) ==
  /\ \E copy \in Range(exchange) : copies' = copies \ {copy}
  /\ exchanges' = exchanges \ {exchange}
  /\ UNCHANGED <<data, works, turns>>

SwitchChangedHandler == \E turn \in turns : SwitchLight(turn) \/ SwitchGroup(turn)

MatterStep ==
  \/ RunBoundClusterAction
  \/ SwitchChangedHandler
  \/ \E turn \in turns : NoSession(turn)
  \/ \E exchange \in exchanges : Answer(exchange)

Shell == \E command \in ShellCommands : UnicastCommand(command) \/ GroupCommand(command)

-----------------------------------------------------------------------------
Due == {turn.of : turn \in turns}

\* The types of the binding's variables; part of TypeOK of LightSwitchDimmer.
BindingTypeOK ==
  /\ DOMAIN data \subseteq Blocks
  /\ \A b \in DOMAIN data :
       data[b] \in [command : Commands, asker : Askers, isGroup : SUBSET BOOLEAN]
  /\ copies \subseteq Blocks
  /\ works \in Seq(Blocks)
  /\ turns \subseteq [of : Blocks, to : Lights \cup Groups]
  /\ exchanges \subseteq (Blocks \cup {NoBlock}) \X (Blocks \cup {NoBlock})

\* light_switch.cpp:115-124: a callback runs when the data its command came
\* with may long be gone and its block be used again.  What a scheduled command,
\* a handler or a callback has yet to use is still its own: the data are those
\* that wait for a run or a turn, and the copies of the callbacks to come are
\* allocated, apart from them, and no two the same.
NoDangling ==
  /\ DOMAIN data = ToSet(works) \cup Due
  /\ ToSet(works) \cap Due = {}
  /\ IsInjective(works)
  /\ copies \cap DOMAIN data = {}
  /\ \A e \in exchanges :
       /\ Captured(e) \subseteq copies
       /\ e[1] = e[2] => e[1] = NoBlock
       /\ \A other \in exchanges \ {e} : Captured(e) \cap Captured(other) = {}

\* shell_commands.cpp:75 and :159: a unicast command of the shell goes to no
\* group, a group command to no single light, however their data wait among
\* the button's, which go to both.
AskedFor ==
  \A turn \in turns :
    LET asker == data[turn.of].asker
    IN  /\ asker = "unicast" => turn.to \in Lights
        /\ asker = "group" => turn.to \in Groups
=============================================================================
