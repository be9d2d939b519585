-------------------------- MODULE LightSwitchProofs --------------------------
(***************************************************************************)
(* Theorems about the light switch for every time constant, brightness     *)
(* range, binding table and heap: who owns the data of a command, whom it  *)
(* reaches and, however late the main thread is, what a press does.        *)
(***************************************************************************)
EXTENDS LightSwitchDimmer, TLAPS

-----------------------------------------------------------------------------
(* Queues.                                                                 *)

\* What is in a queue once something is appended.
LEMMA AppendElements ==
  ASSUME NEW S, NEW q \in Seq(S), NEW e \in S
  PROVE  /\ Append(q, e) \in Seq(S)
         /\ ToSet(Append(q, e)) = ToSet(q) \cup {e}
         /\ e \notin ToSet(q) /\ IsInjective(q) => IsInjective(Append(q, e))
<1>1. /\ Append(q, e) \in Seq(S) /\ Len(q) \in Nat
      /\ DOMAIN q = 1..Len(q) /\ DOMAIN Append(q, e) = 1..(Len(q) + 1)
      /\ \A i \in DOMAIN q : Append(q, e)[i] = q[i]
      /\ Append(q, e)[Len(q) + 1] = e
  OBVIOUS
<1>2. ToSet(Append(q, e)) = ToSet(q) \cup {e}
  BY <1>1 DEF ToSet
<1>3. ASSUME e \notin ToSet(q), IsInjective(q) PROVE IsInjective(Append(q, e))
  <2>1. ASSUME NEW i \in 1..(Len(q) + 1), NEW j \in 1..(Len(q) + 1),
               Append(q, e)[i] = Append(q, e)[j]
        PROVE  i = j
    <3>1. \A k \in DOMAIN q : q[k] # e
      BY <1>3 DEF ToSet
    <3> QED
      BY <1>1, <1>3, <2>1, <3>1 DEF IsInjective
  <2> QED
    BY <1>1, <2>1 DEF IsInjective
<1> QED
  BY <1>1, <1>2, <1>3

\* What is left of a queue once the head is taken.
LEMMA TailElements ==
  ASSUME NEW S, NEW q \in Seq(S), q # <<>>
  PROVE  /\ Tail(q) \in Seq(S) /\ Head(q) \in S
         /\ ToSet(q) = {Head(q)} \cup ToSet(Tail(q))
         /\ IsInjective(q) => IsInjective(Tail(q)) /\ Head(q) \notin ToSet(Tail(q))
<1>1. /\ Tail(q) \in Seq(S) /\ Len(q) \in Nat \ {0}
      /\ DOMAIN q = 1..Len(q) /\ DOMAIN Tail(q) = 1..(Len(q) - 1)
      /\ \A i \in DOMAIN Tail(q) : Tail(q)[i] = q[i + 1]
      /\ Head(q) = q[1]
  OBVIOUS
<1>2. \A i \in DOMAIN q : i # 1 => i - 1 \in DOMAIN Tail(q) /\ q[i] = Tail(q)[i - 1]
  BY <1>1
<1>3. ToSet(q) = {Head(q)} \cup ToSet(Tail(q))
  <2>1. ASSUME NEW e \in ToSet(q) PROVE e \in {Head(q)} \cup ToSet(Tail(q))
    <3>1. PICK i \in DOMAIN q : q[i] = e
      BY DEF ToSet
    <3> QED
      BY <1>1, <1>2, <3>1 DEF ToSet
  <2>2. ASSUME NEW e \in ToSet(Tail(q)) PROVE e \in ToSet(q)
    <3>1. PICK i \in DOMAIN Tail(q) : Tail(q)[i] = e
      BY DEF ToSet
    <3>2. i + 1 \in DOMAIN q /\ q[i + 1] = e
      BY <1>1, <3>1
    <3> QED
      BY <3>2 DEF ToSet
  <2>3. Head(q) \in ToSet(q)
    BY <1>1 DEF ToSet
  <2> QED
    BY <2>1, <2>2, <2>3
<1>4. ASSUME IsInjective(q)
      PROVE  IsInjective(Tail(q)) /\ Head(q) \notin ToSet(Tail(q))
  <2>1. \A i, j \in DOMAIN q : q[i] = q[j] => i = j
    BY <1>4 DEF IsInjective
  <2>2. ASSUME NEW i \in DOMAIN Tail(q), NEW j \in DOMAIN Tail(q), Tail(q)[i] = Tail(q)[j]
        PROVE  i = j
    <3>1. i + 1 \in DOMAIN q /\ j + 1 \in DOMAIN q /\ q[i + 1] = q[j + 1]
      BY <1>1, <2>2
    <3> QED
      BY <1>1, <2>1, <3>1
  <2>3. \A i \in DOMAIN Tail(q) : Tail(q)[i] # Head(q)
    <3>1. ASSUME NEW i \in DOMAIN Tail(q), q[i + 1] = q[1] PROVE FALSE
      BY <1>1, <2>1, <3>1
    <3> QED
      BY <1>1, <3>1
  <2> QED
    BY <2>2, <2>3 DEF IsInjective, ToSet
<1> QED
  BY <1>1, <1>3, <1>4

-----------------------------------------------------------------------------
(* The data of the commands.                                               *)

\* The field of a command's data is the one its asker has set.
GroupAsAsked == \A b \in DOMAIN data : data[b].isGroup = IsGroup(data[b].asker)

BindingInv == BindingTypeOK /\ NoDangling /\ GroupAsAsked /\ AskedFor

LEMMA Init_BindingInv == BindingInit => BindingInv
<1> SUFFICES ASSUME BindingInit PROVE BindingInv
  OBVIOUS
<1>1. /\ DOMAIN data = {} /\ copies = {} /\ works = <<>> /\ turns = {} /\ exchanges = {}
      /\ ToSet(works) = {} /\ IsInjective(works) /\ Due = {}
  BY DEF BindingInit, ToSet, IsInjective, Due
<1> QED
  BY <1>1 DEF BindingInv, BindingTypeOK, NoDangling, GroupAsAsked, AskedFor

\* A command that is scheduled gets a block of its own.
LEMMA Schedule_BindingInv ==
  ASSUME NEW command \in Commands, NEW asker \in Askers,
         BindingInv, Schedule(command, asker)
  PROVE  BindingInv'
<1> DEFINE new == [command |-> command, asker |-> asker, isGroup |-> IsGroup(asker)]
<1>1. PICK b \in Free : /\ data' = [c \in DOMAIN data \cup {b} |-> IF c = b THEN new ELSE data[c]]
                        /\ works' = Append(works, b)
                        /\ UNCHANGED <<copies, turns, exchanges>>
  BY DEF Schedule
<1>2. b \in Blocks /\ b \notin DOMAIN data /\ b \notin copies
  BY DEF Free
<1>3. /\ DOMAIN data' = DOMAIN data \cup {b}
      /\ \A c \in DOMAIN data' : data'[c] = IF c = b THEN new ELSE data[c]
  BY <1>1, <1>2
<1>4. new \in [command : Commands, asker : Askers, isGroup : SUBSET BOOLEAN]
  BY DEF IsGroup, Askers
<1>5. BindingTypeOK'
  BY <1>1, <1>2, <1>3, <1>4, AppendElements DEF BindingInv, BindingTypeOK
<1>6. Due' = Due /\ ToSet(works') = ToSet(works) \cup {b} /\ IsInjective(works')
  BY <1>1, <1>2, AppendElements DEF BindingInv, BindingTypeOK, NoDangling, Due
<1>7. NoDangling'
  BY <1>1, <1>2, <1>3, <1>6 DEF BindingInv, NoDangling
<1>8. GroupAsAsked' /\ AskedFor'
  <2>1. \A turn \in turns : turn.of \in DOMAIN data
    BY DEF BindingInv, NoDangling, Due
  <2> QED
    BY <1>1, <1>2, <1>3, <2>1 DEF BindingInv, GroupAsAsked, AskedFor
<1> QED
  BY <1>5, <1>7, <1>8 DEF BindingInv

\* The invariant without the callbacks' copies, and the copies' part of it.
DataInv ==
  /\ DOMAIN data \subseteq Blocks
  /\ \A b \in DOMAIN data :
       data[b] \in [command : Commands, asker : Askers, isGroup : SUBSET BOOLEAN]
  /\ works \in Seq(Blocks) /\ IsInjective(works)
  /\ turns \subseteq [of : Blocks, to : Lights \cup Groups]
  /\ DOMAIN data = ToSet(works) \cup Due
  /\ ToSet(works) \cap Due = {}
  /\ GroupAsAsked
  /\ AskedFor

CopiesInv ==
  /\ copies \subseteq Blocks
  /\ copies \cap DOMAIN data = {}
  /\ exchanges \subseteq (Blocks \cup {NoBlock}) \X (Blocks \cup {NoBlock})
  /\ \A e \in exchanges :
       /\ Captured(e) \subseteq copies
       /\ e[1] = e[2] => e[1] = NoBlock
       /\ \A other \in exchanges \ {e} : Captured(e) \cap Captured(other) = {}

LEMMA InvParts == BindingInv <=> DataInv /\ CopiesInv
BY DEF BindingInv, BindingTypeOK, NoDangling, DataInv, CopiesInv

LEMMA EndTurnsData ==
  ASSUME NEW left, NEW b, EndTurns(left, b)
  PROVE  /\ turns' = left
         /\ DOMAIN data' = IF \E turn \in left : turn.of = b
                           THEN DOMAIN data ELSE DOMAIN data \ {b}
         /\ \A c \in DOMAIN data' : data'[c] = data[c]
BY DEF EndTurns, Restrict

\* At the end of a turn the data stays with the turns that are left.
LEMMA EndOfTurn ==
  ASSUME DataInv, NEW turn \in turns, EndTurns(turns \ {turn}, turn.of), UNCHANGED works
  PROVE  DataInv' /\ DOMAIN data' \subseteq DOMAIN data
<1>1. /\ turns' = turns \ {turn}
      /\ DOMAIN data' = IF \E other \in turns' : other.of = turn.of
                        THEN DOMAIN data ELSE DOMAIN data \ {turn.of}
      /\ \A c \in DOMAIN data' : data'[c] = data[c]
  BY EndTurnsData
<1>2. DOMAIN data' \subseteq DOMAIN data
  BY <1>1
<1>3. Due' \subseteq Due /\ Due' = IF \E other \in turns' : other.of = turn.of
                                   THEN Due ELSE Due \ {turn.of}
  BY <1>1 DEF Due
<1>4. turn.of \in Due /\ turn.of \notin ToSet(works)
  BY DEF DataInv, Due
<1>5. DOMAIN data' = ToSet(works') \cup Due' /\ ToSet(works') \cap Due' = {}
  BY <1>1, <1>3, <1>4 DEF DataInv
<1>6. GroupAsAsked'
  BY <1>1, <1>2 DEF DataInv, GroupAsAsked
<1>7. \A other \in turns' : other \in turns /\ other.of \in DOMAIN data'
  BY <1>1, <1>5 DEF Due
<1>8. AskedFor'
  BY <1>1, <1>7 DEF DataInv, AskedFor
<1> QED
  BY <1>1, <1>2, <1>5, <1>6, <1>8 DEF DataInv

\* The work of a command makes its data that of its turns.
LEMMA Run_DataInv ==
  ASSUME DataInv, RunBoundClusterAction
  PROVE  DataInv' /\ DOMAIN data' \subseteq DOMAIN data
<1> DEFINE b    == Head(works)
           mine == {[of |-> b, to |-> to] : to \in Admitted(b)}
<1>1. works # <<>> /\ works' = Tail(works) /\ EndTurns(turns \cup mine, b)
  BY DEF RunBoundClusterAction
<1>2. /\ works' \in Seq(Blocks) /\ IsInjective(works') /\ b \in Blocks
      /\ ToSet(works) = {b} \cup ToSet(works') /\ b \notin ToSet(works')
  BY <1>1, TailElements DEF DataInv
<1>3. b \in DOMAIN data /\ b \notin Due
  BY <1>2 DEF DataInv
<1>4. \A turn \in turns : turn.of # b
  BY <1>3 DEF Due
<1>5. \A turn \in mine : turn.of = b /\ turn.to \in Admitted(b)
  OBVIOUS
<1>6. /\ turns' = turns \cup mine
      /\ DOMAIN data' = IF mine # {} THEN DOMAIN data ELSE DOMAIN data \ {b}
      /\ \A c \in DOMAIN data' : data'[c] = data[c]
  <2>1. (\E turn \in turns \cup mine : turn.of = b) <=> mine # {}
    BY <1>4, <1>5
  <2> HIDE DEF b, mine
  <2>2. /\ turns' = turns \cup mine
        /\ DOMAIN data' = IF \E turn \in turns \cup mine : turn.of = b
                          THEN DOMAIN data ELSE DOMAIN data \ {b}
        /\ \A c \in DOMAIN data' : data'[c] = data[c]
    BY <1>1, EndTurnsData
  <2> QED
    BY <2>1, <2>2
<1>7. Due' = IF mine # {} THEN Due \cup {b} ELSE Due
  BY <1>5, <1>6 DEF Due
<1>8. DOMAIN data' = ToSet(works') \cup Due' /\ ToSet(works') \cap Due' = {}
  BY <1>2, <1>3, <1>6, <1>7 DEF DataInv
<1>9. turns' \subseteq [of : Blocks, to : Lights \cup Groups]
  <2>1. mine \subseteq [of : Blocks, to : Lights \cup Groups]
    <3>1. Admitted(b) \subseteq Lights \cup Groups
      BY DEF Admitted
    <3> QED
      BY <1>2, <3>1
  <2> QED
    BY <1>6, <2>1 DEF DataInv
<1>10. GroupAsAsked'
  BY <1>6 DEF DataInv, GroupAsAsked
<1>11. ASSUME NEW turn \in turns'
       PROVE  LET asker == data'[turn.of].asker
              IN  /\ asker = "unicast" => turn.to \in Lights
                  /\ asker = "group" => turn.to \in Groups
  <2>1. turn.of \in DOMAIN data'
    BY <1>8 DEF Due
  <2>2. CASE turn \in turns
    BY <1>6, <2>1, <2>2 DEF DataInv, AskedFor
  <2>3. CASE turn \in mine
    <3>1. turn.of = b /\ turn.to \in Admitted(b) /\ data'[b] = data[b]
      BY <1>5, <1>6, <2>1, <2>3
    <3>2. data[b].isGroup = IsGroup(data[b].asker)
      BY <1>3 DEF DataInv, GroupAsAsked
    <3> QED
      BY <3>1, <3>2 DEF Admitted, IsGroup
  <2> QED
    BY <1>6, <2>2, <2>3
<1>12. AskedFor'
  BY <1>11 DEF AskedFor
<1> QED
  BY <1>2, <1>6, <1>8, <1>9, <1>10, <1>12 DEF DataInv

\* The copies made for a command are allocated, and nobody else's.
LEMMA CaptureCopies ==
  ASSUME BindingInv, NEW b, NEW c \in Capture(b), copies' = copies \cup Captured(c),
         DOMAIN data' \subseteq DOMAIN data,
         exchanges' \in {exchanges, exchanges \cup {c}}
  PROVE  CopiesInv'
<1>1. /\ c \in (Free \cup {NoBlock}) \X (Free \cup {NoBlock})
      /\ c[1] = c[2] => c[1] = NoBlock
  BY DEF Capture
<1>2. /\ Captured(c) \subseteq Free
      /\ Free \subseteq Blocks /\ Free \cap copies = {} /\ Free \cap DOMAIN data = {}
  BY <1>1 DEF Captured, Free
<1>3. copies' \subseteq Blocks /\ copies' \cap DOMAIN data' = {}
  BY <1>2, InvParts DEF CopiesInv
<1>4. \A e \in exchanges : Captured(e) \cap Captured(c) = {} /\ Captured(e) \subseteq copies'
  BY <1>2, InvParts DEF CopiesInv
<1>5. c \in (Blocks \cup {NoBlock}) \X (Blocks \cup {NoBlock})
  BY <1>1, <1>2
<1> QED
  BY <1>1, <1>3, <1>4, <1>5, InvParts DEF CopiesInv

\* Nothing but data released: the copies stay what they were.
LEMMA KeepCopies ==
  ASSUME CopiesInv, UNCHANGED <<copies, exchanges>>, DOMAIN data' \subseteq DOMAIN data
  PROVE  CopiesInv'
BY DEF CopiesInv

\* A callback releases a copy of its exchange, and of no other.
LEMMA Answer_BindingInv ==
  ASSUME BindingInv, NEW exchange \in exchanges, Answer(exchange)
  PROVE  BindingInv'
<1>1. PICK copy \in Range(exchange) : copies' = copies \ {copy}
  BY DEF Answer
<1>2. exchanges' = exchanges \ {exchange} /\ UNCHANGED <<data, works, turns>>
  BY DEF Answer
<1>3. exchange \in (Blocks \cup {NoBlock}) \X (Blocks \cup {NoBlock})
  BY InvParts DEF CopiesInv
<1>4. copy \in {exchange[1], exchange[2]}
  BY <1>1, <1>3 DEF Range
<1>5. \A e \in exchanges' : NoBlock \notin Captured(e) /\ Captured(e) \subseteq copies
  BY <1>2, InvParts DEF CopiesInv, Captured
<1>6. \A e \in exchanges' : copy \notin Captured(e)
  <2>1. CASE copy = NoBlock
    BY <1>5, <2>1
  <2>2. CASE copy # NoBlock
    <3>1. copy \in Captured(exchange)
      BY <1>4, <2>2 DEF Captured
    <3>2. \A e \in exchanges' : Captured(e) \cap Captured(exchange) = {}
      BY <1>2, InvParts DEF CopiesInv
    <3> QED
      BY <3>1, <3>2
  <2> QED
    BY <2>1, <2>2
<1>7. CopiesInv'
  BY <1>1, <1>2, <1>5, <1>6, InvParts DEF CopiesInv
<1>8. DataInv'
  BY <1>2, InvParts DEF DataInv, Due, GroupAsAsked, AskedFor
<1> QED
  BY <1>7, <1>8, InvParts DEF BindingInv, DataInv, CopiesInv, BindingTypeOK, NoDangling

\* What the Matter thread does to a command leaves the memory in order.
LEMMA MatterStep_BindingInv == BindingInv /\ MatterStep => BindingInv'
<1> SUFFICES ASSUME BindingInv, MatterStep PROVE BindingInv'
  OBVIOUS
<1>0. DataInv /\ CopiesInv
  BY InvParts
<1>1. DataInv' /\ CopiesInv' => BindingInv'
  BY DEF BindingInv, DataInv, CopiesInv, BindingTypeOK, NoDangling
<1>2. CASE RunBoundClusterAction
  <2>1. DataInv' /\ DOMAIN data' \subseteq DOMAIN data
    BY <1>0, <1>2, Run_DataInv
  <2>2. UNCHANGED <<copies, exchanges>>
    BY <1>2 DEF RunBoundClusterAction
  <2> QED
    BY <1>0, <1>1, <2>1, <2>2, KeepCopies
<1>3. ASSUME NEW turn \in turns, SwitchLight(turn) PROVE BindingInv'
  <2>1. PICK c \in Capture(turn.of) : /\ copies' = copies \cup Captured(c)
                                      /\ exchanges' \in {exchanges, exchanges \cup {c}}
    BY <1>3 DEF SwitchLight
  <2>2. DataInv' /\ DOMAIN data' \subseteq DOMAIN data
    BY <1>0, <1>3, EndOfTurn DEF SwitchLight
  <2> QED
    BY <1>1, <2>1, <2>2, CaptureCopies
<1>4. ASSUME NEW turn \in turns, SwitchGroup(turn) PROVE BindingInv'
  <2>1. PICK c \in Capture(turn.of) : copies' = copies \cup Captured(c)
    BY <1>4 DEF SwitchGroup
  <2>2. exchanges' = exchanges
    BY <1>4 DEF SwitchGroup
  <2>3. DataInv' /\ DOMAIN data' \subseteq DOMAIN data
    BY <1>0, <1>4, EndOfTurn DEF SwitchGroup
  <2> QED
    BY <1>1, <2>1, <2>2, <2>3, CaptureCopies
<1>5. ASSUME NEW turn \in turns, NoSession(turn) PROVE BindingInv'
  <2>1. DataInv' /\ DOMAIN data' \subseteq DOMAIN data
    BY <1>0, <1>5, EndOfTurn DEF NoSession
  <2>2. UNCHANGED <<copies, exchanges>>
    BY <1>5 DEF NoSession
  <2> QED
    BY <1>0, <1>1, <2>1, <2>2, KeepCopies
<1> QED
  BY <1>2, <1>3, <1>4, <1>5, Answer_BindingInv DEF MatterStep, SwitchChangedHandler

LEMMA KeepBinding == BindingInv /\ UNCHANGED binding => BindingInv'
BY DEF BindingInv, binding, BindingTypeOK, NoDangling, GroupAsAsked, AskedFor, Due

\* So does whoever asks for a command, and the button.
LEMMA Next_BindingInv == BindingInv /\ [Next]_vars => BindingInv'
<1> SUFFICES ASSUME BindingInv, [Next]_vars PROVE BindingInv'
  OBVIOUS
<1>1. ASSUME NEW command \in Commands, Send(command) PROVE BindingInv'
  BY <1>1, Schedule_BindingInv, KeepBinding DEF Send, Askers
<1>2. CASE UNCHANGED binding
  BY <1>2, KeepBinding
<1>3. CASE MainStep
  <2>1. CASE DimmerTriggerEventHandler
    BY <1>1, <1>2, <2>1 DEF DimmerTriggerEventHandler, Commands
  <2>2. CASE DimmingStarts
    BY <1>1, <2>2 DEF DimmingStarts, Commands
  <2>3. CASE DimmerChangeBrightness
    BY <1>2, <2>3, Schedule_BindingInv DEF DimmerChangeBrightness, Commands, Askers, binding
  <2> QED
    BY <1>3, <2>1, <2>2, <2>3 DEF MainStep
<1>4. CASE Shell
  <2>1. PICK command \in ShellCommands : UnicastCommand(command) \/ GroupCommand(command)
    BY <1>4 DEF Shell
  <2>2. command \in Commands
    BY BindingAssumption DEF Commands
  <2> QED
    BY <2>1, <2>2, Schedule_BindingInv DEF UnicastCommand, GroupCommand, Askers
<1>5. CASE MatterStep
  BY <1>5, MatterStep_BindingInv
<1>6. [Next]_vars => \/ UNCHANGED binding \/ MainStep \/ Shell \/ MatterStep
  BY DEF Next, vars, Press, Release, Tick, Other, binding
<1> QED
  BY <1>2, <1>3, <1>4, <1>5, <1>6

\* A callback, a handler or a scheduled command never uses memory that is not
\* its own any more.
THEOREM Spec_NoDangling == Spec => []NoDangling
<1>1. Init => BindingInv
  BY Init_BindingInv DEF Init
<1>2. BindingInv => NoDangling
  BY DEF BindingInv
<1> QED
  BY <1>1, <1>2, Next_BindingInv, PTL DEF Spec

\* A unicast command of the shell reaches lights only, a group command groups.
THEOREM Spec_AskedFor == Spec => []AskedFor
<1>1. Init => BindingInv
  BY Init_BindingInv DEF Init
<1>2. BindingInv => AskedFor
  BY DEF BindingInv
<1> QED
  BY <1>1, <1>2, Next_BindingInv, PTL DEF Spec

-----------------------------------------------------------------------------
(* The button and the dimmer.                                              *)

\* What a queue has.
Has(q, task) == \E i \in DOMAIN q : q[i] = task

\* A queue with one task more.
LEMMA OneMore ==
  ASSUME NEW q \in Seq(Tasks), NEW e \in Tasks
  PROVE  /\ q \o <<e>> \in Seq(Tasks)
         /\ \A task : Has(q \o <<e>>, task) <=> Has(q, task) \/ task = e
<1> DEFINE r == q \o <<e>>
<1>1. /\ r \in Seq(Tasks) /\ Len(q) \in Nat
      /\ DOMAIN q = 1..Len(q) /\ DOMAIN r = 1..(Len(q) + 1)
      /\ \A i \in DOMAIN q : r[i] = q[i]
      /\ r[Len(q) + 1] = e
  OBVIOUS
<1> HIDE DEF r
<1>2. ASSUME NEW task PROVE Has(r, task) <=> Has(q, task) \/ task = e
  BY <1>1 DEF Has
<1> QED
  BY <1>1, <1>2 DEF r

\* A tick posts the tasks of the timers that expire, in either order.
LEMMA TickTasks ==
  ASSUME TypeOK, Tick
  PROVE  /\ tasks' \in Seq(Tasks)
         /\ pressTimer # 1 /\ dimmerTimer # 1 => tasks' = tasks
         /\ Waiting("trigger")' <=> Waiting("trigger") \/ pressTimer = 1
         /\ Waiting("dim")' <=> Waiting("dim") \/ dimmerTimer = 1
         /\ Waiting("release")' <=> Waiting("release")
<1>1. tasks \in Seq(Tasks) /\ "trigger" \in Tasks /\ "dim" \in Tasks
  BY DEF TypeOK, Tasks
<1>2. /\ \A timer : Expired(timer, "trigger") = IF timer = 1 THEN <<"trigger">> ELSE <<>>
      /\ \A timer : Expired(timer, "dim") = IF timer = 1 THEN <<"dim">> ELSE <<>>
  BY DEF Expired
<1>3. \/ tasks' = tasks \o Expired(pressTimer, "trigger") \o Expired(dimmerTimer, "dim")
      \/ tasks' = tasks \o Expired(dimmerTimer, "dim") \o Expired(pressTimer, "trigger")
  BY DEF Tick
<1>4. \A q \in Seq(Tasks) : q \o <<>> = q
  OBVIOUS
<1>5. \A task : Waiting(task) = Has(tasks, task) /\ Waiting(task)' = Has(tasks', task)
  BY DEF Waiting, Has
<1>6. /\ tasks \o <<"dim">> \in Seq(Tasks) /\ tasks \o <<"trigger">> \in Seq(Tasks)
      /\ tasks \o <<>> = tasks
  BY <1>1, <1>4
<1>7. CASE pressTimer # 1 /\ dimmerTimer # 1
  <2>1. tasks' = tasks
    BY <1>1, <1>2, <1>3, <1>4, <1>7
  <2> QED
    BY <1>1, <1>5, <1>7, <2>1
<1>8. CASE pressTimer # 1 /\ dimmerTimer = 1
  <2>1. tasks' = tasks \o <<"dim">>
    BY <1>2, <1>3, <1>4, <1>6, <1>8
  <2> QED
    BY <1>1, <1>5, <1>8, <2>1, OneMore
<1>9. CASE pressTimer = 1 /\ dimmerTimer # 1
  <2>1. tasks' = tasks \o <<"trigger">>
    BY <1>2, <1>3, <1>4, <1>6, <1>9
  <2> QED
    BY <1>1, <1>5, <1>9, <2>1, OneMore
<1>10. CASE pressTimer = 1 /\ dimmerTimer = 1
  <2>1. \/ tasks' = (tasks \o <<"trigger">>) \o <<"dim">>
        \/ tasks' = (tasks \o <<"dim">>) \o <<"trigger">>
    BY <1>2, <1>3, <1>10
  <2>2. ASSUME NEW e \in Tasks, NEW f \in Tasks, tasks \o <<e>> \in Seq(Tasks),
               tasks' = (tasks \o <<e>>) \o <<f>>
        PROVE  /\ tasks' \in Seq(Tasks)
               /\ \A task : Has(tasks', task) <=> Has(tasks, task) \/ task = e \/ task = f
    <3> DEFINE q == tasks \o <<e>>
    <3>1. \A task : Has(q, task) <=> Has(tasks, task) \/ task = e
      BY <1>1, OneMore
    <3>2. q \in Seq(Tasks) /\ tasks' = q \o <<f>>
      BY <2>2
    <3> HIDE DEF q
    <3>3. /\ q \o <<f>> \in Seq(Tasks)
          /\ \A task : Has(q \o <<f>>, task) <=> Has(q, task) \/ task = f
      BY <3>2, OneMore
    <3> QED
      BY <3>1, <3>2, <3>3
  <2>3. /\ tasks' \in Seq(Tasks)
        /\ \A task : Has(tasks', task) <=> Has(tasks, task) \/ task \in {"trigger", "dim"}
    BY <1>1, <1>6, <2>1, <2>2
  <2> QED
    BY <1>5, <1>10, <2>3
<1> QED
  BY <1>7, <1>8, <1>9, <1>10

\* The types of the button's and the dimmer's variables, step by step.
LEMMA Next_TypeOK == TypeOK /\ BindingInv /\ [Next]_vars => TypeOK'
<1> SUFFICES ASSUME TypeOK, BindingInv, [Next]_vars PROVE TypeOK'
  OBVIOUS
<1> USE DimmerAssumption DEF TypeOK
<1>1. BindingTypeOK'
  BY Next_BindingInv DEF BindingInv
<1>2. tasks \in Seq(Tasks) /\ overrun \in BOOLEAN
  OBVIOUS
<1>3. CASE Press
  <2>1. overrun' \in BOOLEAN
    BY <1>2, <1>3 DEF Press
  <2> QED
    BY <1>1, <1>3, <2>1 DEF Press
<1>4. CASE Release
  <2>1. tasks' \in Seq(Tasks)
    BY <1>2, <1>4 DEF Release, Tasks
  <2> QED
    BY <1>1, <1>4, <2>1 DEF Release, timers
<1>5. CASE MainStep
  <2>1. tasks' \in Seq(Tasks)
    BY <1>2, <1>5 DEF MainStep, DimmerTriggerEventHandler, DimmingStarts,
                      DimmerChangeBrightness, Execute
  <2>2. CASE DimmerTriggerEventHandler
    <3>1. /\ pressTimer' = Stopped /\ dimmerTimer' = Stopped /\ sWasDimmerTriggered' = FALSE
          /\ UNCHANGED <<pressed, held, sBrightness>>
      BY <2>2 DEF DimmerTriggerEventHandler, button
    <3>2. overrun' \in BOOLEAN /\ sWasDimmerTriggered' \in BOOLEAN
      BY <1>2, <2>2, <3>1 DEF DimmerTriggerEventHandler, Tidied
    <3> QED
      BY <1>1, <2>1, <3>1, <3>2
  <2>3. CASE DimmingStarts
    BY <1>1, <2>1, <2>3 DEF DimmingStarts, button, Stopped
  <2>4. CASE DimmerChangeBrightness
    BY <1>1, <2>1, <2>4 DEF DimmerChangeBrightness, Brighter, button, timers
  <2> QED
    BY <1>5, <2>2, <2>3, <2>4 DEF MainStep
<1>6. CASE Tick
  <2>1. tasks' \in Seq(Tasks)
    BY <1>6, TickTasks
  <2>2. held' \in 0..(TriggerTimeout + 1)
    BY <1>6 DEF Tick
  <2>3. pressTimer' \in 1..TriggerTimeout \cup {Stopped}
    BY <1>6 DEF Tick, Down, Stopped
  <2>4. dimmerTimer' \in 1..Interval \cup {Stopped}
    BY <1>6 DEF Tick, Down, Stopped
  <2>5. overrun' \in BOOLEAN
    BY <1>2, <1>6 DEF Tick
  <2>6. UNCHANGED <<pressed, sWasDimmerTriggered, sBrightness>>
    BY <1>6 DEF Tick
  <2> QED
    BY <1>1, <2>1, <2>2, <2>3, <2>4, <2>5, <2>6
<1>7. CASE UNCHANGED dimmer
  BY <1>1, <1>7 DEF dimmer, button, timers
<1> QED
  BY <1>3, <1>4, <1>5, <1>6, <1>7 DEF Next, Other, vars

\* The light switch keeps its types, however late the main thread is and however
\* many tasks wait for it; the brightness fits what it is sent as.
THEOREM Spec_TypeOK == Spec => []TypeOK
<1>1. Init => TypeOK /\ BindingInv
  <2> SUFFICES ASSUME Init PROVE TypeOK /\ BindingInv
    OBVIOUS
  <2>1. BindingInv
    BY Init_BindingInv DEF Init
  <2>2. tasks \in Seq(Tasks)
    BY DEF Init
  <2>3. held = 0 /\ sBrightness = 0 /\ pressTimer = Stopped /\ dimmerTimer = Stopped
    BY DEF Init
  <2>4. {sWasDimmerTriggered, pressed, overrun} \subseteq BOOLEAN
    BY DEF Init
  <2>5. 0 \in 0..(TriggerTimeout + 1) /\ 0 \in 0..MaxBrightness
    BY DimmerAssumption
  <2> QED
    BY <2>1, <2>2, <2>3, <2>4, <2>5 DEF TypeOK, BindingInv
<1>2. TypeOK /\ BindingInv /\ [Next]_vars => (TypeOK /\ BindingInv)'
  BY Next_TypeOK, Next_BindingInv
<1> QED
  BY <1>1, <1>2, PTL DEF Spec

-----------------------------------------------------------------------------
(* What a press does.                                                      *)

\* The release of a press is the last of the tasks, and the button up.
ReleaseLast ==
  \A i \in DOMAIN tasks : tasks[i] = "release" => i = Len(tasks) /\ ~pressed

\* A press, until its release is handled: its timer runs, in step with the time
\* it has lasted, or has expired with the task to come, or the dimming is on.
PressInv ==
  pressed \/ Waiting("release") =>
    \/ /\ ~sWasDimmerTriggered /\ ~Waiting("trigger")
       /\ pressTimer # Stopped
       /\ held <= TriggerTimeout - pressTimer
       /\ pressed => held = TriggerTimeout - pressTimer
    \/ /\ ~sWasDimmerTriggered /\ Waiting("trigger")
       /\ held >= TriggerTimeout
    \/ /\ sWasDimmerTriggered
       /\ held >= TriggerTimeout

\* The dimming timer and its task are there in a long press only.
DimInv == dimmerTimer # Stopped \/ Waiting("dim") => sWasDimmerTriggered

\* All this as long as the task of a release is not overrun, and again once a
\* release has left things tidy.
TidyInv == /\ NothingLeftBehind
           /\ ~overrun => ReleaseLast /\ PressInv /\ DimInv

\* A task that is executed leaves the others where they were, one place on.
LEMMA ExecuteTasks ==
  ASSUME tasks \in Seq(Tasks), ReleaseLast, UNCHANGED pressed, NEW task, Execute(task)
  PROVE  /\ ReleaseLast'
         /\ Waiting(task)
         /\ \A t : Waiting(t)' => Waiting(t)
         /\ \A t : t # task /\ Waiting(t) => Waiting(t)'
         /\ task = "release" => ~pressed /\ tasks' = <<>>
<1>1. /\ tasks # <<>> /\ Head(tasks) = task /\ tasks' = Tail(tasks)
      /\ Len(tasks) \in Nat \ {0}
  BY DEF Execute
<1>2. /\ DOMAIN tasks = 1..Len(tasks) /\ DOMAIN tasks' = 1..(Len(tasks) - 1)
      /\ Len(tasks') = Len(tasks) - 1
      /\ \A i \in DOMAIN tasks' : i + 1 \in DOMAIN tasks /\ tasks'[i] = tasks[i + 1]
      /\ tasks[1] = task
  BY <1>1
<1>3. \A i \in DOMAIN tasks : i # 1 => i - 1 \in DOMAIN tasks' /\ tasks'[i - 1] = tasks[i]
  BY <1>2
<1>4. ReleaseLast'
  <2>1. ASSUME NEW i \in DOMAIN tasks', tasks'[i] = "release"
        PROVE  i = Len(tasks') /\ ~pressed'
    <3>1. i + 1 = Len(tasks) /\ ~pressed
      BY <1>2, <2>1 DEF ReleaseLast
    <3> QED
      BY <1>1, <1>2, <2>1, <3>1
  <2> QED
    BY <2>1 DEF ReleaseLast
<1>5. Waiting(task)
  BY <1>1, <1>2 DEF Waiting
<1>6. \A t : Waiting(t)' => Waiting(t)
  BY <1>2 DEF Waiting
<1>7. \A t : t # task /\ Waiting(t) => Waiting(t)'
  BY <1>2, <1>3 DEF Waiting
<1>8. ASSUME task = "release" PROVE ~pressed /\ tasks' = <<>>
  <2>1. 1 = Len(tasks) /\ ~pressed
    BY <1>1, <1>2, <1>8 DEF ReleaseLast
  <2> QED
    BY <1>1, <2>1
<1> QED
  BY <1>4, <1>5, <1>6, <1>7, <1>8

\* Nothing is left of a press once a release finds no task behind it and the
\* button up.
LEMMA Tidy_TidyInv ==
  ASSUME tasks' = <<>>, ~pressed', pressTimer' = Stopped, dimmerTimer' = Stopped,
         sWasDimmerTriggered' = FALSE
  PROVE  TidyInv'
<1>1. \A t : ~Waiting(t)'
  BY DEF Waiting
<1> QED
  BY <1>1 DEF TidyInv, NothingLeftBehind, ReleaseLast, PressInv, DimInv

LEMMA Press_TidyInv ==
  ASSUME TypeOK, TidyInv, ~overrun, Press, ~overrun'
  PROVE  TidyInv'
<1>1. ~pressed /\ pressed' /\ ~Waiting("release")
  BY DEF Press
<1>2. /\ dimmerTimer = Stopped /\ ~sWasDimmerTriggered
      /\ ~Waiting("trigger") /\ ~Waiting("dim")
  BY <1>1 DEF TidyInv, NothingLeftBehind
<1>3. /\ UNCHANGED <<dimmerTimer, sWasDimmerTriggered, tasks>>
      /\ pressTimer' = TriggerTimeout /\ held' = 0
  BY DEF Press
<1>4. \A t : Waiting(t)' = Waiting(t)
  BY <1>3 DEF Waiting
<1>5. ReleaseLast'
  BY <1>1, <1>3 DEF ReleaseLast, Waiting
<1>6. PressInv'
  BY <1>1, <1>2, <1>3, <1>4, DimmerAssumption DEF PressInv, Stopped
<1> QED
  BY <1>1, <1>2, <1>3, <1>4, <1>5, <1>6 DEF TidyInv, NothingLeftBehind, DimInv

LEMMA Release_TidyInv ==
  ASSUME TypeOK, TidyInv, ~overrun, Release
  PROVE  TidyInv'
<1>1. /\ pressed /\ ~pressed' /\ tasks' = Append(tasks, "release")
      /\ UNCHANGED <<held, pressTimer, dimmerTimer, sWasDimmerTriggered>>
  BY DEF Release, timers
<1>2. tasks \in Seq(Tasks) /\ Len(tasks) \in Nat
  BY DEF TypeOK
<1>3. /\ DOMAIN tasks' = 1..(Len(tasks) + 1) /\ Len(tasks') = Len(tasks) + 1
      /\ \A i \in DOMAIN tasks : i \in DOMAIN tasks' /\ tasks'[i] = tasks[i]
      /\ DOMAIN tasks = 1..Len(tasks)
      /\ tasks'[Len(tasks) + 1] = "release"
  BY <1>1, <1>2
<1>4. ReleaseLast'
  <2>1. ASSUME NEW i \in DOMAIN tasks', tasks'[i] = "release" PROVE i = Len(tasks')
    BY <1>1, <1>2, <1>3, <2>1 DEF TidyInv, ReleaseLast
  <2> QED
    BY <1>1, <2>1 DEF ReleaseLast
<1>5. /\ Waiting("release")' /\ (Waiting("trigger")' <=> Waiting("trigger"))
      /\ Waiting("dim")' <=> Waiting("dim")
  BY <1>2, <1>3 DEF Waiting
<1>6. PressInv'
  <2>1. held \in Int /\ TriggerTimeout - pressTimer \in Int
    BY DimmerAssumption DEF TypeOK, Stopped
  <2> QED
    BY <1>1, <1>5, <2>1 DEF TidyInv, PressInv
<1> QED
  BY <1>1, <1>4, <1>5, <1>6 DEF TidyInv, NothingLeftBehind, DimInv

LEMMA Main_TidyInv ==
  ASSUME TypeOK, TidyInv, ~overrun, MainStep
  PROVE  TidyInv'
<1> USE DEF TidyInv
<1>1. tasks \in Seq(Tasks)
  BY DEF TypeOK
<1>2. CASE DimmerTriggerEventHandler
  <2>1. /\ Execute("release") /\ UNCHANGED pressed /\ pressTimer' = Stopped
        /\ dimmerTimer' = Stopped /\ sWasDimmerTriggered' = FALSE
    BY <1>2 DEF DimmerTriggerEventHandler, button
  <2>2. ~pressed' /\ tasks' = <<>>
    BY <1>1, <2>1, ExecuteTasks
  <2> QED
    BY <2>1, <2>2, Tidy_TidyInv
<1>3. CASE DimmingStarts
  <2>1. /\ Execute("trigger") /\ UNCHANGED <<pressed, held>> /\ sWasDimmerTriggered' = TRUE
    BY <1>3 DEF DimmingStarts, button
  <2>2. /\ ReleaseLast' /\ Waiting("trigger")
        /\ Waiting("release")' <=> Waiting("release")
    BY <1>1, <2>1, ExecuteTasks
  <2>3. pressed \/ Waiting("release")
    BY <2>2 DEF NothingLeftBehind
  <2>4. held >= TriggerTimeout
    BY <2>2, <2>3 DEF PressInv
  <2> QED
    BY <2>1, <2>2, <2>3, <2>4 DEF NothingLeftBehind, PressInv, DimInv
<1>4. CASE DimmerChangeBrightness
  <2>1. /\ Execute("dim")
        /\ UNCHANGED <<pressed, held, pressTimer, dimmerTimer, sWasDimmerTriggered, overrun>>
    BY <1>4 DEF DimmerChangeBrightness, button, timers
  <2>2. /\ ReleaseLast'
        /\ Waiting("release")' <=> Waiting("release")
        /\ Waiting("trigger")' <=> Waiting("trigger")
        /\ Waiting("dim")' => Waiting("dim")
        /\ Waiting("dim")
    BY <1>1, <2>1, ExecuteTasks
  <2>3. sWasDimmerTriggered'
    BY <2>1, <2>2 DEF DimInv
  <2>4. pressed \/ Waiting("release")
    BY <2>2 DEF NothingLeftBehind
  <2>5. PressInv'
    BY <2>1, <2>2 DEF PressInv
  <2> QED
    BY <2>1, <2>2, <2>3, <2>4, <2>5 DEF NothingLeftBehind, DimInv
<1> QED
  BY <1>2, <1>3, <1>4 DEF MainStep

LEMMA Tick_TidyInv ==
  ASSUME TypeOK, TidyInv, ~overrun, Tick, ~overrun'
  PROVE  TidyInv'
<1> USE DimmerAssumption DEF TidyInv
<1>1. /\ UNCHANGED <<pressed, sWasDimmerTriggered>>
      /\ held' = IF pressed /\ held <= TriggerTimeout THEN held + 1 ELSE held
      /\ pressTimer' = Down(pressTimer)
      /\ dimmerTimer' = IF dimmerTimer = 1 THEN Interval ELSE Down(dimmerTimer)
      /\ Waiting("release") => pressTimer # 1 /\ dimmerTimer # 1
  BY DEF Tick
<1>2. /\ Waiting("trigger")' <=> Waiting("trigger") \/ pressTimer = 1
      /\ Waiting("dim")' <=> Waiting("dim") \/ dimmerTimer = 1
      /\ Waiting("release")' <=> Waiting("release")
      /\ Waiting("release") => tasks' = tasks
  BY <1>1, TickTasks
<1>3. ReleaseLast'
  <2>1. CASE Waiting("release")
    BY <1>1, <1>2, <2>1 DEF ReleaseLast
  <2>2. CASE ~Waiting("release")
    BY <1>2, <2>2 DEF ReleaseLast, Waiting
  <2> QED
    BY <2>1, <2>2
<1>4. NothingLeftBehind'
  <2> SUFFICES ASSUME ~pressed', ~Waiting("release")'
               PROVE  /\ pressTimer' = Stopped /\ dimmerTimer' = Stopped
                      /\ ~sWasDimmerTriggered' /\ ~Waiting("trigger")' /\ ~Waiting("dim")'
    BY DEF NothingLeftBehind
  <2>1. /\ pressTimer = Stopped /\ dimmerTimer = Stopped /\ ~sWasDimmerTriggered
        /\ ~Waiting("trigger") /\ ~Waiting("dim")
    BY <1>1, <1>2 DEF NothingLeftBehind
  <2> QED
    BY <1>1, <1>2, <2>1 DEF Down, Stopped
<1>5. PressInv'
  <2> SUFFICES ASSUME pressed \/ Waiting("release") PROVE PressInv'
    BY <1>1, <1>2 DEF PressInv
  <2>1. held \in Int /\ TriggerTimeout \in Int /\ held' >= held /\ held' \in Int
    BY <1>1 DEF TypeOK
  <2>2. CASE held >= TriggerTimeout /\ (sWasDimmerTriggered \/ Waiting("trigger"))
    <3>1. held' >= TriggerTimeout
      BY <2>1, <2>2
    <3> QED
      BY <1>1, <1>2, <2>2, <3>1 DEF PressInv
  <2>3. CASE /\ ~sWasDimmerTriggered /\ ~Waiting("trigger")
             /\ pressTimer # Stopped
             /\ held <= TriggerTimeout - pressTimer
             /\ pressed => held = TriggerTimeout - pressTimer
    <3>1. pressTimer \in 1..TriggerTimeout
      BY <2>3 DEF TypeOK
    <3>2. held' = IF pressed THEN held + 1 ELSE held
      BY <1>1, <2>1, <2>3, <3>1
    <3>3. CASE pressTimer = 1
      <4>1. pressed /\ Waiting("trigger")'
        BY <1>1, <1>2, <3>3
      <4>2. held' = TriggerTimeout
        BY <2>1, <2>3, <3>2, <3>3, <4>1
      <4> QED
        BY <1>1, <2>3, <4>1, <4>2 DEF PressInv
    <3>4. CASE pressTimer # 1
      <4>1. pressTimer' = pressTimer - 1 /\ pressTimer' # Stopped
        BY <1>1, <3>1, <3>4 DEF Down, Stopped
      <4>2. ~Waiting("trigger")' /\ ~sWasDimmerTriggered'
        BY <1>1, <1>2, <2>3, <3>4
      <4>3. /\ held' <= TriggerTimeout - pressTimer'
            /\ pressed' => held' = TriggerTimeout - pressTimer'
        BY <1>1, <2>1, <2>3, <3>1, <3>2, <4>1
      <4> QED
        BY <4>1, <4>2, <4>3 DEF PressInv
    <3> QED
      BY <3>3, <3>4
  <2> QED
    BY <2>2, <2>3 DEF PressInv
<1>6. DimInv'
  <2>1. CASE dimmerTimer = Stopped
    BY <1>1, <1>2, <2>1 DEF DimInv, Down, Stopped
  <2>2. CASE dimmerTimer # Stopped
    BY <1>1, <2>2 DEF DimInv
  <2> QED
    BY <2>1, <2>2
<1> QED
  BY <1>3, <1>4, <1>5, <1>6

LEMMA Next_TidyInv == TypeOK /\ TidyInv /\ [Next]_vars => TidyInv'
<1> SUFFICES ASSUME TypeOK, TidyInv, [Next]_vars, ~overrun' PROVE TidyInv'
  BY DEF TidyInv, NothingLeftBehind
<1>1. CASE overrun
  <2>1. DimmerTriggerEventHandler
    BY <1>1 DEF Next, Press, Release, MainStep, DimmingStarts, DimmerChangeBrightness, Tick,
                Other, vars, dimmer
  <2>2. ~pressed' /\ tasks' = <<>>
    BY <1>1, <2>1 DEF DimmerTriggerEventHandler, Tidied, button
  <2> QED
    BY <2>1, <2>2, Tidy_TidyInv DEF DimmerTriggerEventHandler
<1>2. CASE ~overrun /\ UNCHANGED dimmer
  BY <1>2 DEF dimmer, button, timers, TidyInv, ReleaseLast, NothingLeftBehind, PressInv,
              DimInv, Waiting
<1> QED
  BY <1>1, <1>2, Press_TidyInv, Release_TidyInv, Main_TidyInv, Tick_TidyInv
     DEF Next, Other, vars

LEMMA Init_TidyInv == Init => TidyInv
BY DEF Init, TidyInv, ReleaseLast, NothingLeftBehind, PressInv, DimInv, Waiting

LEMMA Spec_TidyInv == Spec => [](TypeOK /\ TidyInv)
<1>1. TypeOK /\ TidyInv /\ [Next]_vars => TidyInv'
  BY Next_TidyInv
<1> QED
  BY <1>1, Init_TidyInv, Spec_TypeOK, PTL DEF Spec

\* Nothing of a press is left once its release has been handled, no timer, no
\* task of one and not the flag, however late the main thread is and however
\* many tasks wait for it: only what happens while the task of the release
\* itself waits, the expiry of a timer or another press, can leave something,
\* and a later release that finds the button up and no task behind it mends it.
THEOREM Spec_NothingLeftBehind == Spec => []NothingLeftBehind
<1>1. TidyInv => NothingLeftBehind
  BY DEF TidyInv
<1> QED
  BY <1>1, Spec_TidyInv, PTL

\* A release that was not overrun takes a press for what it was, even if the task
\* of the timer is handled long after the timer has expired.
THEOREM Spec_PressSorted == Spec => PressSorted
<1> DEFINE Sorted == DimmerTriggerEventHandler /\ ~overrun =>
                       /\ held > TriggerTimeout => sWasDimmerTriggered
                       /\ held < TriggerTimeout => ~sWasDimmerTriggered
<1>1. TypeOK /\ TidyInv => Sorted
  <2> SUFFICES ASSUME TypeOK, TidyInv, DimmerTriggerEventHandler, ~overrun
               PROVE  /\ held > TriggerTimeout => sWasDimmerTriggered
                      /\ held < TriggerTimeout => ~sWasDimmerTriggered
    OBVIOUS
  <2>1. Execute("release") /\ UNCHANGED pressed
    BY DEF DimmerTriggerEventHandler, button
  <2>2. /\ Waiting("release") /\ tasks' = <<>>
        /\ Waiting("trigger") => Waiting("trigger")'
    BY <2>1, ExecuteTasks DEF TidyInv, TypeOK
  <2>3. ~Waiting("trigger")
    BY <2>2 DEF Waiting
  <2>4. /\ held \in Int /\ TriggerTimeout \in Int
        /\ pressTimer # Stopped => pressTimer \in 1..TriggerTimeout
    BY DimmerAssumption DEF TypeOK
  <2> QED
    BY <2>2, <2>3, <2>4 DEF TidyInv, PressInv
<1>2. Spec => [][Sorted]_vars
  <2> HIDE DEF Sorted
  <2> QED
    BY <1>1, Spec_TidyInv, PTL DEF Spec
<1> QED
  BY <1>2 DEF PressSorted

\* It dims in a long press only, and not after its release has been handled,
\* unless that was overrun.
THEOREM Spec_DimsWhilePressed == Spec => DimsWhilePressed
<1> DEFINE Dims == sBrightness' # sBrightness /\ ~overrun =>
                     /\ sWasDimmerTriggered
                     /\ held >= TriggerTimeout
                     /\ pressed \/ Waiting("release")
<1>1. TypeOK /\ TidyInv /\ [Next]_vars => Dims
  <2> SUFFICES ASSUME TypeOK, TidyInv, [Next]_vars, sBrightness' # sBrightness, ~overrun
               PROVE  /\ sWasDimmerTriggered
                      /\ held >= TriggerTimeout
                      /\ pressed \/ Waiting("release")
    OBVIOUS
  <2>1. Execute("dim") /\ UNCHANGED pressed
    BY DEF Next, Press, Release, MainStep, DimmerTriggerEventHandler, DimmingStarts,
           DimmerChangeBrightness, Tick, Other, vars, dimmer, button
  <2>2. Waiting("dim")
    BY <2>1, ExecuteTasks DEF TidyInv, TypeOK
  <2> QED
    BY <2>2 DEF TidyInv, NothingLeftBehind, PressInv, DimInv
<1>2. Spec => [][Dims]_vars
  <2> HIDE DEF Dims
  <2> QED
    BY <1>1, Spec_TidyInv, PTL DEF Spec
<1> QED
  BY <1>2 DEF DimsWhilePressed
=============================================================================
