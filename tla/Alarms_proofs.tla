--------------------------- MODULE Alarms_proofs ---------------------------
(***************************************************************************)
(* Proofs about Alarms, for any house and any number of changes.           *)
(***************************************************************************)
EXTENDS Alarms, TLAPS

-----------------------------------------------------------------------------
(***************************************************************************)
(* The inductive invariant: the types, and that a process which is in its  *)
(* loop over the lamps, or posts an alarm from it, has the lock.           *)
(***************************************************************************)
Alarmer == {"ALARM", "OCCUPANCY"}
Inside == {"loop", "compare", "find", "merge", "send"}

LockOK == \A t \in Alarmer : thread[t].pc \in Inside => nodesLock = t

Inv == TypeOK /\ LockOK

AlarmValue == {"NONE"} \cup {Colour[c] : c \in DOMAIN Colour}

\* What a process holds at each of its steps.
LEMMA ThreadKinds ==
  ASSUME TypeOK, NEW t \in Thread
  PROVE  /\ thread[t] \in ThreadState
         /\ thread[t].pc = "lock" => thread[t].code \in Codes
         /\ thread[t].pc \in {"sense", "code", "enter"} =>
              thread[t].lamp \in Lamps /\ thread[t].there \in BOOLEAN
         /\ thread[t].pc = "enter" => thread[t].code \in Codes
         /\ thread[t].pc \in Inside => thread[t].loop \in Loop
         /\ thread[t].pc = "compare" => thread[t].lamp \in Lamps
         /\ thread[t].pc = "tell" =>
              thread[t].lamp \in Lamps /\ thread[t].copy \in Row
         /\ thread[t].pc \in {"find", "merge", "send"} =>
              thread[t].post \in APost
         /\ thread[t].pc \in {"merge", "send"} => thread[t].copy \in Row
<1>1. thread[t] \in ThreadState
  BY DEF TypeOK
<1> QED
  BY <1>1 DEF ThreadState, Inside

\* A post changes a row into a row.
LEMMA ChangedRow ==
  ASSUME NEW row \in Row, NEW post \in APost
  PROVE  Changed(row, post) \in Row
<1>1. CASE post.field = "alarm"
  <2>1. post.value \in AlarmValue
    BY <1>1 DEF APost, AlarmValue
  <2> QED
    BY <1>1, <2>1 DEF Changed, Row, AlarmValue
<1>2. CASE post.field = "white"
  <2>1. post.value \in 0 .. 100
    BY <1>2 DEF APost
  <2> QED
    BY <1>2, <2>1 DEF Changed, Row
<1>3. CASE post.field = "touch"
  BY <1>3 DEF Changed
<1> QED
  BY <1>1, <1>2, <1>3 DEF APost

\* What a process does after a node of its loop.
LEMMA LoopingState ==
  ASSUME NEW loop \in Loop
  PROVE  Looping(loop) \in ThreadState /\ Looping(loop).pc \in {"idle", "loop"}
BY DEF Looping, Idle, ThreadState

\* The alarm to issue is one that a row may have.
LEMMA AlarmType ==
  ASSUME NEW code, NEW there
  PROVE  Alarm(code, there) \in AlarmValue
BY DEF Alarm, AlarmValue

\* What a process does after the GET of a lamp.
LEMMA ComparedState ==
  ASSUME NEW loop \in Loop, NEW n \in Lamps
  PROVE  /\ Compared(loop, n) \in ThreadState
         /\ Compared(loop, n).pc \in {"idle", "loop", "find"}
<1> DEFINE rest == [loop EXCEPT !.left = @ \ {n}]
           post == [lamp |-> n, field |-> "alarm",
                    value |-> Alarm(loop.code, loop.there)]
<1>1. rest \in Loop
  BY DEF Loop
<1>2. post \in APost
  BY AlarmType DEF APost, AlarmValue
<1>3. [pc |-> "find", loop |-> rest, post |-> post] \in ThreadState
  BY <1>1, <1>2 DEF ThreadState
<1>4. Looping(rest) \in ThreadState /\ Looping(rest).pc \in {"idle", "loop"}
  BY <1>1, LoopingState
<1> HIDE DEF rest, post
<1>5. Compared(loop, n) \in {[pc |-> "find", loop |-> rest, post |-> post],
                             Looping(rest)}
  BY DEF Compared, rest, post
<1> QED
  BY <1>3, <1>4, <1>5

\* The step of a process that neither takes nor leaves the lock.
LEMMA ThreadStep ==
  ASSUME TypeOK, NEW t \in Thread, NEW s \in ThreadState,
         thread' = [thread EXCEPT ![t] = s]
  PROVE  /\ thread' \in [Thread -> ThreadState]
         /\ thread'[t] = s
         /\ \A u \in Thread : u # t => thread'[u] = thread[u]
BY DEF TypeOK

\* The lock after a step that leaves it, or keeps out of the loop.
LEMMA LeaveLock ==
  ASSUME Inv, NEW t \in Thread, NEW s \in ThreadState,
         thread' = [thread EXCEPT ![t] = s],
         \/ t \in Alarmer /\ s.pc \in Inside => thread[t].pc \in Inside,
         Leave(t) \/ UNCHANGED nodesLock
  PROVE  LockOK' /\ nodesLock' \in {"free", "ALARM", "OCCUPANCY"}
<1>1. /\ thread'[t] = s
      /\ \A u \in Thread : u # t => thread'[u] = thread[u]
  BY ThreadStep DEF Inv
<1>2. nodesLock' \in {"free", nodesLock}
  BY DEF Leave
<1>3. nodesLock' # nodesLock => nodesLock = t /\ s.pc = "idle"
  BY <1>1 DEF Leave
<1>4. ASSUME NEW u \in Alarmer, thread'[u].pc \in Inside
      PROVE  nodesLock' = u
  <2>1. thread[u].pc \in Inside
    BY <1>1, <1>4 DEF Alarmer, Thread
  <2>2. nodesLock = u
    BY <1>4, <2>1 DEF Inv, LockOK
  <2>3. ~(nodesLock = t /\ s.pc = "idle")
    BY <1>1, <1>4, <2>2 DEF Inside
  <2> QED
    BY <1>3, <2>2, <2>3
<1> QED
  BY <1>2, <1>4 DEF Inv, TypeOK, LockOK

-----------------------------------------------------------------------------
\* The invariant holds at first.
LEMMA InitInv == Init => Inv
<1> SUFFICES ASSUME Init PROVE Inv
  OBVIOUS
<1> USE AtAssumption, CodeAssumption, LightAssumption
<1>1. rows \in [Lamps -> Row] /\ shown \in [Lamps -> Row]
  BY DEF Init, Row
<1>2. thread \in [Thread -> ThreadState]
  BY DEF Init, Idle, ThreadState
<1>3. TypeOK
  BY <1>1, <1>2 DEF Init, TypeOK
<1>4. LockOK
  BY DEF Init, LockOK, Alarmer, Thread, Idle, Inside
<1> QED
  BY <1>3, <1>4 DEF Inv

\* A step of a POST keeps the invariant.
LEMMA PostInv ==
  ASSUME Inv, NEW t \in Thread, Post(t)
  PROVE  Inv'
<1> USE DEF Inv
<1>1. CASE Find(t)
  <2> DEFINE copy == Changed(rows[thread[t].post.lamp], thread[t].post)
             s == [pc |-> "merge", post |-> thread[t].post,
                   loop |-> thread[t].loop, copy |-> copy]
  <2>1. thread[t].post \in APost /\ thread[t].loop \in Loop
    BY <1>1, ThreadKinds DEF Find, Inside
  <2>2. rows[thread[t].post.lamp] \in Row
    BY <2>1 DEF APost, TypeOK
  <2>3. copy \in Row
    BY <2>1, <2>2, ChangedRow
  <2>4. s \in ThreadState /\ s.pc = "merge"
    BY <2>1, <2>3 DEF ThreadState
  <2>5. thread' = [thread EXCEPT ![t] = s] /\ thread[t].pc = "find"
    BY <1>1 DEF Find
  <2> HIDE DEF s
  <2>6. LockOK'
    BY <1>1, <2>4, <2>5, LeaveLock DEF Find, Inside
  <2> QED
    BY <1>1, <2>4, <2>5, <2>6, ThreadStep DEF Find, TypeOK, devices, tables
<1>2. CASE Merge(t)
  <2> DEFINE s == IF thread[t].post.field = "touch" THEN Idle
                  ELSE [thread[t] EXCEPT !.pc = "send"]
  <2>1. /\ thread[t].post \in APost /\ thread[t].copy \in Row
        /\ thread[t] \in ThreadState /\ thread[t].pc = "merge"
    BY <1>2, ThreadKinds DEF Merge
  <2>2. thread[t].post.lamp \in Lamps
    BY <2>1 DEF APost
  <2>3. s \in ThreadState /\ s.pc \in {"idle", "send"}
    BY <2>1 DEF ThreadState, Idle
  <2>4. thread' = [thread EXCEPT ![t] = s]
    BY <1>2 DEF Merge
  <2> HIDE DEF s
  <2>5. rows' \in [Lamps -> Row]
    BY <1>2, <2>1, <2>2 DEF Merge, TypeOK
  <2>6. LockOK'
    BY <1>2, <2>1, <2>3, <2>4, LeaveLock DEF Merge, Inside
  <2> QED
    BY <1>2, <2>3, <2>4, <2>5, <2>6, ThreadStep
    DEF Merge, TypeOK, devices, tables
<1>3. CASE Send(t)
  <2> DEFINE s == Looping(thread[t].loop)
  <2>1. /\ thread[t].post \in APost /\ thread[t].copy \in Row
        /\ thread[t].loop \in Loop /\ thread[t].pc = "send"
    BY <1>3, ThreadKinds DEF Send, Inside
  <2>2. thread[t].post.lamp \in Lamps
    BY <2>1 DEF APost
  <2>3. s \in ThreadState /\ s.pc \in {"idle", "loop"}
    BY <2>1, LoopingState
  <2>4. thread' = [thread EXCEPT ![t] = s]
    BY <1>3 DEF Send
  <2> HIDE DEF s
  <2>5. shown' \in [Lamps -> Row]
    BY <1>3, <2>1, <2>2 DEF Send, TypeOK
  <2>6. LockOK' /\ nodesLock' \in {"free", "ALARM", "OCCUPANCY"}
    BY <1>3, <2>1, <2>3, <2>4, LeaveLock DEF Send, Inside
  <2> QED
    BY <1>3, <2>3, <2>4, <2>5, <2>6, ThreadStep
    DEF Send, TypeOK, devices, tables
<1> QED
  BY <1>1, <1>2, <1>3 DEF Post

\* A step of AlarmStateAcknowledgmentProcess keeps the invariant.
LEMMA AcknowledgeInv ==
  ASSUME Inv, Acknowledge
  PROVE  Inv'
<1> USE DEF Inv
<1> DEFINE me == thread["ALARM"]
<1>0. "ALARM" \in Thread /\ "ALARM" \in Alarmer
  BY DEF Thread, Alarmer
<1>1. CASE AlarmReceive
  <2> DEFINE s == [pc |-> "lock", code |-> fridge]
  <2>1. s \in ThreadState /\ s.pc \notin Inside
    BY DEF TypeOK, ThreadState, Inside
  <2>2. thread' = [thread EXCEPT !["ALARM"] = s]
    BY <1>1 DEF AlarmReceive
  <2> HIDE DEF s
  <2>3. LockOK'
    BY <1>0, <1>1, <2>1, <2>2, LeaveLock DEF AlarmReceive
  <2> QED
    BY <1>0, <1>1, <2>1, <2>2, <2>3, ThreadStep
    DEF AlarmReceive, TypeOK, devices
<1>2. CASE AlarmLock
  <2> DEFINE s == [pc |-> "loop", loop |-> [code |-> me.code, there |-> FALSE,
                                            left |-> Lamps]]
  <2>1. me.code \in Codes
    BY <1>0, <1>2, ThreadKinds DEF AlarmLock
  <2>2. s \in ThreadState
    BY <2>1, CodeAssumption DEF ThreadState, Loop, Nodes
  <2>3. thread' = [thread EXCEPT !["ALARM"] = s]
    BY <1>2 DEF AlarmLock
  <2> HIDE DEF s
  <2>4. \A u \in Alarmer : thread'[u].pc \in Inside => u = "ALARM"
    BY <1>0, <1>2, <2>2, <2>3, ThreadStep
    DEF AlarmLock, LockOK, Alarmer, Thread, TypeOK
  <2> QED
    BY <1>0, <1>2, <2>2, <2>3, <2>4, ThreadStep
    DEF AlarmLock, TypeOK, LockOK, devices, tables
<1>3. ASSUME NEW n \in Lamps, AlarmLook(n)
      PROVE  Inv'
  <2> DEFINE s == [pc |-> "compare", lamp |-> n,
                   loop |-> [me.loop EXCEPT !.there = presence[n]]]
  <2>1. me.loop \in Loop /\ me.pc \in Inside
    BY <1>0, <1>3, ThreadKinds DEF AlarmLook, Inside
  <2>2. [me.loop EXCEPT !.there = presence[n]] \in Loop
    BY <2>1 DEF Loop, TypeOK
  <2>3. s \in ThreadState
    BY <2>2 DEF ThreadState
  <2>4. thread' = [thread EXCEPT !["ALARM"] = s]
    BY <1>3 DEF AlarmLook
  <2> HIDE DEF s
  <2>5. LockOK'
    BY <1>0, <1>3, <2>1, <2>3, <2>4, LeaveLock DEF AlarmLook
  <2> QED
    BY <1>0, <1>3, <2>3, <2>4, <2>5, ThreadStep
    DEF AlarmLook, TypeOK, devices, tables
<1>4. CASE AlarmCompare
  <2> DEFINE s == Compared(me.loop, me.lamp)
  <2>1. me.loop \in Loop /\ me.lamp \in Lamps /\ me.pc \in Inside
    BY <1>0, <1>4, ThreadKinds DEF AlarmCompare, Inside
  <2>2. s \in ThreadState
    BY <2>1, ComparedState
  <2>3. thread' = [thread EXCEPT !["ALARM"] = s]
    BY <1>4 DEF AlarmCompare
  <2> HIDE DEF s
  <2>4. LockOK' /\ nodesLock' \in {"free", "ALARM", "OCCUPANCY"}
    BY <1>0, <1>4, <2>1, <2>2, <2>3, LeaveLock DEF AlarmCompare
  <2> QED
    BY <1>0, <1>4, <2>2, <2>3, <2>4, ThreadStep
    DEF AlarmCompare, TypeOK, devices, tables
<1> QED
  BY <1>0, <1>1, <1>2, <1>3, <1>4, PostInv DEF Acknowledge

\* A step of OccupancySensingRegistrationProcess keeps the invariant.
LEMMA RegisterInv ==
  ASSUME Inv, Register \/ OccupancyLock
  PROVE  Inv'
<1> USE DEF Inv
<1> DEFINE me == thread["OCCUPANCY"]
<1>0. "OCCUPANCY" \in Thread /\ "OCCUPANCY" \in Alarmer
  BY DEF Thread, Alarmer
<1>1. ASSUME NEW n \in Lamps, OccupancyReceive(n)
      PROVE  Inv'
  <2> DEFINE s == [pc |-> "sense", lamp |-> n, there |-> seen[n]]
  <2>1. s \in ThreadState /\ s.pc \notin Inside
    BY DEF TypeOK, ThreadState, Inside
  <2>2. thread' = [thread EXCEPT !["OCCUPANCY"] = s]
    BY <1>1 DEF OccupancyReceive
  <2> HIDE DEF s
  <2>3. LockOK'
    BY <1>0, <1>1, <2>1, <2>2, LeaveLock DEF OccupancyReceive
  <2>4. occupied' \in [Locations -> BOOLEAN]
    BY <1>1 DEF OccupancyReceive, TypeOK
  <2> QED
    BY <1>0, <1>1, <2>1, <2>2, <2>3, <2>4, ThreadStep
    DEF OccupancyReceive, TypeOK, devices
<1>2. CASE OccupancySense
  <2> DEFINE s == [me EXCEPT !.pc = "code"]
  <2>1. me.lamp \in Lamps /\ me.there \in BOOLEAN /\ me \in ThreadState
    BY <1>0, <1>2, ThreadKinds DEF OccupancySense
  <2>2. s \in ThreadState /\ s.pc \notin Inside
    BY <1>2, <2>1 DEF OccupancySense, ThreadState, Inside
  <2>3. thread' = [thread EXCEPT !["OCCUPANCY"] = s]
    BY <1>2 DEF OccupancySense
  <2> HIDE DEF s
  <2>4. presence' \in [Lamps -> BOOLEAN]
    BY <1>2, <2>1 DEF OccupancySense, TypeOK
  <2>5. LockOK'
    BY <1>0, <1>2, <2>2, <2>3, LeaveLock DEF OccupancySense
  <2> QED
    BY <1>0, <1>2, <2>2, <2>3, <2>4, <2>5, ThreadStep
    DEF OccupancySense, TypeOK, devices
<1>3. CASE OccupancyCode
  <2> DEFINE s == [pc |-> "enter", lamp |-> me.lamp, there |-> me.there,
                   code |-> lastCode]
  <2>1. me.lamp \in Lamps /\ me.there \in BOOLEAN
    BY <1>0, <1>3, ThreadKinds DEF OccupancyCode
  <2>2. s \in ThreadState /\ s.pc \notin Inside
    BY <2>1 DEF TypeOK, ThreadState, Inside
  <2>3. thread' = [thread EXCEPT !["OCCUPANCY"] = s]
    BY <1>3 DEF OccupancyCode
  <2> HIDE DEF s
  <2>4. LockOK'
    BY <1>0, <1>3, <2>2, <2>3, LeaveLock DEF OccupancyCode
  <2> QED
    BY <1>0, <1>3, <2>2, <2>3, <2>4, ThreadStep
    DEF OccupancyCode, TypeOK, devices, tables
<1>4. CASE OccupancyLock
  <2> DEFINE left == {n \in Nodes : At[n] = At[me.lamp]}
             s == [pc |-> "loop", loop |-> [code |-> me.code,
                                            there |-> me.there,
                                            left |-> left]]
  <2>1. me.code \in Codes /\ me.there \in BOOLEAN
    BY <1>0, <1>4, ThreadKinds DEF OccupancyLock
  <2>2. left \in SUBSET Nodes
    OBVIOUS
  <2>3. thread' = [thread EXCEPT !["OCCUPANCY"] = s]
    BY <1>4 DEF OccupancyLock
  <2> HIDE DEF left
  <2>4. s \in ThreadState
    BY <2>1, <2>2, CodeAssumption DEF ThreadState, Loop
  <2> HIDE DEF s
  <2>5. \A u \in Alarmer : thread'[u].pc \in Inside => u = "OCCUPANCY"
    BY <1>0, <1>4, <2>3, <2>4, ThreadStep
    DEF OccupancyLock, LockOK, Alarmer, Thread, TypeOK
  <2> QED
    BY <1>0, <1>4, <2>3, <2>4, <2>5, ThreadStep
    DEF OccupancyLock, TypeOK, LockOK, devices, tables
<1>5. ASSUME NEW n \in Nodes, OccupancyCompare(n)
      PROVE  Inv'
  <2> DEFINE s == IF n \in Lamps THEN Compared(me.loop, n) ELSE Idle
  <2>1. me.loop \in Loop /\ me.pc \in Inside
    BY <1>0, <1>5, ThreadKinds DEF OccupancyCompare, Inside
  <2>2. s \in ThreadState
    BY <2>1, ComparedState DEF Idle, ThreadState
  <2>3. thread' = [thread EXCEPT !["OCCUPANCY"] = s]
    BY <1>5 DEF OccupancyCompare
  <2> HIDE DEF s
  <2>4. LockOK' /\ nodesLock' \in {"free", "ALARM", "OCCUPANCY"}
    BY <1>0, <1>5, <2>1, <2>2, <2>3, LeaveLock DEF OccupancyCompare
  <2> QED
    BY <1>0, <1>5, <2>2, <2>3, <2>4, ThreadStep
    DEF OccupancyCompare, TypeOK, devices, tables
<1> QED
  BY <1>0, <1>1, <1>2, <1>3, <1>4, <1>5, PostInv DEF Register

\* A step of LightLevelControlProcess keeps the invariant.
LEMMA ControlInv ==
  ASSUME Inv, Control
  PROVE  Inv'
<1> USE DEF Inv
<1>0. "LEVEL" \in Thread /\ "LEVEL" \notin Alarmer
  BY DEF Thread, Alarmer
<1>1. ASSUME NEW n \in Lamps, NEW step \in Steps, LevelReceive(n, step)
      PROVE  Inv'
  <2> DEFINE post == [lamp |-> n, field |-> "white",
                      value |-> IF rows[n].white # 0 THEN 0 ELSE 50]
             s == [pc |-> "find", loop |-> NoLoop, post |-> post]
  <2>1. post \in APost
    BY DEF APost
  <2>2. thread' = [thread EXCEPT !["LEVEL"] = s]
    BY <1>1 DEF LevelReceive
  <2> HIDE DEF post
  <2>3. s \in ThreadState
    BY <2>1 DEF ThreadState, NoLoop, Loop, FridgeCode
  <2> HIDE DEF s
  <2>4. LockOK'
    BY <1>0, <1>1, <2>2, <2>3, LeaveLock DEF LevelReceive
  <2> QED
    BY <1>0, <1>1, <2>2, <2>3, <2>4, ThreadStep
    DEF LevelReceive, TypeOK, devices, tables
<1> QED
  BY <1>0, <1>1, PostInv DEF Control

\* A step of LampStateUpdateProcess keeps the invariant.
LEMMA UpdateInv ==
  ASSUME Inv, NEW n \in Lamps, Update(n)
  PROVE  Inv'
<1> USE DEF Inv
<1> DEFINE me == thread["UPDATE"]
<1>0. "UPDATE" \in Thread /\ "UPDATE" \notin Alarmer
  BY DEF Thread, Alarmer
<1>1. CASE UpdateGet(n)
  <2> DEFINE s == [pc |-> "tell", lamp |-> n, copy |-> rows[n]]
  <2>1. s \in ThreadState
    BY DEF TypeOK, ThreadState
  <2>2. thread' = [thread EXCEPT !["UPDATE"] = s]
    BY <1>1 DEF UpdateGet
  <2> HIDE DEF s
  <2>3. LockOK'
    BY <1>0, <1>1, <2>1, <2>2, LeaveLock DEF UpdateGet
  <2> QED
    BY <1>0, <1>1, <2>1, <2>2, <2>3, ThreadStep
    DEF UpdateGet, TypeOK, devices, tables
<1>2. CASE UpdateTell
  <2> DEFINE post == [lamp |-> me.lamp, field |-> "touch", value |-> 0]
             s == [pc |-> "find", loop |-> NoLoop, post |-> post]
  <2>1. me.lamp \in Lamps /\ me.copy \in Row
    BY <1>0, <1>2, ThreadKinds DEF UpdateTell
  <2>2. post \in APost
    BY <2>1 DEF APost
  <2>3. thread' = [thread EXCEPT !["UPDATE"] = s]
    BY <1>2 DEF UpdateTell
  <2> HIDE DEF post
  <2>4. s \in ThreadState
    BY <2>2 DEF ThreadState, NoLoop, Loop, FridgeCode
  <2> HIDE DEF s
  <2>5. LockOK'
    BY <1>0, <1>2, <2>3, <2>4, LeaveLock DEF UpdateTell
  <2>6. shown' \in [Lamps -> Row]
    BY <1>2, <2>1 DEF UpdateTell, TypeOK
  <2> QED
    BY <1>0, <1>2, <2>3, <2>4, <2>5, <2>6, ThreadStep
    DEF UpdateTell, TypeOK, devices, tables
<1> QED
  BY <1>0, <1>1, <1>2, PostInv DEF Update

\* A change of a device keeps the invariant.
LEMMA DeviceInv ==
  ASSUME Inv,
         \/ \E n \in Lamps : Move(n)
         \/ \E code \in Codes : FridgeChange(code)
  PROVE  Inv'
<1>1. CASE \E n \in Lamps : Move(n)
  BY <1>1 DEF Inv, Move, TypeOK, LockOK, tables
<1>2. CASE \E code \in Codes : FridgeChange(code)
  BY <1>2 DEF Inv, FridgeChange, TypeOK, LockOK, tables
<1> QED
  BY <1>1, <1>2

\* Every step keeps the invariant.
LEMMA NextInv == Inv /\ [Next]_vars => Inv'
<1> SUFFICES ASSUME Inv, [Next]_vars PROVE Inv'
  OBVIOUS
<1>1. CASE Next
  BY <1>1, AcknowledgeInv, RegisterInv, ControlInv, UpdateInv, DeviceInv
  DEF Next
<1>2. CASE UNCHANGED vars
  BY <1>2 DEF vars, devices, tables, Inv, TypeOK, LockOK
<1> QED
  BY <1>1, <1>2

LEMMA Inductive == Spec => []Inv
BY InitInv, NextInv, PTL DEF Spec

\* Every variable of the alarms keeps its type, whatever the house and the
\* changes of its devices.
THEOREM TypeCorrect == Spec => []TypeOK
<1>1. Inv => TypeOK
  BY DEF Inv
<1> QED
  BY <1>1, Inductive, PTL

\* AlarmStateAcknowledgmentProcess and OccupancySensingRegistrationProcess
\* never write alarms at the same time: the lock that they take for their
\* loops excludes it, whatever the other writers of the rows do.
THEOREM OneAlarmerCorrect == Spec => []OneAlarmer
<1>1. Inv => OneAlarmer
  BY DEF Inv, LockOK, OneAlarmer, Writes, Alarmer, Inside
<1> QED
  BY <1>1, Inductive, PTL
=============================================================================
