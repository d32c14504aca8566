------------------------------- MODULE Alarms -------------------------------
(***************************************************************************)
(* The lamps and their alarms.  The lamp of an occupied location shows the *)
(* alarm of the fridge, in its colour.  AlarmStateAcknowledgmentProcess    *)
(* sets the alarms when the fridge reports a code, and                     *)
(* OccupancySensingRegistrationProcess when a location gets or ceases to   *)
(* be occupied: both loop over lamps under nodesLock.                      *)
(* LightLevelControlProcess and LampStateUpdateProcess write to the same   *)
(* rows, without the lock.  StateResource serves each POST by a find and a *)
(* merge of the whole row, and sends what it merged to the lamp.           *)
(*                                                                         *)
(* Each REST call is an action, but for a GET of what only the caller      *)
(* writes, which goes with the call that follows.                          *)
(***************************************************************************)
EXTENDS Integers, FiniteSets

CONSTANTS
  Lamps,       \* the nodes that are a lamp, and a presence sensor as well
  Others,      \* the other nodes
  Locations,   \* the locations
  At,          \* the location of each node
  Codes,       \* the codes that the fridge may have
  Whites,      \* the light of a lamp when the gateway registers it
  Steps,       \* the percentages by which the controller changes the light
  MaxCodes,    \* bound: the changes of the code of the fridge
  MaxMoves,    \* bound: the changes of what the sensors see
  MaxLevels    \* bound: the events of the controller of the lights

Colour ==
  [ALARM1 |-> "RED_FIXED", ALARM2 |-> "RED_BLINK", ALARM3 |-> "BLUE_FIXED",
   ALARM4 |-> "BLUE_BLINK", ALARM5 |-> "GREEN_FIXED",
   ALARM6 |-> "GREEN_BLINK"]

FridgeCode ==
  DOMAIN Colour \cup {"OFF", "STANDBY", "SHUTDOWN", "UNKNOWN"}

Nodes == Lamps \cup Others

ASSUME NodeAssumption == Lamps \cap Others = {} /\ IsFiniteSet(Nodes)
ASSUME AtAssumption == At \in [Nodes -> Locations]
ASSUME CodeAssumption == Codes \subseteq FridgeCode
ASSUME LightAssumption == Whites \subseteq 0 .. 100 /\ Steps \subseteq Int
ASSUME BoundAssumption ==
  MaxCodes \in Nat /\ MaxMoves \in Nat /\ MaxLevels \in Nat

VARIABLES
  fridge,      \* the code of the fridge
  seen,        \* whether the sensor of each lamp sees someone
  lastCode,    \* FridgeState.lastCode
  occupied,    \* Location.occupied
  presence,    \* PresenceSensorState.occupied
  rows,        \* the LampState of each lamp
  shown,       \* what each lamp was told last
  thread,      \* where each process is
  nodesLock,   \* who holds the lock
  moved,       \* the lamps whose location has changed
  codes, moves, levels  \* what the bounds count

devices == <<fridge, seen, codes, moves>>
tables  == <<lastCode, occupied, presence>>
vars    == <<devices, tables, rows, shown, thread, nodesLock, moved,
             levels>>

Thread == {"ALARM", "OCCUPANCY", "LEVEL", "UPDATE"}

\* The alarm to issue.
Alarm(code, there) ==
  IF there /\ code \in DOMAIN Colour THEN Colour[code] ELSE "NONE"

Idle == [pc |-> "idle"]

\* The gateway registers the lamps and the sensors as it finds them, and no
\* location is occupied yet.
Init ==
  /\ fridge \in Codes /\ lastCode = fridge
  /\ seen \in [Lamps -> BOOLEAN] /\ presence = seen
  /\ occupied = [l \in Locations |-> FALSE]
  /\ \E white \in Whites :
       rows = [n \in Lamps |-> [alarm |-> "NONE", white |-> white]]
  /\ shown = rows
  /\ thread = [t \in Thread |-> Idle]
  /\ nodesLock = "free"
  /\ moved = {} /\ codes = 0 /\ moves = 0 /\ levels = 0
-----------------------------------------------------------------------------
(***************************************************************************)
(* StateResource: a POST to the row of a lamp finds the row, changes one   *)
(* field of it, merges the row as a whole and sends it to the lamp.  A     *)
(* touch changes no field that matters here, and sends nothing.            *)
(***************************************************************************)
Changed(row, post) ==
  CASE post.field = "alarm" -> [row EXCEPT !.alarm = post.value]
    [] post.field = "white" -> [row EXCEPT !.white = post.value]
    [] post.field = "touch" -> row

\* What a process does when it has served a node of its loop, if it has one.
Looping(loop) ==
  IF loop.left = {} THEN Idle ELSE [pc |-> "loop", loop |-> loop]

\* At the end of its loop a process leaves the lock.
Leave(t) ==
  nodesLock' = IF nodesLock = t /\ thread'[t].pc = "idle" THEN "free"
               ELSE nodesLock

Find(t) ==
  /\ thread[t].pc = "find"
  /\ thread' = [thread EXCEPT ![t] =
       [pc |-> "merge", post |-> @.post, loop |-> @.loop,
        copy |-> Changed(rows[@.post.lamp], @.post)]]
  /\ UNCHANGED <<devices, tables, rows, shown, nodesLock, moved,
                 levels>>

Merge(t) ==
  LET me == thread[t]
  IN  /\ me.pc = "merge"
      /\ rows' = [rows EXCEPT ![me.post.lamp] = me.copy]
      /\ thread' = [thread EXCEPT ![t] =
           IF me.post.field = "touch" THEN Idle ELSE [@ EXCEPT !.pc = "send"]]
      /\ UNCHANGED <<devices, tables, shown, nodesLock, moved,
                     levels>>

Send(t) ==
  LET me == thread[t]
  IN  /\ me.pc = "send"
      /\ shown' = [shown EXCEPT ![me.post.lamp] = me.copy]
      /\ thread' = [thread EXCEPT ![t] = Looping(me.loop)]
      /\ Leave(t)
      /\ UNCHANGED <<devices, tables, rows, moved, levels>>

NoLoop == [code |-> "UNKNOWN", there |-> FALSE, left |-> {}]

\* The GET of a lamp in a loop: its alarm is posted if it is another one.
Compared(loop, n) ==
  LET alarm == Alarm(loop.code, loop.there)
      rest  == [loop EXCEPT !.left = @ \ {n}]
  IN  IF rows[n].alarm # alarm
      THEN [pc |-> "find", loop |-> rest,
            post |-> [lamp |-> n, field |-> "alarm", value |-> alarm]]
      ELSE Looping(rest)
-----------------------------------------------------------------------------
(***************************************************************************)
(* AlarmStateAcknowledgmentProcess: the code is saved, then each lamp gets *)
(* the alarm for the code and its own sensor.  (The fridge is polled, and  *)
(* its answer taken as it is given: one that waits is an answer that comes *)
(* before a change of the fridge.  So are those of the sensors.)           *)
(***************************************************************************)
AlarmReceive ==
  /\ thread["ALARM"].pc = "idle"
  /\ lastCode' = fridge
  /\ thread' = [thread EXCEPT !["ALARM"] = [pc |-> "lock", code |-> fridge]]
  /\ UNCHANGED <<devices, occupied, presence, rows, shown, nodesLock, moved,
                 levels>>

AlarmLock ==
  /\ thread["ALARM"].pc = "lock" /\ nodesLock = "free"
  /\ nodesLock' = "ALARM"
  /\ thread' = [thread EXCEPT !["ALARM"] =
       [pc |-> "loop", loop |-> [code |-> @.code, there |-> FALSE,
                                 left |-> Lamps]]]
  /\ UNCHANGED <<devices, tables, rows, shown, moved, levels>>

AlarmLook(n) ==
  /\ thread["ALARM"].pc = "loop" /\ n \in thread["ALARM"].loop.left
  /\ thread' = [thread EXCEPT !["ALARM"] =
       [pc |-> "compare", lamp |-> n,
        loop |-> [@.loop EXCEPT !.there = presence[n]]]]
  /\ UNCHANGED <<devices, tables, rows, shown, nodesLock, moved,
                 levels>>

AlarmCompare ==
  /\ thread["ALARM"].pc = "compare"
  /\ thread' = [thread EXCEPT !["ALARM"] = Compared(@.loop, @.lamp)]
  /\ Leave("ALARM")
  /\ UNCHANGED <<devices, tables, rows, shown, moved, levels>>
-----------------------------------------------------------------------------
(***************************************************************************)
(* OccupancySensingRegistrationProcess: when the state of a location       *)
(* changes, the location and the sensor are updated, the code is read, and *)
(* the loop is over the nodes of the location.  One that is not a lamp has *)
(* no row, and the exception ends the loop.                                *)
(***************************************************************************)
OccupancyReceive(n) ==
  /\ thread["OCCUPANCY"].pc = "idle" /\ occupied[At[n]] # seen[n]
  /\ occupied' = [occupied EXCEPT ![At[n]] = seen[n]]
  /\ moved' = moved \cup {n}
  /\ thread' = [thread EXCEPT !["OCCUPANCY"] =
                  [pc |-> "sense", lamp |-> n, there |-> seen[n]]]
  /\ UNCHANGED <<devices, lastCode, presence, rows, shown, nodesLock, levels>>

\* Mutant: the sensor is told that someone came, and not that they left.
OccupancySenseComing ==
  LET me == thread["OCCUPANCY"]
  IN  /\ me.pc = "sense"
      /\ presence' = [presence EXCEPT ![me.lamp] = @ \/ me.there]
      /\ thread' = [thread EXCEPT !["OCCUPANCY"].pc = "code"]
      /\ UNCHANGED <<devices, lastCode, occupied, rows, shown, nodesLock,
                     moved, levels>>

OccupancySense ==
  LET me == thread["OCCUPANCY"]
  IN  /\ me.pc = "sense"
      /\ presence' = [presence EXCEPT ![me.lamp] = me.there]
      /\ thread' = [thread EXCEPT !["OCCUPANCY"].pc = "code"]
      /\ UNCHANGED <<devices, lastCode, occupied, rows, shown,
                     nodesLock, moved, levels>>

OccupancyCode ==
  /\ thread["OCCUPANCY"].pc = "code"
  /\ thread' = [thread EXCEPT !["OCCUPANCY"] =
       [pc |-> "enter", lamp |-> @.lamp, there |-> @.there,
        code |-> lastCode]]
  /\ UNCHANGED <<devices, tables, rows, shown, nodesLock, moved,
                 levels>>

\* Mutant: the lock is not waited for.
OccupancyLockHeld ==
  LET me == thread["OCCUPANCY"]
  IN  /\ me.pc = "enter"
      /\ nodesLock' = "OCCUPANCY"
      /\ thread' = [thread EXCEPT !["OCCUPANCY"] =
           [pc |-> "loop",
            loop |-> [code |-> me.code, there |-> me.there,
                      left |-> {n \in Nodes : At[n] = At[me.lamp]}]]]
      /\ UNCHANGED <<devices, tables, rows, shown, moved, levels>>

OccupancyLock ==
  LET me == thread["OCCUPANCY"]
  IN  /\ me.pc = "enter" /\ nodesLock = "free"
      /\ nodesLock' = "OCCUPANCY"
      /\ thread' = [thread EXCEPT !["OCCUPANCY"] =
           [pc |-> "loop",
            loop |-> [code |-> me.code, there |-> me.there,
                      left |-> {n \in Nodes : At[n] = At[me.lamp]}]]]
      /\ UNCHANGED <<devices, tables, rows, shown, moved, levels>>

OccupancyCompare(n) ==
  LET me == thread["OCCUPANCY"]
  IN  /\ me.pc = "loop" /\ n \in me.loop.left
      /\ thread' = [thread EXCEPT !["OCCUPANCY"] =
           IF n \in Lamps THEN Compared(me.loop, n) ELSE Idle]
      /\ Leave("OCCUPANCY")
      /\ UNCHANGED <<devices, tables, rows, shown, moved, levels>>
-----------------------------------------------------------------------------
(***************************************************************************)
(* LightLevelControlProcess and LampStateUpdateProcess: both look at the   *)
(* time of the last update of the row, and do nothing if it is too recent. *)
(***************************************************************************)
Clip(percentage) ==
  IF percentage < 0 THEN 0 ELSE IF percentage > 100 THEN 100 ELSE percentage

\* Mutant: the light changes by the percentage, which is not clipped.
LevelReceiveAdded(n, step) ==
  LET previous == rows[n].white
  IN  /\ thread["LEVEL"].pc = "idle"
      /\ levels < MaxLevels /\ levels' = levels + 1
      /\ thread' = [thread EXCEPT !["LEVEL"] =
           [pc |-> "find", loop |-> NoLoop,
            post |-> [lamp |-> n, field |-> "white",
                      value |-> previous + step]]]
      /\ UNCHANGED <<devices, tables, rows, shown, nodesLock, moved>>

LevelReceive(n, step) ==
  LET previous == rows[n].white
  IN  /\ thread["LEVEL"].pc = "idle"
      /\ levels < MaxLevels /\ levels' = levels + 1
      /\ Clip(previous + step) # previous
      /\ thread' = [thread EXCEPT !["LEVEL"] =
           [pc |-> "find", loop |-> NoLoop,
            post |-> [lamp |-> n, field |-> "white",
                      value |-> IF previous # 0 THEN 0 ELSE 50]]]
      /\ UNCHANGED <<devices, tables, rows, shown, nodesLock, moved>>

UpdateGet(n) ==
  /\ thread["UPDATE"].pc = "idle"
  /\ thread' = [thread EXCEPT !["UPDATE"] =
       [pc |-> "tell", lamp |-> n, copy |-> rows[n]]]
  /\ UNCHANGED <<devices, tables, rows, shown, nodesLock, moved,
                 levels>>

\* Mutant: the row is touched, and not sent.
UpdateTellNothing ==
  LET me == thread["UPDATE"]
  IN  /\ me.pc = "tell"
      /\ thread' = [thread EXCEPT !["UPDATE"] =
           [pc |-> "find", loop |-> NoLoop,
            post |-> [lamp |-> me.lamp, field |-> "touch", value |-> 0]]]
      /\ UNCHANGED <<devices, tables, rows, shown, nodesLock, moved, levels>>

UpdateTell ==
  LET me == thread["UPDATE"]
  IN  /\ me.pc = "tell"
      /\ shown' = [shown EXCEPT ![me.lamp] = me.copy]
      /\ thread' = [thread EXCEPT !["UPDATE"] =
           [pc |-> "find", loop |-> NoLoop,
            post |-> [lamp |-> me.lamp, field |-> "touch", value |-> 0]]]
      /\ UNCHANGED <<devices, tables, rows, nodesLock, moved, levels>>
-----------------------------------------------------------------------------
(***************************************************************************)
(* The devices.                                                            *)
(***************************************************************************)
FridgeChange(code) ==
  /\ codes < MaxCodes /\ codes' = codes + 1
  /\ fridge' = code
  /\ UNCHANGED <<seen, moves, tables, rows, shown, thread, nodesLock,
                 moved, levels>>

Move(n) ==
  /\ moves < MaxMoves /\ moves' = moves + 1
  /\ seen' = [seen EXCEPT ![n] = ~@]
  /\ UNCHANGED <<fridge, codes, tables, rows, shown, thread,
                 nodesLock, moved, levels>>

Post(t) == Find(t) \/ Merge(t) \/ Send(t)

Acknowledge ==
  \/ AlarmReceive \/ AlarmLock \/ AlarmCompare \/ Post("ALARM")
  \/ \E n \in Lamps : AlarmLook(n)
Register ==
  \/ (\E n \in Lamps : OccupancyReceive(n))
  \/ OccupancySense \/ OccupancyCode \/ Post("OCCUPANCY")
  \/ \E n \in Nodes : OccupancyCompare(n)
Control ==
  (\E n \in Lamps, step \in Steps : LevelReceive(n, step)) \/ Post("LEVEL")
Update(n) == UpdateGet(n) \/ UpdateTell \/ Post("UPDATE")

Next ==
  \/ Acknowledge \/ Register \/ OccupancyLock \/ Control
  \/ \E n \in Lamps : Update(n) \/ Move(n)
  \/ \E code \in Codes : FridgeChange(code)

Spec == Init /\ [][Next]_vars

\* The threads run, the devices are polled for ever, and a process that waits
\* for the lock has it at last: the polls are 10 s apart.
Fairness ==
  /\ WF_vars(Acknowledge) /\ WF_vars(Register) /\ SF_vars(OccupancyLock)
  /\ WF_vars(Post("LEVEL")) /\ \A n \in Lamps : WF_vars(Update(n))

FairSpec == Spec /\ Fairness
-----------------------------------------------------------------------------
Row == [alarm : {"NONE"} \cup {Colour[c] : c \in DOMAIN Colour},
        white : 0 .. 100]
Loop == [code : FridgeCode, there : BOOLEAN, left : SUBSET Nodes]
APost ==
  [lamp : Lamps, field : {"alarm"}, value : {Colour[c] : c \in DOMAIN Colour}
                                              \cup {"NONE"}]
    \cup [lamp : Lamps, field : {"white", "touch"}, value : 0 .. 100]

ThreadState ==
  [pc : {"idle"}] \cup [pc : {"lock"}, code : Codes]
    \cup [pc : {"sense", "code"}, lamp : Lamps, there : BOOLEAN]
    \cup [pc : {"enter"}, lamp : Lamps, there : BOOLEAN, code : Codes]
    \cup [pc : {"loop"}, loop : Loop]
    \cup [pc : {"compare"}, lamp : Lamps, loop : Loop]
    \cup [pc : {"tell"}, lamp : Lamps, copy : Row]
    \cup [pc : {"find"}, loop : Loop, post : APost]
    \cup [pc : {"merge", "send"}, loop : Loop, post : APost, copy : Row]

\* Every variable holds values of the shape that the actions assume.
TypeOK ==
  /\ fridge \in Codes /\ lastCode \in Codes
  /\ seen \in [Lamps -> BOOLEAN] /\ presence \in [Lamps -> BOOLEAN]
  /\ occupied \in [Locations -> BOOLEAN]
  /\ rows \in [Lamps -> Row] /\ shown \in [Lamps -> Row]
  /\ thread \in [Thread -> ThreadState]
  /\ nodesLock \in {"free", "ALARM", "OCCUPANCY"}
  /\ moved \subseteq Lamps
  /\ codes \in Nat /\ moves \in Nat /\ levels \in Nat

Writes(t) == thread[t].pc \in {"find", "merge", "send"}

\* An alarm is not lost to another alarm: the two processes that set alarms
\* never write to a row at the same time, though both find it, change it and
\* merge it as a whole.
OneAlarmer == ~(Writes("ALARM") /\ Writes("OCCUPANCY"))

\* A process is about to merge a copy of a row that another one has changed.
Race ==
  \E t \in Thread : /\ thread[t].pc = "merge"
                    /\ thread[t].copy #
                         Changed(rows[thread[t].post.lamp], thread[t].post)

\* The only sensor of its location.
Alone(n) == \A m \in Lamps : At[m] = At[n] => m = n

\* However the changes of the fridge, of the sensors and of the lights
\* interleave, and though a loop may use an old code or end early, the alarm
\* of a lamp is at last that of the code of the fridge, if its sensor sees
\* someone: provided that updates of a row do not undo one another for ever,
\* that the location has no other sensor, and that it has changed since the
\* gateway registered the sensor.
AlarmsSettle ==
  <>[]~Race =>
    <>[](\A n \in moved :
           Alone(n) => rows[n].alarm = Alarm(fridge, seen[n]))

\* What a lamp was told last is what its row says, at last, though the packets
\* of two updates may go out in the order other than that of their merges.
LampsSettle == <>[]~Race => <>[](shown = rows)
=============================================================================
