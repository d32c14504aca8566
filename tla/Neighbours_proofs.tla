-------------------------- MODULE Neighbours_proofs --------------------------
(***************************************************************************)
(* Proofs about Neighbours, for any nodes, any lists and bytes of any      *)
(* size.                                                                   *)
(***************************************************************************)
EXTENDS Neighbours, TLAPS

\* The state with pc "delete" or "get", and that with a copy.
Holding == [pc : {"delete", "get"}, at : Nodes, list : Lists]
Copying == [pc : {"exists", "merge"}, copy : Row]

LEMMA RegistrationCases ==
  ASSUME TypeOK
  PROVE  /\ registration.pc \in {"delete", "get"} => registration \in Holding
         /\ registration.pc \in {"exists", "merge"} => registration \in Copying
         /\ registration.pc
              \in {"receive", "dead", "delete", "get", "exists", "merge"}
BY DEF TypeOK, RegistrationState, Holding, Copying

LEMMA RequestCases ==
  ASSUME TypeOK, request.pc # "idle"
  PROVE  /\ request \in [pc : {"post", "send"}, at : Nodes]
         /\ request # Idle
BY DEF TypeOK, RequestState, Idle
-----------------------------------------------------------------------------
LEMMA InitType == Init => TypeOK
<1> SUFFICES ASSUME Init PROVE TypeOK
  OBVIOUS
<1>1. nodes \subseteq Row /\ lastId \in Nat
  BY RegisteredAssumption, ListsAssumption DEF Init, Row
<1>2. request \in RequestState /\ registration \in RegistrationState
  BY DEF Init, RequestState, RegistrationState, Idle, Receiving
<1>3. tsn \in Tsn
  BY ByteAssumption DEF Init, Tsn
<1>4. heard \in [Nodes -> SUBSET Lists]
  BY ListsAssumption DEF Init
<1> QED
  BY <1>1, <1>2, <1>3, <1>4, HearsAssumption DEF Init, TypeOK

LEMMA NextType == TypeOK /\ [Next]_vars => TypeOK'
<1> SUFFICES ASSUME TypeOK, [Next]_vars PROVE TypeOK'
  OBVIOUS
<1> USE DEF TypeOK
<1>1. ASSUME NEW n \in Nodes, RequestNext(n) PROVE TypeOK'
  <2>1. tsn' \in Tsn
    BY <1>1, ByteAssumption DEF RequestNext, Tsn
  <2> QED
    BY <1>1, <2>1
       DEF RequestNext, rows, radio, devices, RequestState
<1>2. ASSUME NEW n \in Nodes, Announce(n) PROVE TypeOK'
  BY <1>2, ListsAssumption DEF Announce, radio, devices, flags, Row
<1>3. CASE RequestPost
  <2>1. request \in [pc : {"post", "send"}, at : Nodes]
    BY <1>3, RequestCases DEF RequestPost
  <2> QED
    BY <1>3, <2>1 DEF RequestPost, rows, radio, devices, flags, Job,
                      RequestState
<1>4. CASE RequestSend
  <2>1. request \in [pc : {"post", "send"}, at : Nodes]
    BY <1>4, RequestCases DEF RequestSend
  <2> QED
    BY <1>4, <2>1 DEF RequestSend, rows, devices, flags, Job, RequestState
<1>5. ASSUME NEW a \in answers, RegisterReceive(a) PROVE TypeOK'
  <2>1. registration' \in RegistrationState
    <3>1. a.list \in Lists /\ Matching(a.tsn) \subseteq Nodes
      BY DEF Answers, Matching, Job
    <3> QED
      BY <1>5, <3>1 DEF RegisterReceive, RegistrationState
  <2> QED
    BY <1>5, <2>1 DEF RegisterReceive, rows, devices, flags
<1>6. CASE Register
  <2>1. CASE RegisterDelete
    <3>1. registration \in Holding
      BY <2>1, RegistrationCases DEF RegisterDelete
    <3> QED
      BY <2>1, <3>1 DEF RegisterDelete, rows, radio, devices, flags, Holding,
                        RegistrationState
  <2>2. CASE RegisterGet
    <3>1. registration \in Holding
      BY <2>2, RegistrationCases DEF RegisterGet
    <3>2. registration' \in RegistrationState
      BY <2>2, <3>1 DEF RegisterGet, Holding, RegistrationState, Receiving,
                        Row
    <3> QED
      BY <2>2, <3>2 DEF RegisterGet, rows, devices, flags
  <2>3. CASE RegisterExists
    <3>1. registration \in Copying
      BY <2>3, RegistrationCases DEF RegisterExists
    <3> QED
      BY <2>3, <3>1 DEF RegisterExists, rows, radio, devices, flags, Copying,
                        RegistrationState, Receiving
  <2>4. CASE RegisterMerge
    <3>1. registration \in Copying
      BY <2>4, RegistrationCases DEF RegisterMerge
    <3> QED
      BY <2>4, <3>1 DEF RegisterMerge, radio, devices, flags, Copying,
                        RegistrationState, Receiving
  <2> QED
    BY <1>6, <2>1, <2>2, <2>3, <2>4 DEF Register
<1>7. ASSUME NEW q \in asked, Answer(q) PROVE TypeOK'
  <2>1. q[1] \in Nodes /\ q[2] \in Tsn
    BY DEF Job
  <2>2. actual[q[1]] \in Lists
    BY <2>1
  <2> QED
    BY <1>7, <2>1, <2>2 DEF Answer, rows, flags, Answers
<1>8. ASSUME NEW n \in Nodes, NEW list \in Lists, Change(n, list) PROVE TypeOK'
  BY <1>8 DEF Change, rows, radio, flags
<1>9. CASE Lose
  BY <1>9 DEF Lose, Fault, rows, devices, flags
<1>10. ASSUME NEW r \in nodes, Leave(r) PROVE TypeOK'
  BY <1>10 DEF Leave, Fault, radio, devices
<1>11. CASE CleanupJobs
  BY <1>11 DEF CleanupJobs, rows, radio, devices, flags
<1>12. CASE Restart
  BY <1>12, ByteAssumption DEF Restart, Fault, rows, radio, devices, Tsn
<1>13. CASE UNCHANGED vars
  BY <1>13 DEF vars, rows, radio, devices, flags
<1> QED
  BY <1>1, <1>2, <1>3, <1>4, <1>5, <1>6, <1>7, <1>8, <1>9, <1>10, <1>11,
     <1>12, <1>13 DEF Next

\* Whatever is lost, removed or restarted, the sequence number stays a byte
\* and every variable keeps its type.
THEOREM TypeCorrect == Spec => []TypeOK
BY InitType, NextType, PTL DEF Spec
-----------------------------------------------------------------------------
(***************************************************************************)
(* Whose neighbours an answer holds.                                       *)
(***************************************************************************)

\* The node and the number of every request that is not yet forgotten.
Carried ==
  jobs \cup asked \cup {<<a.from, a.tsn>> : a \in answers}
    \cup (IF request.pc = "idle" THEN {} ELSE {<<request.at, tsn>>})

\* A number is that of one node, and is not 0.
NumbersOK ==
  /\ \A c \in Carried : c[2] \in 1 .. tsn
  /\ \A c, d \in Carried : c[2] = d[2] => c[1] = d[1]

\* What the registration holds is of the node it holds it for.
HeldOK ==
  /\ registration.pc \in {"delete", "get"}
       => registration.list \in heard[registration.at]
  /\ registration.pc \in {"exists", "merge"}
       => registration.copy.list \in heard[registration.copy.at]

HeardOK ==
  /\ \A n \in Nodes : None \in heard[n]
  /\ \A a \in answers : a.list \in heard[a.from]

OwnInv ==
  /\ HeardOK
  /\ ~turned => NumbersOK /\ HeldOK
  /\ OwnNeighbours

LEMMA InitOwn == Init => OwnInv
<1> SUFFICES ASSUME Init PROVE OwnInv
  OBVIOUS
<1>1. Carried = {}
  BY DEF Init, Idle, Carried
<1>2. HeardOK /\ OwnNeighbours
  BY RegisteredAssumption DEF Init, HeardOK, OwnNeighbours
<1> QED
  BY <1>1, <1>2 DEF OwnInv, NumbersOK, HeldOK, Init, Receiving

LEMMA BelowMod == ASSUME NEW a \in Nat, NEW b \in Nat, a < b PROVE a % b = a
OBVIOUS

LEMMA SelfMod == ASSUME NEW b \in Nat, b > 0 PROVE b % b = 0
OBVIOUS

\* A number is used once until it comes round.
LEMMA NumbersStep ==
  ASSUME TypeOK, NumbersOK, Next, ~turned'
  PROVE  NumbersOK'
<1>1. CASE Carried' \subseteq Carried /\ tsn' = tsn
  BY <1>1 DEF NumbersOK
<1>2. ASSUME NEW n \in Nodes, RequestNext(n) PROVE NumbersOK'
  <2>1. tsn \in 0 .. Byte - 1
    BY DEF TypeOK, Tsn
  <2>2. tsn' = tsn + 1
    <3>1. CASE tsn + 1 < Byte
      BY <1>2, <2>1, <3>1, BelowMod, ByteAssumption DEF RequestNext
    <3>2. CASE tsn + 1 = Byte
      <4>1. tsn' = 0
        <5>1. tsn' = (tsn + 1) % Byte
          BY <1>2 DEF RequestNext
        <5> QED
          BY <3>2, <5>1, SelfMod, ByteAssumption
      <4>2. tsn' # 0
        BY <1>2, Zenon DEF RequestNext
      <4> QED
        BY <4>1, <4>2
    <3> QED
      BY <2>1, <3>1, <3>2, ByteAssumption
  <2>3. Carried' = Carried \cup {<<n, tsn'>>}
    BY <1>2 DEF RequestNext, Carried, radio, Idle
  <2>4. \A c \in Carried : c[2] \in 1 .. tsn' /\ c[2] # tsn'
    BY <2>1, <2>2 DEF NumbersOK
  <2> QED
    BY <2>1, <2>2, <2>3, <2>4 DEF NumbersOK
<1>3. CASE RequestPost
  BY <1>1, <1>3 DEF RequestPost, Carried, radio, TypeOK, RequestState, Idle
<1>4. CASE RequestSend
  BY <1>1, <1>4 DEF RequestSend, Carried, Idle
<1>5. ASSUME NEW a \in answers, RegisterReceive(a) PROVE NumbersOK'
  BY <1>1, <1>5 DEF RegisterReceive, Carried
<1>6. CASE Register
  BY <1>1, <1>6 DEF Register, RegisterDelete, RegisterGet, RegisterExists,
                    RegisterMerge, Carried, radio
<1>7. ASSUME NEW q \in asked, Answer(q) PROVE NumbersOK'
  <2>1. q = <<q[1], q[2]>>
    BY DEF TypeOK, Job
  <2>2. {<<a.from, a.tsn>> : a \in answers'}
          \subseteq {<<a.from, a.tsn>> : a \in answers} \cup {q}
    BY <1>7, <2>1 DEF Answer
  <2> QED
    BY <1>1, <1>7, <2>2 DEF Answer, Carried
<1>8. ASSUME NEW n \in Nodes, NEW list \in Lists, Change(n, list)
      PROVE  NumbersOK'
  BY <1>1, <1>8 DEF Change, Carried, radio
<1>9. CASE Lose
  BY <1>1, <1>9 DEF Lose, Carried
<1>10. ASSUME NEW r \in nodes, Leave(r) PROVE NumbersOK'
  BY <1>1, <1>10 DEF Leave, Carried, radio
<1>11. ASSUME NEW n \in Nodes, Announce(n) PROVE NumbersOK'
  BY <1>1, <1>11 DEF Announce, Carried, radio
<1>12. CASE CleanupJobs
  BY <1>1, <1>12 DEF CleanupJobs, Carried, radio
<1>13. CASE Restart
  BY <1>13 DEF Restart
<1> QED
  BY <1>2, <1>3, <1>4, <1>5, <1>6, <1>7, <1>8, <1>9, <1>10, <1>11, <1>12,
     <1>13 DEF Next

\* What has been heard of a device is not forgotten.
LEMMA HeardGrows ==
  ASSUME TypeOK, [Next]_vars
  PROVE  \A n \in Nodes : heard[n] \subseteq heard'[n]
<1>1. ASSUME NEW q \in asked, Answer(q)
      PROVE  \A n \in Nodes : heard[n] \subseteq heard'[n]
  BY <1>1 DEF Answer, TypeOK
<1>2. CASE UNCHANGED heard
  BY <1>2
<1>3. CASE Register
  BY <1>2, <1>3 DEF Register, RegisterDelete, RegisterGet, RegisterExists,
                    RegisterMerge, devices
<1>4. CASE Lose \/ CleanupJobs \/ Restart \/ RequestPost \/ RequestSend
  BY <1>2, <1>4 DEF Lose, CleanupJobs, Restart, RequestPost, RequestSend,
                    devices
<1> QED
  BY <1>1, <1>2, <1>3, <1>4
     DEF Next, vars, devices, RequestNext, RegisterReceive, Change, Leave,
         Announce

LEMMA HeardStep ==
  ASSUME TypeOK, HeardOK, [Next]_vars
  PROVE  HeardOK'
<1>1. \A n \in Nodes : heard[n] \subseteq heard'[n]
  BY HeardGrows
<1>2. \A n \in Nodes : None \in heard'[n]
  BY <1>1 DEF HeardOK
<1>3. ASSUME NEW q \in asked, Answer(q),
             NEW a \in answers'
      PROVE  a.list \in heard'[a.from]
  <2>1. q[1] \in Nodes
    BY DEF TypeOK, Job
  <2>2. actual[q[1]] \in heard'[q[1]]
    BY <1>3, <2>1 DEF Answer, TypeOK
  <2>3. a \in answers
          \/ a = [from |-> q[1], tsn |-> q[2], list |-> actual[q[1]]]
    BY <1>3 DEF Answer
  <2> QED
    BY <1>1, <2>2, <2>3 DEF HeardOK, TypeOK, Answers
<1>4. CASE answers' \subseteq answers
  BY <1>1, <1>2, <1>4 DEF HeardOK, TypeOK, Answers
<1>5. CASE Register \/ RequestPost \/ RequestSend \/ Lose \/ CleanupJobs
             \/ Restart \/ UNCHANGED vars
  BY <1>4, <1>5 DEF Register, RegisterDelete, RegisterGet, RegisterExists,
                    RegisterMerge, RequestPost, RequestSend, Lose,
                    CleanupJobs, Restart, radio, vars
<1> QED
  BY <1>2, <1>3, <1>4, <1>5
     DEF HeardOK, Next, radio, RequestNext, RegisterReceive, Change, Leave,
         Announce

LEMMA TurnedStays == [Next]_vars /\ ~turned' => ~turned
<1> SUFFICES ASSUME [Next]_vars, turned PROVE turned'
  OBVIOUS
<1>1. ASSUME NEW n \in Nodes, RequestNext(n) PROVE turned'
  BY <1>1, Zenon DEF RequestNext
<1>2. CASE Restart
  BY <1>2 DEF Restart
<1>3. CASE UNCHANGED turned
  BY <1>3
<1>4. CASE Register
  BY <1>3, <1>4 DEF Register, RegisterDelete, RegisterGet, RegisterExists,
                    RegisterMerge, flags
<1>5. CASE RequestPost \/ RequestSend \/ Lose \/ CleanupJobs
             \/ UNCHANGED vars
  BY <1>3, <1>5 DEF RequestPost, RequestSend, Lose, CleanupJobs, flags, vars
<1> QED
  BY <1>1, <1>2, <1>3, <1>4, <1>5
     DEF Next, flags, RegisterReceive, Answer, Change, Leave, Announce

\* The job with the number of an answer is that of the node that sent it.
LEMMA MatchingOwn ==
  ASSUME TypeOK, NumbersOK, NEW a \in answers, NEW n \in Matching(a.tsn)
  PROVE  n = a.from
<1>1. <<a.from, a.tsn>> \in Carried
  BY DEF Carried
<1>2. a.tsn # 0
  BY <1>1 DEF NumbersOK, TypeOK, Tsn
<1>3. PICK j \in jobs : j[1] = n /\ j[2] = a.tsn
  BY <1>2 DEF Matching
<1>4. j \in Carried
  BY DEF Carried
<1> QED
  BY <1>1, <1>3, <1>4 DEF NumbersOK

LEMMA HeldStep ==
  ASSUME TypeOK, HeardOK, NumbersOK, HeldOK, OwnNeighbours, ~turned,
         [Next]_vars
  PROVE  HeldOK'
<1>1. \A n \in Nodes : heard[n] \subseteq heard'[n]
  BY HeardGrows
<1>2. ASSUME NEW a \in answers, RegisterReceive(a) PROVE HeldOK'
  <2>1. CASE UNCHANGED registration
    BY <1>2, <2>1 DEF RegisterReceive, HeldOK, devices
  <2>2. ASSUME NEW n \in Matching(a.tsn),
               registration' = [pc |-> "delete", at |-> n, list |-> a.list]
        PROVE  HeldOK'
    <3>1. n = a.from
      BY MatchingOwn
    <3>2. a.list \in heard[n]
      BY <3>1 DEF HeardOK
    <3> QED
      BY <1>2, <2>2, <3>2 DEF RegisterReceive, HeldOK, devices
  <2> QED
    BY <1>2, <2>1, <2>2 DEF RegisterReceive
<1>3. CASE RegisterDelete
  <2>1. registration \in Holding
    BY <1>3, RegistrationCases DEF RegisterDelete
  <2> QED
    BY <1>3, <2>1 DEF RegisterDelete, HeldOK, devices, Holding
<1>4. CASE RegisterGet
  <2>1. registration \in Holding
    BY <1>4, RegistrationCases DEF RegisterGet
  <2>2. CASE registration' = Receiving \/ registration' = [pc |-> "dead"]
    BY <2>2 DEF HeldOK, Receiving
  <2>3. ASSUME NEW r \in nodes, GetNode(registration.at, r),
               registration' =
                 [pc   |-> "exists",
                  copy |-> [r EXCEPT !.list = registration.list]]
        PROVE  HeldOK'
    <3>1. r \in Row /\ r.at = registration.at
      BY <2>3 DEF GetNode, TypeOK
    <3>2. /\ registration'.pc = "exists"
          /\ registration'.copy.at = registration.at
          /\ registration'.copy.list = registration.list
      BY <2>3, <3>1 DEF Row
    <3>3. heard' = heard
      BY <1>4 DEF RegisterGet, devices
    <3> QED
      BY <1>4, <3>2, <3>3 DEF RegisterGet, HeldOK
  <2> QED
    BY <1>4, <2>2, <2>3 DEF RegisterGet
<1>5. CASE RegisterExists
  <2>1. registration \in Copying
    BY <1>5, RegistrationCases DEF RegisterExists
  <2> QED
    BY <1>5, <2>1 DEF RegisterExists, HeldOK, devices, Copying, Receiving
<1>6. CASE RegisterMerge
  BY <1>6 DEF RegisterMerge, HeldOK, Receiving
<1>7. CASE UNCHANGED registration
  <2>1. /\ registration.pc \in {"delete", "get"} => registration \in Holding
        /\ registration.pc \in {"exists", "merge"}
             => registration \in Copying
    BY RegistrationCases
  <2> QED
    BY <1>1, <1>7, <2>1 DEF HeldOK, Holding, Copying, Row
<1>8. CASE RequestPost \/ RequestSend \/ Lose \/ CleanupJobs \/ Restart
             \/ UNCHANGED vars
  BY <1>7, <1>8 DEF RequestPost, RequestSend, Lose, CleanupJobs, Restart, vars
<1> QED
  BY <1>2, <1>3, <1>4, <1>5, <1>6, <1>7, <1>8
     DEF Next, Register, RequestNext, Answer, Change, Leave, Announce

LEMMA OwnStep ==
  ASSUME TypeOK, HeardOK, HeldOK, OwnNeighbours, ~turned, ~turned',
         [Next]_vars
  PROVE  OwnNeighbours'
<1>1. \A n \in Nodes : heard[n] \subseteq heard'[n]
  BY HeardGrows
<1>2. CASE nodes' \subseteq nodes
  BY <1>1, <1>2 DEF OwnNeighbours, TypeOK, Row
<1>3. CASE RegisterMerge
  <2>1. registration \in Copying
    BY <1>3, RegistrationCases DEF RegisterMerge
  <2>2. nodes' \subseteq nodes \cup {registration.copy}
    BY <1>3 DEF RegisterMerge
  <2>3. registration.copy.list \in heard[registration.copy.at]
    BY <1>3 DEF RegisterMerge, HeldOK
  <2> QED
    BY <1>3, <2>2, <2>3 DEF RegisterMerge, OwnNeighbours, devices
<1>4. ASSUME NEW n \in Nodes, Announce(n) PROVE OwnNeighbours'
  BY <1>4 DEF Announce, OwnNeighbours, HeardOK, devices
<1>5. CASE RequestPost \/ RequestSend \/ Lose \/ CleanupJobs \/ Restart
             \/ UNCHANGED vars \/ RegisterDelete \/ RegisterGet
             \/ RegisterExists
  BY <1>2, <1>5 DEF RequestPost, RequestSend, Lose, CleanupJobs, Restart,
                    RegisterDelete, RegisterGet, RegisterExists, rows, vars
<1> QED
  BY <1>2, <1>3, <1>4, <1>5
     DEF Next, Register, rows, RequestNext, RegisterReceive, Answer, Change,
         Leave

LEMMA OwnInvariant == Spec => [](TypeOK /\ OwnInv)
<1>1. TypeOK /\ OwnInv /\ [Next]_vars => OwnInv'
  <2> SUFFICES ASSUME TypeOK, OwnInv, [Next]_vars PROVE OwnInv'
    OBVIOUS
  <2>1. HeardOK'
    BY HeardStep DEF OwnInv
  <2>2. CASE turned'
    BY <2>1, <2>2 DEF OwnInv, OwnNeighbours
  <2>3. CASE ~turned'
    <3>1. ~turned
      BY <2>3, TurnedStays
    <3>2. NumbersOK'
      <4>1. CASE Next
        BY <2>3, <3>1, <4>1, NumbersStep DEF OwnInv
      <4>2. CASE UNCHANGED vars
        BY <3>1, <4>2 DEF OwnInv, NumbersOK, Carried, vars, radio
      <4> QED
        BY <4>1, <4>2
    <3>3. HeldOK' /\ OwnNeighbours'
      BY <2>3, <3>1, HeldStep, OwnStep DEF OwnInv
    <3> QED
      BY <2>1, <3>2, <3>3 DEF OwnInv
  <2> QED
    BY <2>2, <2>3
<1> QED
  BY <1>1, InitType, NextType, InitOwn, PTL DEF Spec

\* Until the sequence number comes round, a row has the neighbours that its
\* own device reported, however answers are lost, late or overtaken, and
\* rows leave and come back.
THEOREM OwnNeighboursCorrect == Spec => []OwnNeighbours
<1>1. OwnInv => OwnNeighbours
  BY DEF OwnInv
<1> QED
  BY <1>1, OwnInvariant, PTL
-----------------------------------------------------------------------------
(***************************************************************************)
(* What ends the thread of the registration.                               *)
(***************************************************************************)

\* Each node has its row, and no other node has that row's id.
RowsKept ==
  /\ \A r, s \in nodes : r.id = s.id => r = s
  /\ \A n \in Nodes : \E r \in nodes : GetNode(n, r)

\* The copy is of a row that is there.
CopyKept ==
  registration.pc \in {"exists", "merge"} =>
    \E r \in nodes : /\ r.id = registration.copy.id
                     /\ GetNode(registration.copy.at, r)

LivesInv ==
  ~removed => RowsKept /\ CopyKept /\ registration.pc # "dead"

LEMMA InitLives == Init => LivesInv
<1> SUFFICES ASSUME Init PROVE RowsKept /\ CopyKept /\ registration.pc # "dead"
  BY DEF LivesInv
<1>1. \A n \in Nodes : \E r \in nodes : {s \in nodes : s.at = n} = {r}
  BY RegisteredAssumption DEF Init
<1> QED
  BY <1>1, RegisteredAssumption
     DEF Init, RowsKept, CopyKept, Receiving, GetNode

\* A merge changes a row in its place.
LEMMA MergeKeeps ==
  ASSUME TypeOK, RowsKept, CopyKept, RegisterMerge
  PROVE  RowsKept'
<1> DEFINE copy == registration.copy
<1>1. registration \in Copying
  BY RegistrationCases DEF RegisterMerge
<1>2. copy \in Row
  BY <1>1 DEF Copying
<1>3. PICK r \in nodes : r.id = copy.id /\ GetNode(copy.at, r)
  BY DEF RegisterMerge, CopyKept
<1>4. /\ r.at = copy.at /\ r.id = copy.id
      /\ \A s \in nodes : s.at = copy.at \/ s.id = copy.id => s = r
  BY <1>3 DEF GetNode, RowsKept
<1>5. nodes' = {s \in nodes : s.id # copy.id} \cup {copy}
  BY DEF RegisterMerge
<1>6. \A q, s \in nodes' : q.id = s.id => q = s
  BY <1>5 DEF RowsKept
<1>7. ASSUME NEW n \in Nodes PROVE \E q \in nodes' : GetNode(n, q)'
  <2>1. CASE n = copy.at
    <3>1. {s \in nodes' : s.at = n} = {copy}
      BY <1>4, <1>5, <2>1
    <3>2. copy \in nodes'
      BY <1>5
    <3>3. \E q \in nodes' : {s \in nodes' : s.at = n} = {q}
      BY <3>1, <3>2
    <3> QED
      BY <3>3 DEF GetNode
  <2>2. CASE n # copy.at
    <3>1. PICK q \in nodes : {s \in nodes : s.at = n} = {q}
      BY DEF RowsKept, GetNode
    <3>2. q.at = n /\ q.id # copy.id
      BY <1>4, <2>2, <3>1
    <3>3. q \in nodes'
      BY <1>5, <3>2
    <3>4. {s \in nodes' : s.at = n} = {q}
      BY <1>5, <2>2, <3>1, <3>3
    <3>5. \E p \in nodes' : {s \in nodes' : s.at = n} = {p}
      BY <3>3, <3>4
    <3> QED
      BY <3>5 DEF GetNode
  <2> QED
    BY <2>1, <2>2
<1> QED
  BY <1>6, <1>7 DEF RowsKept

LEMMA LivesStep == TypeOK /\ LivesInv /\ [Next]_vars => LivesInv'
<1> SUFFICES ASSUME TypeOK, LivesInv, [Next]_vars, ~removed'
             PROVE  RowsKept' /\ CopyKept' /\ registration'.pc # "dead"
  BY DEF LivesInv
<1>1. \/ Next /\ UNCHANGED removed /\ (\A r \in nodes : ~Leave(r))
      \/ UNCHANGED vars
  BY DEF Next, Register, vars, flags, RequestNext, Announce, RequestPost,
         RequestSend, RegisterReceive, RegisterDelete, RegisterGet,
         RegisterExists, RegisterMerge, Answer, Change, Lose, Leave,
         CleanupJobs, Restart
<1>2. RowsKept /\ CopyKept /\ registration.pc # "dead"
  BY <1>1 DEF LivesInv, vars, flags
<1>3. CASE UNCHANGED <<nodes, registration>>
  BY <1>2, <1>3 DEF RowsKept, CopyKept, GetNode
<1>4. CASE UNCHANGED nodes /\ registration'.pc \in {"receive", "delete", "get"}
  BY <1>2, <1>4 DEF RowsKept, CopyKept, GetNode
<1>5. ASSUME NEW a \in answers, RegisterReceive(a)
      PROVE  RowsKept' /\ CopyKept' /\ registration'.pc # "dead"
  BY <1>3, <1>4, <1>5 DEF RegisterReceive, rows
<1>6. CASE RegisterDelete
  <2>1. registration \in Holding
    BY <1>6, RegistrationCases DEF RegisterDelete
  <2> QED
    BY <1>4, <1>6, <2>1 DEF RegisterDelete, rows, Holding
<1>7. CASE RegisterGet
  <2>1. registration \in Holding
    BY <1>7, RegistrationCases DEF RegisterGet
  <2>2. \E r \in nodes : GetNode(registration.at, r)
    BY <1>2, <2>1 DEF RowsKept, Holding
  <2>3. CASE registration' = Receiving
    BY <1>4, <1>7, <2>3 DEF RegisterGet, rows, Receiving
  <2>4. ASSUME NEW r \in nodes, GetNode(registration.at, r),
               registration' =
                 [pc   |-> "exists",
                  copy |-> [r EXCEPT !.list = registration.list]]
        PROVE  RowsKept' /\ CopyKept' /\ registration'.pc # "dead"
    <3>1. r \in Row /\ r.at = registration.at
      BY <2>4 DEF GetNode, TypeOK
    <3>2. /\ registration'.pc = "exists"
          /\ registration'.copy.at = registration.at
          /\ registration'.copy.id = r.id
      BY <2>4, <3>1 DEF Row
    <3>3. nodes' = nodes
      BY <1>7 DEF RegisterGet, rows
    <3> QED
      BY <1>2, <2>4, <3>2, <3>3 DEF RowsKept, CopyKept, GetNode
  <2> QED
    BY <1>7, <2>2, <2>3, <2>4 DEF RegisterGet
<1>8. CASE RegisterExists
  <2>1. registration \in Copying
    BY <1>8, RegistrationCases DEF RegisterExists
  <2>2. CASE registration' = Receiving
    BY <1>4, <1>8, <2>2 DEF RegisterExists, rows, Receiving
  <2>3. CASE registration' = [registration EXCEPT !.pc = "merge"]
    <3>1. registration'.pc = "merge" /\ registration'.copy = registration.copy
      BY <2>1, <2>3 DEF Copying
    <3>2. nodes' = nodes /\ registration.pc = "exists"
      BY <1>8 DEF RegisterExists, rows
    <3> QED
      BY <1>2, <3>1, <3>2 DEF RowsKept, CopyKept, GetNode
  <2> QED
    BY <1>8, <2>2, <2>3 DEF RegisterExists
<1>9. CASE RegisterMerge
  BY <1>2, <1>9, MergeKeeps DEF RegisterMerge, CopyKept, Receiving
<1>10. ASSUME NEW n \in Nodes, Announce(n) PROVE FALSE
  BY <1>2, <1>10 DEF Announce, RowsKept, GetNode
<1>11. CASE RequestPost \/ RequestSend \/ Lose \/ CleanupJobs \/ Restart
              \/ UNCHANGED vars
  BY <1>3, <1>11 DEF RequestPost, RequestSend, Lose, CleanupJobs, Restart,
                     rows, vars
<1> QED
  BY <1>1, <1>3, <1>5, <1>6, <1>7, <1>8, <1>9, <1>10, <1>11
     DEF Next, Register, rows, RequestNext, Answer, Change

\* However answers are lost, confused or late, the registration goes on as
\* long as no row is removed.
THEOREM RegistrationLivesCorrect == Spec => []RegistrationLives
<1>1. LivesInv => RegistrationLives
  BY DEF LivesInv, RegistrationLives
<1> QED
  BY <1>1, InitType, NextType, InitLives, LivesStep, PTL DEF Spec
=============================================================================
