-------------------------- MODULE Processes_proofs --------------------------
(***************************************************************************)
(* Proofs about Processes, for any number of processes, of requests, and   *)
(* of requests served together.                                            *)
(***************************************************************************)
EXTENDS Processes, TLAPS

-----------------------------------------------------------------------------
(***************************************************************************)
(* The type invariant.                                                     *)
(***************************************************************************)
CountCall == [pc : {"count"}, pid : Nat]

PostCall == [pc : {"add", "start"}, process : Proc]

StopCall == [pc : {"stop", "null", "remove", "clear"}, process : Proc,
             then : {"remove", "clear"}, index : Nat \ {0}, list : Seq(Proc)]

\* What a request holds at each of its steps.
LEMMA CallKinds ==
  ASSUME NEW call \in Call
  PROVE  /\ call.pc = "count" => call \in CountCall
         /\ call.pc \in {"add", "start"} => call \in PostCall
         /\ call.pc \in {"stop", "null", "remove", "clear"} => call \in StopCall
<1>1. Call = {Free} \cup CountCall \cup PostCall \cup StopCall
  BY DEF Call, CountCall, PostCall, StopCall
<1>2. CASE call = Free
  BY <1>2 DEF Free
<1>3. CASE call \in CountCall
  BY <1>3 DEF CountCall
<1>4. CASE call \in PostCall
  BY <1>4 DEF PostCall
<1>5. CASE call \in StopCall
  BY <1>5 DEF StopCall
<1> QED
  BY <1>1, <1>2, <1>3, <1>4, <1>5

\* A request that starts, goes on or returns is a request.
LEMMA CallSteps ==
  ASSUME calls \in [Client -> Call], NEW c \in Client
  PROVE  /\ \A to \in {"add", "start"} :
              calls[c] \in PostCall /\ Goto(c, to) => calls' \in [Client -> Call]
         /\ \A to \in {"stop", "null", "remove", "clear"} :
              calls[c] \in StopCall /\ Goto(c, to) => calls' \in [Client -> Call]
         /\ Return(c) => calls' \in [Client -> Call]
         /\ \A call \in CountCall \cup PostCall \cup StopCall :
              calls' = [calls EXCEPT ![c] = call] => calls' \in [Client -> Call]
<1>1. Call = {Free} \cup CountCall \cup PostCall \cup StopCall
  BY DEF Call, CountCall, PostCall, StopCall
<1>2. ASSUME NEW to \in {"add", "start"}, calls[c] \in PostCall
      PROVE  [calls[c] EXCEPT !.pc = to] \in PostCall
  BY <1>2 DEF PostCall
<1>3. ASSUME NEW to \in {"stop", "null", "remove", "clear"}, calls[c] \in StopCall
      PROVE  [calls[c] EXCEPT !.pc = to] \in StopCall
  BY <1>3 DEF StopCall
<1>4. \A to : Goto(c, to) =>
                calls' = [calls EXCEPT ![c] = [calls[c] EXCEPT !.pc = to]]
  BY DEF Goto
<1> QED
  BY <1>1, <1>2, <1>3, <1>4 DEF Return

\* What a request holds that is about to stop the process at an index.
LEMMA StoppingType ==
  ASSUME listed \in Seq(Proc), NEW i \in DOMAIN listed,
         NEW then \in {"remove", "clear"}
  PROVE  Stopping(i, then) \in StopCall
BY DEF Stopping, StopCall

\* What is left of a list without the element at an index.
LEMMA RemoveAtType ==
  ASSUME NEW s \in Seq(Proc), NEW i \in DOMAIN s
  PROVE  RemoveAt(s, i) \in Seq(Proc)
BY DEF RemoveAt

\* A message is one more in the inboxes that it reaches, and none elsewhere.
LEMMA DeliverAdds ==
  ASSUME inbox \in [Proc -> Nat], NEW topics, Deliver(topics)
  PROVE  /\ inbox' \in [Proc -> Nat]
         /\ \A p \in Proc : inbox'[p] >= inbox[p]
         /\ \A p \in Proc :
              Connected(p) /\ WaitsOn[p] \in topics => inbox'[p] > 0
<1>1. \A p \in Proc : inbox[p] + 1 \in Nat /\ inbox[p] + 1 > inbox[p] /\ inbox[p] >= inbox[p]
  OBVIOUS
<1> QED
  BY <1>1 DEF Deliver

\* A step of a request that posts keeps the types.
LEMMA PostType ==
  ASSUME TypeOK, NEW c \in Client, Post(c)
  PROVE  TypeOK'
<1> USE DEF TypeOK, At
<1>1. /\ calls[c].pc = "count" => calls[c] \in CountCall
      /\ calls[c].pc \in {"add", "start"} => calls[c] \in PostCall
  BY CallKinds
<1>2. CASE PostRead(c)
  <2>1. [pc |-> "count", pid |-> pidCounter + 1] \in CountCall
    BY DEF CountCall
  <2>2. calls' \in [Client -> Call]
    BY <1>2, <2>1, CallSteps DEF PostRead
  <2> QED
    BY <1>2, <2>2 DEF PostRead, Request, shared
<1>3. ASSUME NEW p \in Proc, PostNew(c, p) PROVE TypeOK'
  <2>1. calls[c].pid \in Nat /\ [pc |-> "add", process |-> p] \in PostCall
    BY <1>1, <1>3 DEF PostNew, CountCall, PostCall
  <2> QED
    BY <1>3, <2>1, CallSteps DEF PostNew, ThreadPC, counts
<1>4. CASE PostAdd(c)
  <2>1. calls[c] \in PostCall /\ calls' \in [Client -> Call]
    BY <1>1, <1>4, CallSteps DEF PostAdd
  <2>2. calls[c].process \in Proc
    BY <2>1 DEF PostCall
  <2>3. listed' = Append(listed, calls[c].process) \/ UNCHANGED listed
    BY <1>4 DEF PostAdd
  <2>4. listed' \in Seq(Proc)
    <3>1. listed \in Seq(Proc)
      OBVIOUS
    <3>2. Append(listed, calls[c].process) \in Seq(Proc)
      BY ONLY <2>2, <3>1
    <3> QED
      BY <2>3, <3>1, <3>2
  <2> QED
    BY <1>4, <2>1, <2>4 DEF PostAdd, counts
<1>5. CASE PostStart(c)
  BY <1>1, <1>5, CallSteps
  DEF PostStart, PostCall, RunnableState, ThreadPC, shared, counts
<1> QED
  BY <1>2, <1>3, <1>4, <1>5 DEF Post

\* A step of a request that stops keeps the types.
LEMMA StopType ==
  ASSUME TypeOK, NEW c \in Client, Stop(c)
  PROVE  TypeOK'
<1> USE DEF TypeOK, At
<1>1. calls[c].pc \in {"stop", "null", "remove", "clear"} => calls[c] \in StopCall
  BY CallKinds
<1>2. CASE CallDelete(c)
  <2>1. PICK i \in DOMAIN listed :
          calls' = [calls EXCEPT ![c] = Stopping(i, "remove")]
    BY <1>2 DEF CallDelete
  <2>2. calls' \in [Client -> Call]
    BY <2>1, StoppingType, CallSteps
  <2> QED
    BY <1>2, <2>2 DEF CallDelete, Request, shared
<1>3. CASE CallClear(c)
  <2>1. 1 \in DOMAIN listed
    BY <1>3 DEF CallClear
  <2>2. calls' \in [Client -> Call]
    BY <1>3, <2>1, StoppingType, CallSteps DEF CallClear
  <2> QED
    BY <1>3, <2>2 DEF CallClear, Request, shared
<1>4. CASE StopState(c)
  BY <1>1, <1>4, CallSteps DEF StopState, StopCall, RunnableState, shared, counts
<1>5. CASE StopNull(c)
  <2>1. inbox' \in [Proc -> Nat]
    BY <1>5, DeliverAdds DEF StopNull
  <2>2. calls' \in [Client -> Call]
    BY <1>1, <1>5, CallSteps DEF StopNull, StopCall
  <2> QED
    BY <1>5, <2>1, <2>2 DEF StopNull, shared, counts
<1>6. CASE RemoveFromList(c)
  <2>1. listed' \in Seq(Proc)
    BY <1>6, RemoveAtType DEF RemoveFromList
  <2> QED
    BY <1>6, <2>1, CallSteps DEF RemoveFromList, counts
<1>7. CASE NextOrClear(c)
  <2> DEFINE i == calls[c].index
  <2>1. i \in Nat \ {0}
    BY <1>1, <1>7 DEF NextOrClear, StopCall
  <2>2. CASE /\ i < Len(listed)
             /\ calls' = [calls EXCEPT ![c] = Stopping(i + 1, "clear")]
             /\ UNCHANGED listed
    <3>1. i + 1 \in DOMAIN listed
      BY <2>1, <2>2
    <3> QED
      BY <1>7, <2>2, <3>1, StoppingType, CallSteps DEF NextOrClear, counts
  <2>3. CASE Return(c) /\ (UNCHANGED listed \/ listed' = <<>>)
    <3>1. calls' \in [Client -> Call]
      BY <2>3, CallSteps
    <3>2. <<>> \in Seq(Proc)
      OBVIOUS
    <3>3. listed' \in Seq(Proc)
      BY <2>3, <3>2
    <3> QED
      BY <1>7, <3>1, <3>3 DEF NextOrClear, counts
  <2> QED
    BY <1>7, <2>2, <2>3 DEF NextOrClear
<1> QED
  BY <1>2, <1>3, <1>4, <1>5, <1>6, <1>7 DEF Stop

\* A step of a thread keeps the types.
LEMMA ThreadType ==
  ASSUME TypeOK, NEW p \in Proc, ThreadStep(p) \/ Fail(p)
  PROVE  TypeOK'
<1> USE DEF TypeOK
<1>1. UNCHANGED <<shared, calls, counts>>
  BY DEF ThreadStep, Run, Loop, Work, Wait, Receive, Fail, Finally, Stopped
<1>2. runState' \in [Proc -> RunnableState]
  BY DEF ThreadStep, Run, Loop, Work, Wait, Receive, Fail, Finally, Stopped,
         RunnableState
<1>3. inbox' \in [Proc -> Nat]
  BY DEF ThreadStep, Run, Loop, Work, Wait, Receive, Fail, Finally, Stopped
<1>4. \E to \in ThreadPC : thread' = [thread EXCEPT ![p] = to]
  BY DEF ThreadStep, Run, Loop, Work, Wait, Receive, Fail, Finally, Stopped,
         Step, ThreadPC
<1> QED
  BY <1>1, <1>2, <1>3, <1>4 DEF shared, counts

LEMMA InitType == Init => TypeOK
BY DEF Init, TypeOK, RunnableState, ThreadPC, Call

LEMMA TypeStep == TypeOK /\ [Next]_vars => TypeOK'
<1> SUFFICES ASSUME TypeOK, [Next]_vars PROVE TypeOK'
  OBVIOUS
<1>1. ASSUME NEW topic, Publish(topic) PROVE TypeOK'
  <2>1. inbox' \in [Proc -> Nat]
    BY <1>1, DeliverAdds DEF Publish, TypeOK
  <2> QED
    BY <1>1, <2>1 DEF Publish, TypeOK, shared
<1>2. CASE UNCHANGED vars
  BY <1>2 DEF vars, shared, counts, TypeOK
<1> QED
  BY <1>1, <1>2, PostType, StopType, ThreadType DEF Next

\* The variables keep their types: the steps of a request and of a thread
\* apply to what they find, whatever the other requests did to the list.
THEOREM TypeCorrect == Spec => []TypeOK
BY InitType, TypeStep, PTL DEF Spec
-----------------------------------------------------------------------------
(***************************************************************************)
(* No wakeup is lost.  The state is set before the null message is sent,   *)
(* and the thread reads the state before it goes to receive: a thread that *)
(* did not see STOPPING has the null message in front of it.               *)
(***************************************************************************)

\* The process has a message to receive, or is about to have one.
Woken(p) == \/ inbox[p] > 0
            \/ \E c \in Client : At(c, "null") /\ calls[c].process = p

\* A thread that is past the check of the loop.
PastCheck(p) == thread[p] \in {"process", "receive"} /\ WaitsOn[p] # "nothing"

WakeInv ==
  /\ TypeOK
  /\ \A p \in Proc : /\ PastCheck(p) /\ runState[p] = "STOPPING" => Woken(p)
                     /\ thread[p] = "receive" => WaitsOn[p] # "nothing"

\* A step of a thread: it goes past the check only if it was not told to stop.
LEMMA ThreadWakes ==
  ASSUME WakeInv, NEW p \in Proc, ThreadStep(p) \/ Fail(p)
  PROVE  WakeInv'
<1> USE DEF WakeInv, PastCheck, Woken
<1>1. TypeOK'
  BY ThreadType
<1>2. UNCHANGED calls
  BY DEF ThreadStep, Run, Loop, Work, Wait, Receive, Fail, Finally, Stopped
<1>3. \A q \in Proc \ {p} : /\ thread'[q] = thread[q]
                            /\ runState'[q] = runState[q]
                            /\ inbox'[q] = inbox[q]
  BY DEF ThreadStep, Run, Loop, Work, Wait, Receive, Fail, Finally, Stopped,
         Step, TypeOK
<1>4. ASSUME PastCheck(p)', runState'[p] = "STOPPING"
      PROVE  Woken(p)'
  <2>1. thread'[p] \in {"process", "receive"}
    BY <1>4
  <2>2. CASE Loop(p)
    BY <1>4, <2>1, <2>2 DEF Loop, Step, TypeOK
  <2>3. CASE Wait(p)
    <3>1. PastCheck(p) /\ runState[p] = "STOPPING" /\ UNCHANGED <<inbox, calls>>
      BY <1>4, <2>3 DEF Wait, Step
    <3> QED
      BY <3>1 DEF At
  <2>4. ~Loop(p) /\ ~Wait(p) => thread'[p] \notin {"process", "receive"}
    BY DEF ThreadStep, Run, Work, Receive, Fail, Finally, Stopped, Step, TypeOK
  <2> QED
    BY <2>1, <2>2, <2>3, <2>4
<1>5. thread'[p] = "receive" => WaitsOn[p] # "nothing"
  BY DEF ThreadStep, Run, Loop, Work, Wait, Receive, Fail, Finally, Stopped,
         Step, TypeOK
<1> QED
  BY <1>1, <1>2, <1>3, <1>4, <1>5 DEF At

\* A step of a request to stop: the state, then the null message.
LEMMA StopWakes ==
  ASSUME WakeInv, NEW c \in Client, Stop(c)
  PROVE  WakeInv'
<1>1. TypeOK' /\ TypeOK
  BY StopType DEF WakeInv
<1>2. UNCHANGED thread
  BY DEF Stop, CallDelete, CallClear, StopState, StopNull, RemoveFromList,
         NextOrClear
<1>3. \A d \in Client \ {c} : calls'[d] = calls[d]
  BY <1>1 DEF Stop, CallDelete, CallClear, StopState, StopNull, RemoveFromList,
         NextOrClear, Goto, Return, TypeOK
<1>4. CASE StopState(c)
  <2>1. calls[c] \in StopCall
    BY <1>1, <1>4, CallKinds DEF StopState, At, TypeOK
  <2>2. /\ calls'[c].pc = "null" /\ calls'[c].process = calls[c].process
        /\ UNCHANGED inbox
        /\ \A p \in Proc \ {calls[c].process} : runState'[p] = runState[p]
    BY <1>1, <1>4, <2>1 DEF StopState, Goto, StopCall, TypeOK
  <2>3. calls[c].pc = "stop"
    BY <1>4 DEF StopState, At
  <2> QED
    BY <1>1, <1>2, <1>3, <2>2, <2>3 DEF WakeInv, PastCheck, Woken, At
<1>5. CASE StopNull(c)
  <2> DEFINE p == calls[c].process
  <2>1. p \in Proc
    BY <1>1, <1>5, CallKinds DEF StopNull, At, TypeOK, StopCall
  <2>2. CASE PastCheck(p)
    <3>1. Connected(p) /\ WaitsOn[p] \in Consumed(p)
      BY <2>2 DEF PastCheck, Connected, Consumed
    <3>2. Deliver(Consumed(p))
      BY <1>5, <3>1 DEF StopNull
    <3>3. inbox'[p] > 0 /\ \A q \in Proc : inbox'[q] >= inbox[q]
      BY <1>1, <2>1, <3>1, <3>2, DeliverAdds DEF TypeOK
    <3>4. \A q \in Proc : inbox[q] > 0 => inbox'[q] > 0
      BY <1>1, <3>3 DEF TypeOK
    <3> QED
      BY <1>1, <1>2, <1>3, <1>5, <3>3, <3>4
      DEF WakeInv, PastCheck, Woken, At, StopNull
  <2>3. CASE ~PastCheck(p)
    <3>1. \A q \in Proc : inbox[q] > 0 => inbox'[q] > 0
      BY <1>1, <1>5, DeliverAdds DEF StopNull, TypeOK
    <3> QED
      BY <1>1, <1>2, <1>3, <1>5, <2>3, <3>1
      DEF WakeInv, PastCheck, Woken, At, StopNull
  <2> QED
    BY <2>2, <2>3
<1>6. CASE CallDelete(c) \/ CallClear(c) \/ RemoveFromList(c) \/ NextOrClear(c)
  <2>1. UNCHANGED <<runState, inbox>>
    BY <1>6 DEF CallDelete, CallClear, RemoveFromList, NextOrClear
  <2>2. calls[c].pc # "null"
    BY <1>6 DEF CallDelete, CallClear, RemoveFromList, NextOrClear, Request, At,
       Free
  <2> QED
    BY <1>1, <1>2, <1>3, <2>1, <2>2 DEF WakeInv, PastCheck, Woken, At
<1> QED
  BY <1>4, <1>5, <1>6 DEF Stop

\* A step of a request to post: no thread that runs is touched.
LEMMA PostWakes ==
  ASSUME WakeInv, NEW c \in Client, Post(c)
  PROVE  WakeInv'
<1>1. TypeOK' /\ TypeOK
  BY PostType DEF WakeInv
<1>2. UNCHANGED inbox
  BY DEF Post, PostRead, PostNew, PostAdd, PostStart
<1>3. \A d \in Client \ {c} : calls'[d] = calls[d]
  BY <1>1 DEF Post, PostRead, PostNew, PostAdd, PostStart, Goto, Return, TypeOK
<1>4. calls[c].pc # "null"
  BY DEF Post, PostRead, PostNew, PostAdd, PostStart, Request, At, Free
<1>5. \A p \in Proc :
        \/ thread'[p] = thread[p] /\ runState'[p] = runState[p]
        \/ thread'[p] \in {"new", "run"}
  BY <1>1 DEF Post, PostRead, PostNew, PostAdd, PostStart, TypeOK
<1> QED
  BY <1>1, <1>2, <1>3, <1>4, <1>5 DEF WakeInv, PastCheck, Woken, At

\* However many requests stop however many processes at once, a process told
\* to stop does not wait for a message that nobody is about to send.
THEOREM NoLostWakeupCorrect == Spec => []NoLostWakeup
<1>1. Init => WakeInv
  BY InitType DEF Init, WakeInv, PastCheck
<1>2. WakeInv /\ [Next]_vars => WakeInv'
  <2> SUFFICES ASSUME WakeInv, [Next]_vars PROVE WakeInv'
    OBVIOUS
  <2>1. TypeOK' /\ TypeOK
    BY TypeStep DEF WakeInv
  <2>2. ASSUME NEW topic, Publish(topic) PROVE WakeInv'
    <3>1. \A q \in Proc : inbox[q] > 0 => inbox'[q] > 0
      BY <2>1, <2>2, DeliverAdds DEF Publish, TypeOK
    <3> QED
      BY <2>1, <2>2, <3>1 DEF Publish, WakeInv, PastCheck, Woken, At
  <2>3. CASE UNCHANGED vars
    BY <2>1, <2>3 DEF vars, shared, WakeInv, PastCheck, Woken, At
  <2> QED
    BY <2>2, <2>3, PostWakes, StopWakes, ThreadWakes DEF Next
<1>3. WakeInv => NoLostWakeup
  BY DEF WakeInv, PastCheck, Woken, NoLostWakeup
<1> QED
  BY <1>1, <1>2, <1>3, PTL DEF Spec
=============================================================================
