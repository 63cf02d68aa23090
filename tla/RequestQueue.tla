---------------------------- MODULE RequestQueue ----------------------------
(* The queue of the HTTP service of MnnLlmChat (RequestQueueManager.kt): each *)
(* request is put into an unlimited channel by the coroutine that serves it,  *)
(* which then waits; one coroutine takes the requests out and runs their      *)
(* tasks. The size of the queue is asked for while a request is submitted,    *)
(* after each task and by /v1/queue/status; the answer is found by taking the *)
(* first request out and sending it again.                                    *)
EXTENDS Naturals, Sequences

CONSTANT Requests, Nobody

ASSUME QueueAssumption == Nobody \notin Requests /\ {"proc", "stat", "clear"} \cap Requests = {}

VARIABLES
    queue,      \* what is in the channel
    proc,       \* the processor: about to receive, suspended there, in a task,
                \* or asking for the size after one
    task,        \* the request whose task is run
    status,     \* where the coroutine of each request is: "over" when it was given
                \* an answer or an error, or will never be
    mutex,      \* who holds queueMutex
    hand        \* the request each of them took out to ask for the size

queueVars == <<queue, proc, task, status, mutex, hand>>

Askers == Requests \cup {"proc", "stat"}

QueueInit ==
    /\ queue = <<>> /\ proc = "ready" /\ task = Nobody
    /\ status = [r \in Requests |-> "new"]
    /\ mutex = Nobody
    /\ hand = [a \in Askers |-> Nobody]

(* Mutant: the receiver is not woken. *)
DeliverAsleep(r) == queue' = Append(queue, r) /\ UNCHANGED <<proc, task>>

(* Channel.send: a receiver that is suspended gets the element at once. *)
Deliver(r) ==
    IF proc = "suspended"
    THEN proc' = "task" /\ task' = r /\ UNCHANGED queue
    ELSE queue' = Append(queue, r) /\ UNCHANGED <<proc, task>>

(* Mutant: the request is only looked at. *)
TakeOutPeeks(a) ==
    IF queue = <<>> THEN UNCHANGED <<queue, hand>>
    ELSE hand' = [hand EXCEPT ![a] = Head(queue)] /\ UNCHANGED queue

(* getQueueSize, first half: tryReceive. *)
TakeOut(a) ==
    IF queue = <<>> THEN UNCHANGED <<queue, hand>>
    ELSE hand' = [hand EXCEPT ![a] = Head(queue)] /\ queue' = Tail(queue)

(* getQueueSize, second half: what was taken out is sent again. *)
PutBack(a) ==
    /\ hand[a] # Nobody
    /\ hand' = [hand EXCEPT ![a] = Nobody]
    /\ Deliver(hand[a])
    /\ UNCHANGED <<status, mutex>>

(* submitRequest: under the mutex the size is logged, then the request sent. *)
Submit(r) ==
    /\ status[r] = "new" /\ mutex = Nobody
    /\ mutex' = r
    /\ status' = [status EXCEPT ![r] = "sending"]
    /\ TakeOut(r)
    /\ UNCHANGED <<proc, task>>

SendRequest(r) ==
    /\ status[r] = "sending" /\ hand[r] = Nobody
    /\ Deliver(r)
    /\ mutex' = Nobody
    /\ status' = [status EXCEPT ![r] = "waiting"]
    /\ UNCHANGED hand

(* The loop of startQueueProcessor. *)
Receive ==
    /\ proc = "ready"
    /\ IF queue = <<>>
       THEN proc' = "suspended" /\ UNCHANGED <<queue, task>>
       ELSE proc' = "task" /\ task' = Head(queue) /\ queue' = Tail(queue)
    /\ UNCHANGED <<status, mutex, hand>>

(* The end of a task in processRequest: the coroutine of the request goes on; *)
(* after a task that did not fail the size is logged.                         *)
TaskDone ==
    /\ proc = "task"
    /\ status' = [status EXCEPT ![task] = "over"]
    /\ task' = Nobody
    /\ proc' = "size"
    /\ TakeOut("proc")
    /\ UNCHANGED <<mutex>>

(* The task, or the callback after it, threw: onError goes to the coroutine. *)
TaskFailed ==
    /\ proc = "task"
    /\ status' = [status EXCEPT ![task] = "over"]
    /\ task' = Nobody
    /\ proc' = "ready"
    /\ UNCHANGED <<queue, mutex, hand>>

NextTurn ==
    /\ proc = "size" /\ hand["proc"] = Nobody
    /\ proc' = "ready"
    /\ UNCHANGED <<queue, task, status, mutex, hand>>

(* getQueueStats, for /v1/queue/status. *)
AskStats ==
    /\ hand["stat"] = Nobody /\ queue # <<>>
    /\ TakeOut("stat")
    /\ UNCHANGED <<proc, task, status, mutex>>

(* clearQueue, for /v1/queue/clear: what is in the channel is dropped; those  *)
(* who wait for it are not told.                                              *)
ClearBegin ==
    /\ mutex = Nobody /\ queue # <<>>
    /\ mutex' = "clear"
    /\ UNCHANGED <<queue, proc, task, status, hand>>

ClearStep ==
    /\ mutex = "clear"
    /\ IF queue = <<>>
       THEN mutex' = Nobody /\ UNCHANGED <<queue, status>>
       ELSE /\ status' = [status EXCEPT ![Head(queue)] = "over"]
            /\ queue' = Tail(queue)
            /\ UNCHANGED mutex
    /\ UNCHANGED <<proc, task, hand>>

(* The process dies, and with it everybody who waits. *)
QueueKill ==
    /\ queue' = <<>> /\ proc' = "ready" /\ task' = Nobody /\ mutex' = Nobody
    /\ hand' = [a \in Askers |-> Nobody]
    /\ status' = [r \in Requests |->
                    IF status[r] \in {"sending", "waiting"} THEN "over" ELSE status[r]]

Submitting(r) == Submit(r) \/ PutBack(r) \/ SendRequest(r)
Turning == Receive \/ PutBack("proc") \/ NextTurn

QueueNext ==
    \/ \E r \in Requests : Submitting(r)
    \/ Turning \/ TaskDone \/ TaskFailed
    \/ AskStats \/ PutBack("stat")
    \/ ClearBegin \/ ClearStep \/ QueueKill

QueueSpec == QueueInit /\ [][QueueNext]_queueVars

-----------------------------------------------------------------------------
(* Properties. *)

(* Every variable has its type. *)
QueueTypeOK ==
    /\ queue \in Seq(Requests)
    /\ proc \in {"ready", "suspended", "task", "size"}
    /\ task \in Requests \cup {Nobody}
    /\ status \in [Requests -> {"new", "sending", "waiting", "over"}]
    /\ mutex \in Requests \cup {Nobody, "clear"}
    /\ hand \in [Askers -> Requests \cup {Nobody}]

(* A request whose coroutine waits is in exactly one place, and only once: in *)
(* the channel, in the task that runs, or in the hand of somebody who asks    *)
(* for the size; no other request is anywhere. So none is lost or run twice,  *)
(* although four parties take requests out and two put them back; and none is *)
(* in the channel while the processor sleeps there.                           *)
Places(r) ==
    {<<"queue", i>> : i \in {j \in 1..Len(queue) : queue[j] = r}}
    \cup (IF task = r THEN {<<"task", 0>>} ELSE {})
    \cup {<<"hand", a>> : a \in {b \in Askers : hand[b] = r}}

EachInOnePlace ==
    /\ \A r \in Requests :
        IF status[r] = "waiting" THEN \E p \in Places(r) : Places(r) = {p}
        ELSE Places(r) = {}
    /\ proc = "suspended" => queue = <<>>
=============================================================================
