--------------------------- MODULE ChatApp_proofs ---------------------------
(* Proofs about ChatApp, for any number of openings, prompts, tokens and      *)
(* requests of the HTTP service, and for hasty users, too, but for what is    *)
(* said of the conversation.                                                  *)
EXTENDS ChatApp, WellFoundedInduction, TLAPS

-----------------------------------------------------------------------------
(* The invariant of the queue. *)

(* The processor has a task exactly while it is in one, and takes a request   *)
(* out only after one; it sleeps only at an empty channel.                    *)
ProcOK ==
    /\ proc = "task" <=> task # Nobody
    /\ hand["proc"] # Nobody => proc = "size"
    /\ proc = "suspended" => queue = <<>>

(* A coroutine has another request in its hand only while it submits its own. *)
HandsOK == \A r \in Requests : hand[r] # Nobody => status[r] = "sending"

Stored(r) == \E i \in 1..Len(queue) : queue[i] = r
Held(r) == \E a \in Askers : hand[a] = r
Somewhere(r) == Stored(r) \/ Held(r) \/ task = r

(* No request is in two places.                                               *)
Apart ==
    /\ \A i, j \in 1..Len(queue) : queue[i] = queue[j] => i = j
    /\ \A a, b \in Askers : hand[a] = hand[b] /\ hand[a] # Nobody => a = b
    /\ \A i \in 1..Len(queue) : queue[i] # task
    /\ \A i \in 1..Len(queue), a \in Askers : queue[i] # hand[a]
    /\ \A a \in Askers : hand[a] = task => task = Nobody

(* Those that are somewhere are those whose coroutines wait.                  *)
WaitsOK == \A r \in Requests : status[r] = "waiting" <=> Somewhere(r)

QueueInv == QueueTypeOK /\ ProcOK /\ HandsOK /\ Apart /\ WaitsOK

-----------------------------------------------------------------------------
(* The invariant of the session. *)

Inside == {"decode", "exit", "inner", "request", "test"}

(* Who is inside the monitor is where one is inside.                          *)
MonitorOK == \A t \in Threads : owner = t <=> pc[t] \in Inside

(* A session that is decoded exists, and its answer is within the limit.      *)
DecodeOK == \A t \in Threads : pc[t] = "decode" => arg[t] \in heap /\ tokens < MaxNewTokens

PtrOK == ptr # 0 => ptr \in heap

(* The clean-up of a chat has ended before the next chat is open; a session   *)
(* is made once for each opening; an answer belongs to a prompt.              *)
CoursesOK ==
    /\ ui = "chat" => pc["clean"] = "idle"
    /\ pc["load"] \in {"queued", "started", "loading"} => made < MaxOpen
    /\ pc["gen"] # "idle" => turn >= 1

ChatInv == ChatTypeOK /\ MonitorOK /\ DecodeOK /\ PtrOK /\ CoursesOK

ApiOK == pc["api"] # "idle" => proc = "task"

AppInv == ChatInv /\ QueueInv /\ ApiOK

-----------------------------------------------------------------------------
(* What the operations of the queue do to the places of the requests.         *)

(* The places are as they should be, whoever is in them.                      *)
PlacesOK ==
    /\ queue \in Seq(Requests) /\ hand \in [Askers -> Requests \cup {Nobody}]
    /\ task \in Requests \cup {Nobody}
    /\ Apart

LEMMA InAskers == \A r \in Requests : r \in Askers /\ r # Nobody
BY QueueAssumption DEF Askers

(* tryReceive by somebody with empty hands, while the task goes on or ends.   *)
LEMMA TakingKeeps ==
    ASSUME QueueTypeOK, Apart, NEW a \in Askers, hand[a] = Nobody, TakeOut(a),
           task' = task \/ task' = Nobody
    PROVE  /\ PlacesOK'
           /\ \A r \in Requests :
                  Somewhere(r)' <=> Somewhere(r) /\ (task = r => task' = task)
<1> USE QueueAssumption DEF QueueTypeOK
<1>1. CASE queue = <<>>
    <2>1. queue' = queue /\ hand' = hand BY <1>1 DEF TakeOut
    <2> QED BY <2>1 DEF PlacesOK, Somewhere, Apart, Stored, Held
<1>2. CASE queue # <<>>
    <2> DEFINE h == Head(queue)
    <2>1. /\ queue' = Tail(queue) /\ hand' = [hand EXCEPT ![a] = h]
          /\ h = queue[1] /\ h \in Requests /\ h # Nobody /\ Len(queue) \in Nat \ {0}
        BY <1>2 DEF TakeOut
    <2>2. /\ queue' \in Seq(Requests) /\ Len(queue') = Len(queue) - 1
          /\ \A i \in 1..Len(queue') : queue'[i] = queue[i + 1]
        BY <1>2, <2>1
    <2>3. /\ hand' \in [Askers -> Requests \cup {Nobody}] /\ hand'[a] = h
          /\ \A b \in Askers : b # a => hand'[b] = hand[b]
        BY <2>1
    <2>4. task' \in Requests \cup {Nobody} OBVIOUS
    <2> HIDE DEF h
    <2>5. Apart' BY <2>1, <2>2, <2>3 DEF Apart
    <2>6. ASSUME NEW r \in Requests PROVE (Stored(r) \/ Held(r))' <=> Stored(r) \/ Held(r)
        <3>1. CASE r = h
            <4>1. Stored(r) BY <2>1, <3>1 DEF Stored
            <4>2. Held(r)' BY <2>3, <3>1 DEF Held
            <4> QED BY <4>1, <4>2
        <3>2. CASE r # h
            <4>1. Held(r)' <=> Held(r) BY <2>3, <3>2 DEF Held
            <4>2. Stored(r) => Stored(r)'
                <5> SUFFICES ASSUME NEW i \in 1..Len(queue), queue[i] = r PROVE Stored(r)'
                    BY DEF Stored
                <5>1. i - 1 \in 1..Len(queue') /\ queue'[i - 1] = r
                    BY <2>1, <2>2, <3>2
                <5> QED BY <5>1 DEF Stored
            <4>3. Stored(r)' => Stored(r)
                <5> SUFFICES ASSUME NEW i \in 1..Len(queue'), queue'[i] = r PROVE Stored(r)
                    BY DEF Stored
                <5>1. i + 1 \in 1..Len(queue) /\ queue[i + 1] = r BY <2>1, <2>2
                <5> QED BY <5>1 DEF Stored
            <4> QED BY <4>1, <4>2, <4>3
        <3> QED BY <3>1, <3>2
    <2>7. ASSUME NEW r \in Requests, r = task PROVE ~Stored(r) /\ ~Held(r)
        BY <2>7 DEF Apart, Stored, Held
    <2>8. \A r \in Requests : Somewhere(r)' <=> Somewhere(r) /\ (task = r => task' = task)
        BY <2>6, <2>7 DEF Somewhere
    <2> QED BY <2>2, <2>3, <2>4, <2>5, <2>8 DEF PlacesOK
<1> QED BY <1>1, <1>2

(* Channel.send of a request that is nowhere but, perhaps, in the hand that   *)
(* gives it away.                                                             *)
LEMMA DeliverKeeps ==
    ASSUME QueueTypeOK, Apart, ProcOK, NEW r \in Requests, Deliver(r),
           ~Stored(r), task # r,
           hand' \in [Askers -> Requests \cup {Nobody}],
           \A a \in Askers : hand'[a] = IF hand[a] = r THEN Nobody ELSE hand[a]
    PROVE  PlacesOK' /\ \A x \in Requests : Somewhere(x)' <=> Somewhere(x) \/ x = r
<1> USE QueueAssumption DEF QueueTypeOK
<1>0. ~Held(r)' /\ \A x \in Requests : x # r => (Held(x)' <=> Held(x)) BY DEF Held
<1>1. CASE proc = "suspended"
    <2>1. task' = r /\ task = Nobody /\ queue' = queue BY <1>1 DEF Deliver, ProcOK
    <2>2. Apart' BY <2>1 DEF Apart, Stored
    <2>3. \A x \in Requests : Stored(x)' <=> Stored(x) BY <2>1 DEF Stored
    <2>4. \A x \in Requests : Somewhere(x)' <=> Somewhere(x) \/ x = r
        BY <1>0, <2>1, <2>3 DEF Somewhere
    <2> QED BY <2>1, <2>2, <2>4 DEF PlacesOK
<1>2. CASE proc # "suspended"
    <2>1. queue' = Append(queue, r) /\ task' = task BY <1>2 DEF Deliver
    <2>2. /\ queue' \in Seq(Requests) /\ Len(queue') = Len(queue) + 1 /\ Len(queue) \in Nat
          /\ queue'[Len(queue) + 1] = r
          /\ \A i \in 1..Len(queue) : queue'[i] = queue[i]
        BY <2>1
    <2>3. \A i \in 1..Len(queue') : i \in 1..Len(queue) \/ i = Len(queue) + 1 BY <2>2
    <2>4. Apart' BY <2>1, <2>2, <2>3 DEF Apart, Stored
    <2>5. Stored(r)' /\ \A x \in Requests : x # r => (Stored(x)' <=> Stored(x))
        BY <2>2, <2>3 DEF Stored
    <2>6. \A x \in Requests : Somewhere(x)' <=> Somewhere(x) \/ x = r
        BY <1>0, <2>1, <2>5 DEF Somewhere
    <2> QED BY <2>1, <2>2, <2>4, <2>6 DEF PlacesOK
<1> QED BY <1>1, <1>2

(* The head of the channel becomes the task, or is dropped.                   *)
LEMMA HeadKeeps ==
    ASSUME QueueTypeOK, Apart, queue # <<>>, queue' = Tail(queue), hand' = hand,
           \/ task' = task
           \/ task = Nobody /\ task' = Head(queue)
    PROVE  /\ PlacesOK'
           /\ \A r \in Requests :
                  Somewhere(r)' <=> Somewhere(r) /\ (r = Head(queue) => task' = r)
<1> USE QueueAssumption DEF QueueTypeOK
<1>1. PICK h \in Requests : /\ h = Head(queue) /\ h = queue[1] /\ h # Nobody
                          /\ Len(queue) \in Nat \ {0}
    OBVIOUS
<1>2. /\ queue' \in Seq(Requests) /\ Len(queue') = Len(queue) - 1
      /\ \A i \in 1..Len(queue') : queue'[i] = queue[i + 1]
    BY <1>1
<1>3. task' \in Requests \cup {Nobody} /\ (task' = task \/ (task = Nobody /\ task' = h))
    BY <1>1
<1>4. Apart' BY <1>1, <1>2, <1>3 DEF Apart
<1>5. Stored(h) /\ ~Held(h) /\ task # h BY <1>1 DEF Stored, Held, Apart
<1>6. \A r \in Requests : Held(r)' <=> Held(r) BY DEF Held
<1>7. ~Stored(h)' BY <1>1, <1>2 DEF Apart, Stored
<1>8. ASSUME NEW r \in Requests, r # h PROVE Stored(r)' <=> Stored(r)
    <2>1. Stored(r) => Stored(r)'
        <3> SUFFICES ASSUME NEW i \in 1..Len(queue), queue[i] = r PROVE Stored(r)'
            BY DEF Stored
        <3>1. i - 1 \in 1..Len(queue') /\ queue'[i - 1] = r BY <1>1, <1>2, <1>8
        <3> QED BY <3>1 DEF Stored
    <2>2. Stored(r)' => Stored(r)
        <3> SUFFICES ASSUME NEW i \in 1..Len(queue'), queue'[i] = r PROVE Stored(r)
            BY DEF Stored
        <3>1. i + 1 \in 1..Len(queue) /\ queue[i + 1] = r BY <1>1, <1>2
        <3> QED BY <3>1 DEF Stored
    <2> QED BY <2>1, <2>2
<1>9. \A r \in Requests : Somewhere(r)' <=> Somewhere(r) /\ (r = h => task' = r)
    BY <1>3, <1>5, <1>6, <1>7, <1>8, <1>1 DEF Somewhere
<1> QED BY <1>2, <1>3, <1>4, <1>9, <1>1 DEF PlacesOK

-----------------------------------------------------------------------------
(* The operations keep the invariant of the queue.                            *)

FlowTypeOK ==
    /\ proc \in {"ready", "suspended", "task", "size"}
    /\ mutex \in Requests \cup {Nobody, "clear"}
    /\ status \in [Requests -> {"new", "sending", "waiting", "over"}]

LEMMA Settles ==
    ASSUME PlacesOK', ProcOK', HandsOK', FlowTypeOK', WaitsOK'
    PROVE  QueueInv'
BY DEF PlacesOK, FlowTypeOK, QueueTypeOK, QueueInv

LEMMA SubmitKeeps ==
    ASSUME QueueInv, NEW r \in Requests, Submit(r)
    PROVE  QueueInv' /\ (proc = "task" => proc' = "task")
<1> USE QueueAssumption
<1>0. QueueTypeOK /\ ProcOK /\ HandsOK /\ Apart /\ WaitsOK BY DEF QueueInv
<1>1. /\ TakeOut(r) /\ task' = task /\ proc' = proc /\ mutex' = r
      /\ status' = [status EXCEPT ![r] = "sending"] /\ status[r] = "new"
    BY <1>0 DEF QueueTypeOK, Submit
<1>2. r \in Askers /\ r # "proc" /\ hand[r] = Nobody
    <2>1. r \in Askers /\ r # "proc" BY InAskers
    <2> QED BY <1>0, <1>1, <2>1 DEF QueueTypeOK, HandsOK, Askers
<1>3. PlacesOK' /\ \A x \in Requests : Somewhere(x)' <=> Somewhere(x)
    BY <1>0, <1>1, <1>2, TakingKeeps
<1>4. \A b \in Askers : b # r => hand'[b] = hand[b]
    BY <1>0, <1>1 DEF QueueTypeOK, TakeOut
<1>9. queue = <<>> => queue' = <<>> BY <1>1 DEF TakeOut
<1>5. ProcOK' BY <1>0, <1>1, <1>2, <1>4, <1>9 DEF QueueTypeOK, ProcOK, Askers
<1>6. HandsOK' BY <1>0, <1>1, <1>4, InAskers DEF QueueTypeOK, HandsOK
<1>7. WaitsOK' BY <1>0, <1>1, <1>3 DEF QueueTypeOK, WaitsOK
<1>8. FlowTypeOK' BY <1>0, <1>1 DEF QueueTypeOK, FlowTypeOK
<1> QED BY <1>8, <1>1, <1>3, <1>5, <1>6, <1>7, Settles

LEMMA SendRequestKeeps ==
    ASSUME QueueInv, NEW r \in Requests, SendRequest(r)
    PROVE  QueueInv' /\ (proc = "task" => proc' = "task")
<1> USE QueueAssumption
<1>0. QueueTypeOK /\ ProcOK /\ HandsOK /\ Apart /\ WaitsOK BY DEF QueueInv
<1>1. /\ Deliver(r) /\ hand' = hand /\ mutex' = Nobody
      /\ status' = [status EXCEPT ![r] = "waiting"] /\ status[r] = "sending"
      /\ hand[r] = Nobody
    BY <1>0 DEF QueueTypeOK, SendRequest
<1>2. ~Stored(r) /\ ~Held(r) /\ task # r
    BY <1>0, <1>1 DEF QueueTypeOK, WaitsOK, Somewhere
<1>8. /\ hand' \in [Askers -> Requests \cup {Nobody}]
      /\ \A a \in Askers : hand'[a] = IF hand[a] = r THEN Nobody ELSE hand[a]
    BY <1>0, <1>1, <1>2 DEF QueueTypeOK, Held
<1>3. PlacesOK' /\ \A x \in Requests : Somewhere(x)' <=> Somewhere(x) \/ x = r
    BY <1>0, <1>1, <1>2, <1>8, DeliverKeeps
<1>4. /\ ProcOK' /\ proc' \in {"ready", "suspended", "task", "size"}
      /\ (proc = "task" => proc' = "task")
    BY <1>0, <1>1 DEF QueueTypeOK, Deliver, ProcOK
<1>5. HandsOK' BY <1>0, <1>1, InAskers DEF QueueTypeOK, HandsOK
<1>6. WaitsOK' BY <1>0, <1>1, <1>3 DEF QueueTypeOK, WaitsOK
<1>7. FlowTypeOK' BY <1>0, <1>1, <1>4 DEF QueueTypeOK, FlowTypeOK
<1> QED BY <1>7, <1>1, <1>3, <1>4, <1>5, <1>6, Settles

LEMMA PutBackKeeps ==
    ASSUME QueueInv, NEW a \in Askers, PutBack(a)
    PROVE  QueueInv' /\ (proc = "task" => proc' = "task")
<1> USE QueueAssumption
<1>0. QueueTypeOK /\ ProcOK /\ HandsOK /\ Apart /\ WaitsOK BY DEF QueueInv
<1>1. PICK r \in Requests : r = hand[a] BY <1>0 DEF QueueTypeOK, PutBack
<1>2. /\ Deliver(r) /\ hand' = [hand EXCEPT ![a] = Nobody]
      /\ status' = status /\ mutex' = mutex
    BY <1>0, <1>1 DEF QueueTypeOK, PutBack
<1>3. ~Stored(r) /\ task # r BY <1>0, <1>1 DEF QueueTypeOK, Apart, Stored
<1>4. \A b \in Askers : hand'[b] = IF hand[b] = r THEN Nobody ELSE hand[b]
    BY <1>0, <1>1, <1>2 DEF QueueTypeOK, Apart
<1>5. hand' \in [Askers -> Requests \cup {Nobody}] BY <1>0, <1>2 DEF QueueTypeOK
<1>6. PlacesOK' /\ \A x \in Requests : Somewhere(x)' <=> Somewhere(x) \/ x = r
    BY <1>0, <1>2, <1>3, <1>4, <1>5, DeliverKeeps
<1>7. Somewhere(r) BY <1>0, <1>1 DEF QueueTypeOK, Somewhere, Held
<1>8. /\ ProcOK' /\ proc' \in {"ready", "suspended", "task", "size"}
      /\ (proc = "task" => proc' = "task")
    BY <1>0, <1>2, <1>4 DEF QueueTypeOK, Deliver, ProcOK, Askers
<1>9. HandsOK' BY <1>0, <1>2, <1>4, InAskers DEF QueueTypeOK, HandsOK
<1>10. WaitsOK' BY <1>0, <1>2, <1>6, <1>7 DEF WaitsOK
<1>11. FlowTypeOK' BY <1>0, <1>2, <1>8 DEF QueueTypeOK, FlowTypeOK
<1> QED BY <1>11, <1>2, <1>6, <1>8, <1>9, <1>10, Settles

LEMMA ReceiveKeeps ==
    ASSUME QueueInv, Receive
    PROVE  QueueInv' /\ (proc = "task" => proc' = "task")
<1> USE QueueAssumption
<1>0. QueueTypeOK /\ ProcOK /\ HandsOK /\ Apart /\ WaitsOK BY DEF QueueInv
<1>1. status' = status /\ mutex' = mutex /\ hand' = hand /\ proc = "ready"
    BY <1>0 DEF QueueTypeOK, Receive
<1>2. HandsOK' BY <1>0, <1>1 DEF QueueTypeOK, HandsOK
<1>3. CASE queue = <<>>
    <2>1. proc' = "suspended" /\ queue' = queue /\ task' = task
        BY <1>0, <1>3 DEF QueueTypeOK, Receive
    <2>2. ProcOK' BY <1>0, <1>1, <1>3, <2>1 DEF QueueTypeOK, ProcOK
    <2>3. Apart' /\ WaitsOK'
        BY <1>0, <1>1, <2>1 DEF QueueTypeOK, Apart, WaitsOK, Somewhere, Stored, Held
    <2> QED BY <1>0, <1>1, <1>2, <2>1, <2>2, <2>3 DEF QueueTypeOK, QueueInv
<1>4. CASE queue # <<>>
    <2>1. /\ proc' = "task" /\ task' = Head(queue) /\ queue' = Tail(queue) /\ task = Nobody
          /\ Head(queue) \in Requests /\ Head(queue) # Nobody
        BY <1>0, <1>1, <1>4 DEF QueueTypeOK, Receive, ProcOK
    <2>2. PlacesOK' /\ \A x \in Requests : Somewhere(x)' <=> Somewhere(x)
        BY <1>0, <1>1, <1>4, <2>1, HeadKeeps
    <2>3. ProcOK' BY <1>0, <1>1, <2>1 DEF QueueTypeOK, ProcOK
    <2>4. FlowTypeOK' BY <1>0, <1>1, <2>1 DEF QueueTypeOK, FlowTypeOK
    <2>5. WaitsOK' BY <1>0, <1>1, <2>2 DEF WaitsOK
    <2> QED BY <1>1, <1>2, <2>2, <2>3, <2>4, <2>5, Settles
<1> QED BY <1>0, <1>3, <1>4 DEF QueueTypeOK

LEMMA TaskDoneKeeps ==
    ASSUME QueueInv, TaskDone PROVE QueueInv'
<1> USE QueueAssumption
<1>0. QueueTypeOK /\ ProcOK /\ HandsOK /\ Apart /\ WaitsOK BY DEF QueueInv
<1>1. /\ proc = "task" /\ status' = [status EXCEPT ![task] = "over"] /\ task' = Nobody
      /\ proc' = "size" /\ TakeOut("proc") /\ mutex' = mutex
    BY <1>0 DEF QueueTypeOK, TaskDone
<1>2. task \in Requests /\ task # Nobody /\ "proc" \in Askers /\ hand["proc"] = Nobody
    BY <1>0, <1>1 DEF QueueTypeOK, ProcOK, Askers
<1>3. PlacesOK' /\ \A x \in Requests : Somewhere(x)' <=> Somewhere(x) /\ x # task
    BY <1>0, <1>1, <1>2, TakingKeeps
<1>4. \A b \in Askers : b # "proc" => hand'[b] = hand[b]
    BY <1>0, <1>1 DEF QueueTypeOK, TakeOut
<1>5. ProcOK' BY <1>0, <1>1 DEF QueueTypeOK, ProcOK
<1>6. status[task] = "waiting" BY <1>0, <1>2 DEF QueueTypeOK, WaitsOK, Somewhere
<1>7. HandsOK' BY <1>0, <1>1, <1>4, <1>6, InAskers DEF QueueTypeOK, HandsOK
<1>8. WaitsOK' BY <1>0, <1>1, <1>2, <1>3 DEF QueueTypeOK, WaitsOK
<1>9. FlowTypeOK' BY <1>0, <1>1 DEF QueueTypeOK, FlowTypeOK
<1> QED BY <1>9, <1>1, <1>3, <1>5, <1>7, <1>8, Settles

LEMMA TaskFailedKeeps ==
    ASSUME QueueInv, TaskFailed PROVE QueueInv'
<1> USE QueueAssumption
<1>0. QueueTypeOK /\ ProcOK /\ HandsOK /\ Apart /\ WaitsOK BY DEF QueueInv
<1>1. /\ proc = "task" /\ status' = [status EXCEPT ![task] = "over"] /\ task' = Nobody
      /\ proc' = "ready" /\ queue' = queue /\ mutex' = mutex /\ hand' = hand
    BY <1>0 DEF QueueTypeOK, TaskFailed
<1>2. task \in Requests /\ task # Nobody BY <1>0, <1>1 DEF QueueTypeOK, ProcOK
<1>3. hand["proc"] = Nobody /\ ProcOK' BY <1>0, <1>1 DEF QueueTypeOK, ProcOK
<1>4. status[task] = "waiting" BY <1>0, <1>2 DEF QueueTypeOK, WaitsOK, Somewhere
<1>5. HandsOK' BY <1>0, <1>1, <1>4 DEF QueueTypeOK, HandsOK
<1>6. Apart' BY <1>0, <1>1 DEF QueueTypeOK, Apart
<1>7. WaitsOK'
    BY <1>0, <1>1, <1>2 DEF QueueTypeOK, WaitsOK, Somewhere, Stored, Held, Apart
<1> QED BY <1>0, <1>1, <1>3, <1>5, <1>6, <1>7 DEF QueueTypeOK, QueueInv

LEMMA AskStatsKeeps ==
    ASSUME QueueInv, AskStats
    PROVE  QueueInv' /\ (proc = "task" => proc' = "task")
<1> USE QueueAssumption
<1>0. QueueTypeOK /\ ProcOK /\ HandsOK /\ Apart /\ WaitsOK BY DEF QueueInv
<1>1. /\ TakeOut("stat") /\ task' = task /\ proc' = proc /\ mutex' = mutex
      /\ status' = status /\ hand["stat"] = Nobody
    BY <1>0 DEF QueueTypeOK, AskStats
<1>2. "stat" \in Askers BY <1>0 DEF QueueTypeOK, Askers
<1>3. PlacesOK' /\ \A x \in Requests : Somewhere(x)' <=> Somewhere(x)
    BY <1>0, <1>1, <1>2, TakingKeeps
<1>4. \A b \in Askers : b # "stat" => hand'[b] = hand[b]
    BY <1>0, <1>1 DEF QueueTypeOK, TakeOut
<1>9. queue = <<>> => queue' = <<>> BY <1>1 DEF TakeOut
<1>5. ProcOK' BY <1>0, <1>1, <1>4, <1>9 DEF QueueTypeOK, ProcOK, Askers
<1>6. HandsOK' BY <1>0, <1>1, <1>4, InAskers DEF QueueTypeOK, HandsOK
<1>7. FlowTypeOK' BY <1>0, <1>1 DEF QueueTypeOK, FlowTypeOK
<1>8. WaitsOK' BY <1>0, <1>1, <1>3 DEF WaitsOK
<1> QED BY <1>1, <1>3, <1>5, <1>6, <1>7, <1>8, Settles

LEMMA ClearStepKeeps ==
    ASSUME QueueInv, ClearStep
    PROVE  QueueInv' /\ (proc = "task" => proc' = "task")
<1> USE QueueAssumption
<1>0. QueueTypeOK /\ ProcOK /\ HandsOK /\ Apart /\ WaitsOK BY DEF QueueInv
<1>1. proc' = proc /\ task' = task /\ hand' = hand BY <1>0 DEF QueueTypeOK, ClearStep
<1>5. queue = <<>> => queue' = <<>> BY DEF ClearStep
<1>2. ProcOK' BY <1>0, <1>1, <1>5 DEF QueueTypeOK, ProcOK
<1>3. CASE queue = <<>>
    <2>1. mutex' = Nobody /\ queue' = queue /\ status' = status
        BY <1>0, <1>3 DEF QueueTypeOK, ClearStep
    <2> QED
        BY <1>0, <1>1, <1>2, <2>1
        DEF QueueTypeOK, QueueInv, HandsOK, Apart, WaitsOK, Somewhere, Stored, Held
<1>4. CASE queue # <<>>
    <2>1. PICK h \in Requests : h = Head(queue) /\ h = queue[1] /\ Len(queue) \in Nat \ {0}
        BY <1>0, <1>4 DEF QueueTypeOK
    <2>2. /\ status' = [status EXCEPT ![h] = "over"] /\ queue' = Tail(queue) /\ mutex' = mutex
        BY <1>0, <1>4, <2>1 DEF QueueTypeOK, ClearStep
    <2>8. task # h BY <1>0, <2>1 DEF Apart
    <2>3. PlacesOK' /\ \A x \in Requests : Somewhere(x)' <=> Somewhere(x) /\ x # h
        BY <1>0, <1>1, <1>4, <2>1, <2>8, <2>2, HeadKeeps
    <2>4. status[h] = "waiting"
        BY <1>0, <2>1 DEF QueueTypeOK, WaitsOK, Somewhere, Stored
    <2>5. HandsOK' BY <1>0, <1>1, <2>2, <2>4 DEF QueueTypeOK, HandsOK
    <2>6. WaitsOK' BY <1>0, <2>1, <2>2, <2>3 DEF QueueTypeOK, WaitsOK
    <2>7. FlowTypeOK' BY <1>0, <1>1, <2>2 DEF QueueTypeOK, FlowTypeOK
    <2> QED BY <1>1, <1>2, <2>2, <2>3, <2>5, <2>6, <2>7, Settles
<1> QED BY <1>0, <1>3, <1>4 DEF QueueTypeOK

LEMMA OthersKeepQueue ==
    ASSUME QueueInv, NextTurn \/ ClearBegin \/ UNCHANGED queueVars
    PROVE  QueueInv' /\ (proc = "task" => proc' = "task")
<1> USE DEF QueueInv, QueueTypeOK
<1>1. queue' = queue /\ task' = task /\ status' = status /\ hand' = hand
    BY DEF NextTurn, ClearBegin, queueVars
<1>2. HandsOK' /\ Apart' /\ WaitsOK'
    BY <1>1 DEF HandsOK, Apart, WaitsOK, Somewhere, Stored, Held
<1>3. ProcOK' /\ (proc = "task" => proc' = "task")
    BY <1>1 DEF NextTurn, ClearBegin, queueVars, ProcOK
<1> QED BY <1>1, <1>2, <1>3 DEF NextTurn, ClearBegin, queueVars

LEMMA QueueInitInv ==
    ASSUME queue = <<>>, proc = "ready", task = Nobody, mutex = Nobody,
           hand = [a \in Askers |-> Nobody],
           status \in [Requests -> {"new", "sending", "waiting", "over"}],
           \A r \in Requests : status[r] # "waiting"
    PROVE  QueueInv
<1> USE QueueAssumption
<1>1. QueueTypeOK BY DEF QueueTypeOK
<1>2. ProcOK BY DEF ProcOK, Askers
<1>3. HandsOK BY InAskers DEF HandsOK
<1>4. Apart BY DEF Apart
<1>5. WaitsOK BY DEF WaitsOK, Somewhere, Stored, Held
<1> QED BY <1>1, <1>2, <1>3, <1>4, <1>5 DEF QueueInv

(* A request that waits has one place.                                        *)
LEMMA OnePlace == QueueInv => EachInOnePlace
<1> SUFFICES ASSUME QueueInv, NEW r \in Requests
             PROVE  IF status[r] = "waiting" THEN \E p \in Places(r) : Places(r) = {p}
                    ELSE Places(r) = {}
    BY DEF EachInOnePlace, QueueInv, ProcOK
<1>0. QueueTypeOK /\ Apart /\ WaitsOK BY DEF QueueInv
<1> DEFINE Spots == {i \in 1..Len(queue) : queue[i] = r}
           Hands == {a \in Askers : hand[a] = r}
<1>1. r # Nobody BY QueueAssumption
<1>2. CASE status[r] # "waiting"
    <2>1. ~Somewhere(r) BY <1>0, <1>2 DEF WaitsOK
    <2>2. Spots = {} /\ Hands = {} /\ task # r BY <2>1 DEF Somewhere, Stored, Held
    <2> QED BY <1>2, <2>2 DEF Places
<1>3. CASE status[r] = "waiting"
    <2>1. Somewhere(r) BY <1>0, <1>3 DEF WaitsOK
    <2>2. CASE Stored(r)
        <3>1. PICK i \in 1..Len(queue) : queue[i] = r BY <2>2 DEF Stored
        <3>2. Spots = {i} /\ Hands = {} /\ task # r BY <1>0, <3>1 DEF Apart
        <3>3. Places(r) = {<<"queue", i>>} BY <3>2 DEF Places
        <3> QED BY <1>3, <3>3
    <2>3. CASE Held(r)
        <3>1. PICK a \in Askers : hand[a] = r BY <2>3 DEF Held
        <3>2. Spots = {} /\ Hands = {a} /\ task # r BY <1>0, <1>1, <3>1 DEF Apart
        <3>3. Places(r) = {<<"hand", a>>} BY <3>2 DEF Places
        <3> QED BY <1>3, <3>3
    <2>4. CASE task = r
        <3>1. Spots = {} /\ Hands = {} BY <1>0, <1>1, <2>4 DEF Apart
        <3>2. Places(r) = {<<"task", 0>>} BY <2>4, <3>1 DEF Places
        <3> QED BY <1>3, <3>2
    <2> QED BY <2>1, <2>2, <2>3, <2>4 DEF Somewhere
<1> QED BY <1>2, <1>3

-----------------------------------------------------------------------------
(* The type of the chat in parts.                                             *)

FlagsOK ==
    /\ ui \in {"list", "chat"}
    /\ ready \in BOOLEAN /\ busy \in BOOLEAN /\ stop \in BOOLEAN
    /\ loading \in BOOLEAN /\ generating \in BOOLEAN /\ releaseRequested \in BOOLEAN

States == {"idle", "queued", "started", "loading", "loaded", "check",
           "release", "inner", "request", "test", "waiting", "woken",
           "reset", "native", "decode", "exit", "posted", "prompt"}

ThreadsOK ==
    /\ pc \in [Threads -> States]
    /\ arg \in [Threads -> 0..MaxOpen]
    /\ owner \in Threads \cup {None}

SessionsOK ==
    /\ ptr \in 0..MaxOpen /\ made \in 0..MaxOpen /\ heap \subseteq 1..made
    /\ late \subseteq 1..MaxOpen

TalkOK ==
    /\ tokens \in 0..MaxNewTokens /\ turn \in 0..MaxTurns /\ missed \subseteq Rows
    /\ hist \in Seq(Remembered) /\ db \in Seq(Rows) /\ saved \in Seq(Rows)

LEMMA ChatTypes ==
    /\ ChatTypeOK <=> FlagsOK /\ ThreadsOK /\ SessionsOK /\ TalkOK
    /\ ChatTypeOK' <=> FlagsOK' /\ ThreadsOK' /\ SessionsOK' /\ TalkOK'
<1>1. ChatTypeOK <=> FlagsOK /\ ThreadsOK /\ SessionsOK /\ TalkOK
    BY DEF ChatTypeOK, FlagsOK, ThreadsOK, States, SessionsOK, TalkOK
<1>2. ChatTypeOK' <=> FlagsOK' /\ ThreadsOK' /\ SessionsOK' /\ TalkOK'
    BY DEF ChatTypeOK, FlagsOK, ThreadsOK, States, SessionsOK, TalkOK
<1> QED BY <1>1, <1>2

(* No request of the service begins.                                          *)
NoRequest == pc'["api"] # "idle" => pc["api"] # "idle"

LEMMA ChatParts ==
    ASSUME ChatInv
    PROVE  /\ FlagsOK /\ ThreadsOK /\ SessionsOK /\ TalkOK
           /\ MonitorOK /\ DecodeOK /\ PtrOK /\ CoursesOK
BY ChatTypes DEF ChatInv

LEMMA ChatWhole ==
    ASSUME FlagsOK', ThreadsOK', SessionsOK', TalkOK', MonitorOK', DecodeOK', PtrOK', CoursesOK'
    PROVE  ChatInv'
BY ChatTypes DEF ChatInv

-----------------------------------------------------------------------------
(* The steps of the chat keep its invariant.                                  *)

LEMMA OpenStays ==
    ASSUME ChatInv, Open
    PROVE  ChatInv' /\ NoRequest
<1> USE ChatAssumption, ChatParts DEF ThreadsOK, Open, Goto, Quiet
<1>1. FlagsOK' BY DEF FlagsOK
<1>2. ThreadsOK' BY DEF States, SessionsOK, Threads
<1>3. SessionsOK' BY DEF SessionsOK, CoursesOK
<1>4. TalkOK' BY DEF TalkOK, DecodeOK, CoursesOK, Threads
<1>5. MonitorOK' BY DEF MonitorOK, Inside, Threads, None, CoursesOK
<1>6. DecodeOK' /\ PtrOK'
    BY DEF DecodeOK, PtrOK, MonitorOK, Inside, Threads, SessionsOK
<1>7. CoursesOK' /\ NoRequest BY DEF CoursesOK, NoRequest, Threads, TalkOK
<1> QED BY <1>1, <1>2, <1>3, <1>4, <1>5, <1>6, <1>7, ChatWhole

LEMMA SendUserMessageStays ==
    ASSUME ChatInv, SendUserMessage
    PROVE  ChatInv' /\ NoRequest
<1> USE ChatAssumption, ChatParts DEF ThreadsOK, SendUserMessage, lockVars,
    nativeVars, Goto, Row, Rows
<1>1. FlagsOK' BY DEF FlagsOK
<1>2. ThreadsOK' BY DEF States, SessionsOK, Threads
<1>3. SessionsOK' BY DEF SessionsOK, CoursesOK
<1>4. TalkOK' BY SMTT(30) DEF TalkOK, DecodeOK, CoursesOK, Threads
<1>5. MonitorOK' BY DEF MonitorOK, Inside, Threads, None, CoursesOK
<1>6. DecodeOK' /\ PtrOK'
    BY DEF DecodeOK, PtrOK, MonitorOK, Inside, Threads, SessionsOK
<1>7. CoursesOK' /\ NoRequest BY DEF CoursesOK, NoRequest, Threads, TalkOK
<1> QED BY <1>1, <1>2, <1>3, <1>4, <1>5, <1>6, <1>7, ChatWhole

LEMMA StopGenerateStays ==
    ASSUME ChatInv, StopGenerate
    PROVE  ChatInv' /\ NoRequest
<1> USE ChatAssumption, ChatParts DEF ThreadsOK, StopGenerate, lockVars,
    nativeVars, talkVars
<1>1. FlagsOK' BY DEF FlagsOK
<1>2. ThreadsOK' BY DEF States, SessionsOK, Threads
<1>3. SessionsOK' BY DEF SessionsOK, CoursesOK
<1>4. TalkOK' BY DEF TalkOK, DecodeOK, CoursesOK, Threads
<1>5. MonitorOK' BY DEF MonitorOK, Inside, Threads, None, CoursesOK
<1>6. DecodeOK' /\ PtrOK'
    BY DEF DecodeOK, PtrOK, MonitorOK, Inside, Threads, SessionsOK
<1>7. CoursesOK' /\ NoRequest BY DEF CoursesOK, NoRequest, Threads, TalkOK
<1> QED BY <1>1, <1>2, <1>3, <1>4, <1>5, <1>6, <1>7, ChatWhole

LEMMA NewChatStays ==
    ASSUME ChatInv, NewChat
    PROVE  ChatInv' /\ NoRequest
<1> USE ChatAssumption, ChatParts DEF ThreadsOK, NewChat, uiVars, lockVars,
    nativeVars, talkVars, Goto
<1>1. FlagsOK' BY DEF FlagsOK
<1>2. ThreadsOK' BY DEF States, SessionsOK, Threads
<1>3. SessionsOK' BY DEF SessionsOK, CoursesOK
<1>4. TalkOK' BY DEF TalkOK, DecodeOK, CoursesOK, Threads
<1>5. MonitorOK' BY DEF MonitorOK, Inside, Threads, None, CoursesOK
<1>6. DecodeOK' /\ PtrOK'
    BY DEF DecodeOK, PtrOK, MonitorOK, Inside, Threads, SessionsOK
<1>7. CoursesOK' /\ NoRequest BY DEF CoursesOK, NoRequest, Threads, TalkOK
<1> QED BY <1>1, <1>2, <1>3, <1>4, <1>5, <1>6, <1>7, ChatWhole

LEMMA GenerateFinishedStays ==
    ASSUME ChatInv, GenerateFinished
    PROVE  ChatInv' /\ NoRequest
<1> USE ChatAssumption, ChatParts DEF ThreadsOK, GenerateFinished, lockVars,
    nativeVars, Goto, Row, Rows
<1>1. FlagsOK' BY DEF FlagsOK
<1>2. ThreadsOK' BY DEF States, SessionsOK, Threads
<1>3. SessionsOK' BY DEF SessionsOK, CoursesOK
<1>4. TalkOK' BY DEF TalkOK, DecodeOK, CoursesOK, Threads
<1>5. MonitorOK' BY DEF MonitorOK, Inside, Threads, None, CoursesOK
<1>6. DecodeOK' /\ PtrOK'
    BY DEF DecodeOK, PtrOK, MonitorOK, Inside, Threads, SessionsOK
<1>7. CoursesOK' /\ NoRequest BY DEF CoursesOK, NoRequest, Threads, TalkOK
<1> QED BY <1>1, <1>2, <1>3, <1>4, <1>5, <1>6, <1>7, ChatWhole

LEMMA DestroyStays ==
    ASSUME ChatInv, Destroy
    PROVE  ChatInv' /\ NoRequest
<1> USE ChatAssumption, ChatParts DEF ThreadsOK, Destroy, lockVars, nativeVars,
    talkVars
<1>1. FlagsOK' BY DEF FlagsOK
<1>2. ThreadsOK' BY DEF States, SessionsOK, Threads
<1>3. SessionsOK' BY DEF SessionsOK, CoursesOK
<1>4. TalkOK' BY DEF TalkOK, DecodeOK, CoursesOK, Threads
<1>5. MonitorOK' BY DEF MonitorOK, Inside, Threads, None, CoursesOK
<1>6. DecodeOK' /\ PtrOK'
    BY DEF DecodeOK, PtrOK, MonitorOK, Inside, Threads, SessionsOK
<1>7. CoursesOK' /\ NoRequest BY DEF CoursesOK, NoRequest, Threads, TalkOK
<1> QED BY <1>1, <1>2, <1>3, <1>4, <1>5, <1>6, <1>7, ChatWhole

LEMMA LoadStartStays ==
    ASSUME ChatInv, LoadStart
    PROVE  ChatInv' /\ NoRequest
<1> USE ChatAssumption, ChatParts DEF ThreadsOK, LoadStart, uiVars, lockVars,
    nativeVars, talkVars, Goto
<1>1. FlagsOK' BY DEF FlagsOK
<1>2. ThreadsOK' BY DEF States, SessionsOK, Threads
<1>3. SessionsOK' BY DEF SessionsOK, CoursesOK
<1>4. TalkOK' BY DEF TalkOK, DecodeOK, CoursesOK, Threads
<1>5. MonitorOK' BY DEF MonitorOK, Inside, Threads, None, CoursesOK
<1>6. DecodeOK' /\ PtrOK'
    BY DEF DecodeOK, PtrOK, MonitorOK, Inside, Threads, SessionsOK
<1>7. CoursesOK' /\ NoRequest BY DEF CoursesOK, NoRequest, Threads, TalkOK
<1> QED BY <1>1, <1>2, <1>3, <1>4, <1>5, <1>6, <1>7, ChatWhole

LEMMA LoadBeginStays ==
    ASSUME ChatInv, LoadBegin
    PROVE  ChatInv' /\ NoRequest
<1> USE ChatAssumption, ChatParts DEF ThreadsOK, LoadBegin, uiVars, nativeVars,
    talkVars, Goto
<1>1. FlagsOK' BY DEF FlagsOK
<1>2. ThreadsOK' BY DEF States, SessionsOK, Threads
<1>3. SessionsOK' BY DEF SessionsOK, CoursesOK
<1>4. TalkOK' BY DEF TalkOK, DecodeOK, CoursesOK, Threads
<1>5. MonitorOK' BY DEF MonitorOK, Inside, Threads, None, CoursesOK
<1>6. DecodeOK' /\ PtrOK'
    BY DEF DecodeOK, PtrOK, MonitorOK, Inside, Threads, SessionsOK
<1>7. CoursesOK' /\ NoRequest BY DEF CoursesOK, NoRequest, Threads, TalkOK
<1> QED BY <1>1, <1>2, <1>3, <1>4, <1>5, <1>6, <1>7, ChatWhole

LEMMA LoadNativeStays ==
    ASSUME ChatInv, LoadNative
    PROVE  ChatInv' /\ NoRequest
<1> USE ChatAssumption, ChatParts DEF ThreadsOK, LoadNative, uiVars, lockVars,
    Goto
<1>1. FlagsOK' BY DEF FlagsOK
<1>2. ThreadsOK' BY DEF States, SessionsOK, Threads
<1>3. SessionsOK' BY DEF SessionsOK, CoursesOK
<1>4. TalkOK'
    <2>1. saved \in Seq(Rows) /\ Len(saved) \in Nat BY DEF TalkOK
    <2>2. ASSUME NEW i \in 1..Len(saved) PROVE Label(saved)[i] \in Remembered
        <3>1. saved[i] \in Rows BY <2>1
        <3>2. Label(saved)[i] = [label |-> IF i % 2 = 1 THEN "user" ELSE "assistant",
                                 row |-> saved[i]]
            BY DEF Label
        <3> QED BY <3>1, <3>2 DEF Remembered
    <2>3. Label(saved) \in [1..Len(saved) -> Remembered] BY <2>2 DEF Label
    <2>4. hist' \in Seq(Remembered) BY <2>1, <2>3
    <2> QED BY <2>4 DEF TalkOK
<1>5. MonitorOK' BY DEF MonitorOK, Inside, Threads, None, CoursesOK
<1>6. DecodeOK' /\ PtrOK'
    BY DEF DecodeOK, PtrOK, MonitorOK, Inside, Threads, SessionsOK
<1>7. CoursesOK' /\ NoRequest BY DEF CoursesOK, NoRequest, Threads, TalkOK
<1> QED BY <1>1, <1>2, <1>3, <1>4, <1>5, <1>6, <1>7, ChatWhole

LEMMA LoadEndStays ==
    ASSUME ChatInv, LoadEnd
    PROVE  ChatInv' /\ NoRequest
<1> USE ChatAssumption, ChatParts DEF ThreadsOK, LoadEnd, uiVars, nativeVars,
    talkVars, Goto
<1>1. FlagsOK' BY DEF FlagsOK
<1>2. ThreadsOK' BY DEF States, SessionsOK, Threads
<1>3. SessionsOK' BY DEF SessionsOK, CoursesOK
<1>4. TalkOK' BY DEF TalkOK, DecodeOK, CoursesOK, Threads
<1>5. MonitorOK' BY DEF MonitorOK, Inside, Threads, None, CoursesOK
<1>6. DecodeOK' /\ PtrOK'
    BY DEF DecodeOK, PtrOK, MonitorOK, Inside, Threads, SessionsOK
<1>7. CoursesOK' /\ NoRequest BY DEF CoursesOK, NoRequest, Threads, TalkOK
<1> QED BY <1>1, <1>2, <1>3, <1>4, <1>5, <1>6, <1>7, ChatWhole

LEMMA LoadCheckStays ==
    ASSUME ChatInv, LoadCheck
    PROVE  ChatInv' /\ NoRequest
<1> USE ChatAssumption, ChatParts DEF ThreadsOK, LoadCheck, lockVars, nativeVars,
    talkVars, Goto
<1>1. FlagsOK' BY DEF FlagsOK
<1>2. ThreadsOK' BY DEF States, SessionsOK, Threads
<1>3. SessionsOK' BY DEF SessionsOK, CoursesOK
<1>4. TalkOK' BY DEF TalkOK, DecodeOK, CoursesOK, Threads
<1>5. MonitorOK' BY DEF MonitorOK, Inside, Threads, None, CoursesOK
<1>6. DecodeOK' /\ PtrOK'
    BY DEF DecodeOK, PtrOK, MonitorOK, Inside, Threads, SessionsOK
<1>7. CoursesOK' /\ NoRequest BY DEF CoursesOK, NoRequest, Threads, TalkOK
<1> QED BY <1>1, <1>2, <1>3, <1>4, <1>5, <1>6, <1>7, ChatWhole

LEMMA ReleaseStays ==
    ASSUME ChatInv, NEW t \in {"load", "clean"}, Release(t)
    PROVE  ChatInv' /\ NoRequest
<1> USE ChatAssumption, ChatParts DEF ThreadsOK, Release, uiVars, nativeVars,
    talkVars, Goto, Enter
<1>1. FlagsOK' BY DEF FlagsOK
<1>2. ThreadsOK' BY DEF States, SessionsOK, Threads
<1>3. SessionsOK' BY DEF SessionsOK, CoursesOK
<1>4. TalkOK' BY DEF TalkOK, DecodeOK, CoursesOK, Threads
<1>5. MonitorOK' BY DEF MonitorOK, Inside, Threads, None, CoursesOK
<1>6. DecodeOK' /\ PtrOK'
    BY DEF DecodeOK, PtrOK, MonitorOK, Inside, Threads, SessionsOK
<1>7. CoursesOK' /\ NoRequest BY DEF CoursesOK, NoRequest, Threads, TalkOK
<1> QED BY <1>1, <1>2, <1>3, <1>4, <1>5, <1>6, <1>7, ChatWhole

LEMMA ReleaseRequestStays ==
    ASSUME ChatInv, NEW t \in {"load", "clean"}, ReleaseRequest(t)
    PROVE  ChatInv' /\ NoRequest
<1> USE ChatAssumption, ChatParts DEF ThreadsOK, ReleaseRequest, uiVars,
    nativeVars, talkVars, Goto
<1>1. FlagsOK' BY DEF FlagsOK
<1>2. ThreadsOK' BY DEF States, SessionsOK, Threads
<1>3. SessionsOK' BY DEF SessionsOK, CoursesOK
<1>4. TalkOK' BY DEF TalkOK, DecodeOK, CoursesOK, Threads
<1>5. MonitorOK' BY DEF MonitorOK, Inside, Threads, None, CoursesOK
<1>6. DecodeOK' /\ PtrOK'
    BY DEF DecodeOK, PtrOK, MonitorOK, Inside, Threads, SessionsOK
<1>7. CoursesOK' /\ NoRequest BY DEF CoursesOK, NoRequest, Threads, TalkOK
<1> QED BY <1>1, <1>2, <1>3, <1>4, <1>5, <1>6, <1>7, ChatWhole

LEMMA ReleaseTestStays ==
    ASSUME ChatInv, NEW t \in {"load", "clean"}, ReleaseTest(t)
    PROVE  ChatInv' /\ NoRequest
<1> USE ChatAssumption, ChatParts DEF ThreadsOK, ReleaseTest, uiVars, nativeVars,
    talkVars, Goto
<1>1. FlagsOK' BY DEF FlagsOK
<1>2. ThreadsOK' BY DEF States, SessionsOK, Threads
<1>3. SessionsOK' BY DEF SessionsOK, CoursesOK
<1>4. TalkOK' BY DEF TalkOK, DecodeOK, CoursesOK, Threads
<1>5. MonitorOK' BY DEF MonitorOK, Inside, Threads, None, CoursesOK
<1>6. DecodeOK' /\ PtrOK'
    BY DEF DecodeOK, PtrOK, MonitorOK, Inside, Threads, SessionsOK
<1>7. CoursesOK' /\ NoRequest BY DEF CoursesOK, NoRequest, Threads, TalkOK
<1> QED BY <1>1, <1>2, <1>3, <1>4, <1>5, <1>6, <1>7, ChatWhole

LEMMA ReleaseWokenStays ==
    ASSUME ChatInv, NEW t \in {"load", "clean"}, ReleaseWoken(t)
    PROVE  ChatInv' /\ NoRequest
<1> USE ChatAssumption, ChatParts DEF ThreadsOK, ReleaseWoken, uiVars, nativeVars,
    talkVars, Goto, Enter
<1>1. FlagsOK' BY DEF FlagsOK
<1>2. ThreadsOK' BY DEF States, SessionsOK, Threads
<1>3. SessionsOK' BY DEF SessionsOK, CoursesOK
<1>4. TalkOK' BY DEF TalkOK, DecodeOK, CoursesOK, Threads
<1>5. MonitorOK' BY DEF MonitorOK, Inside, Threads, None, CoursesOK
<1>6. DecodeOK' /\ PtrOK'
    BY DEF DecodeOK, PtrOK, MonitorOK, Inside, Threads, SessionsOK
<1>7. CoursesOK' /\ NoRequest BY DEF CoursesOK, NoRequest, Threads, TalkOK
<1> QED BY <1>1, <1>2, <1>3, <1>4, <1>5, <1>6, <1>7, ChatWhole

LEMMA ReleaseEndStays ==
    ASSUME ChatInv, NEW t \in {"load", "clean"}, ReleaseEnd(t)
    PROVE  ChatInv' /\ NoRequest
<1> USE ChatAssumption, ChatParts DEF ThreadsOK, ReleaseEnd, uiVars, talkVars,
    ReleaseInner
<1>1. FlagsOK' BY DEF FlagsOK
<1>2. ThreadsOK' BY DEF States, SessionsOK, Threads
<1>3. SessionsOK' BY DEF SessionsOK, CoursesOK
<1>4. TalkOK' BY DEF TalkOK, DecodeOK, CoursesOK, Threads
<1>5. MonitorOK' BY DEF MonitorOK, Inside, Threads, None, CoursesOK
<1>6. DecodeOK' /\ PtrOK'
    BY DEF DecodeOK, PtrOK, MonitorOK, Inside, Threads, SessionsOK
<1>7. CoursesOK' /\ NoRequest BY DEF CoursesOK, NoRequest, Threads, TalkOK
<1> QED BY <1>1, <1>2, <1>3, <1>4, <1>5, <1>6, <1>7, ChatWhole

LEMMA CleanResetStays ==
    ASSUME ChatInv, CleanReset
    PROVE  ChatInv' /\ NoRequest
<1> USE ChatAssumption, ChatParts DEF ThreadsOK, CleanReset, uiVars, lockVars,
    nativeVars, Goto, ResetNative
<1>1. FlagsOK' BY DEF FlagsOK
<1>2. ThreadsOK' BY DEF States, SessionsOK, Threads
<1>3. SessionsOK' BY DEF SessionsOK, CoursesOK
<1>4. TalkOK' BY DEF TalkOK, DecodeOK, CoursesOK, Threads
<1>5. MonitorOK' BY DEF MonitorOK, Inside, Threads, None, CoursesOK
<1>6. DecodeOK' /\ PtrOK'
    BY DEF DecodeOK, PtrOK, MonitorOK, Inside, Threads, SessionsOK
<1>7. CoursesOK' /\ NoRequest BY DEF CoursesOK, NoRequest, Threads, TalkOK
<1> QED BY <1>1, <1>2, <1>3, <1>4, <1>5, <1>6, <1>7, ChatWhole

LEMMA ResetDeleteStays ==
    ASSUME ChatInv, ResetDelete
    PROVE  ChatInv' /\ NoRequest
<1> USE ChatAssumption, ChatParts DEF ThreadsOK, ResetDelete, uiVars, lockVars,
    nativeVars, Goto
<1>1. FlagsOK' BY DEF FlagsOK
<1>2. ThreadsOK' BY DEF States, SessionsOK, Threads
<1>3. SessionsOK' BY DEF SessionsOK, CoursesOK
<1>4. TalkOK' BY DEF TalkOK, DecodeOK, CoursesOK, Threads
<1>5. MonitorOK' BY DEF MonitorOK, Inside, Threads, None, CoursesOK
<1>6. DecodeOK' /\ PtrOK'
    BY DEF DecodeOK, PtrOK, MonitorOK, Inside, Threads, SessionsOK
<1>7. CoursesOK' /\ NoRequest BY DEF CoursesOK, NoRequest, Threads, TalkOK
<1> QED BY <1>1, <1>2, <1>3, <1>4, <1>5, <1>6, <1>7, ChatWhole

LEMMA ResetSessionStays ==
    ASSUME ChatInv, ResetSession
    PROVE  ChatInv' /\ NoRequest
<1> USE ChatAssumption, ChatParts DEF ThreadsOK, ResetSession, uiVars, lockVars,
    nativeVars, Goto, ResetNative
<1>1. FlagsOK' BY DEF FlagsOK
<1>2. ThreadsOK' BY DEF States, SessionsOK, Threads
<1>3. SessionsOK' BY DEF SessionsOK, CoursesOK
<1>4. TalkOK' BY DEF TalkOK, DecodeOK, CoursesOK, Threads
<1>5. MonitorOK' BY DEF MonitorOK, Inside, Threads, None, CoursesOK
<1>6. DecodeOK' /\ PtrOK'
    BY DEF DecodeOK, PtrOK, MonitorOK, Inside, Threads, SessionsOK
<1>7. CoursesOK' /\ NoRequest BY DEF CoursesOK, NoRequest, Threads, TalkOK
<1> QED BY <1>1, <1>2, <1>3, <1>4, <1>5, <1>6, <1>7, ChatWhole

LEMMA GenStartStays ==
    ASSUME ChatInv, GenStart
    PROVE  ChatInv' /\ NoRequest
<1> USE ChatAssumption, ChatParts DEF ThreadsOK, GenStart, lockVars, nativeVars,
    talkVars, Goto
<1>1. FlagsOK' BY DEF FlagsOK
<1>2. ThreadsOK' BY DEF States, SessionsOK, Threads
<1>3. SessionsOK' BY DEF SessionsOK, CoursesOK
<1>4. TalkOK' BY DEF TalkOK, DecodeOK, CoursesOK, Threads
<1>5. MonitorOK' BY DEF MonitorOK, Inside, Threads, None, CoursesOK
<1>6. DecodeOK' /\ PtrOK'
    BY DEF DecodeOK, PtrOK, MonitorOK, Inside, Threads, SessionsOK
<1>7. CoursesOK' /\ NoRequest BY DEF CoursesOK, NoRequest, Threads, TalkOK
<1> QED BY <1>1, <1>2, <1>3, <1>4, <1>5, <1>6, <1>7, ChatWhole

LEMMA GenEnterStays ==
    ASSUME ChatInv, GenEnter
    PROVE  ChatInv' /\ NoRequest
<1> USE ChatAssumption, ChatParts DEF ThreadsOK, GenEnter, uiVars, nativeVars,
    Goto, Enter
<1>1. FlagsOK' BY DEF FlagsOK
<1>2. ThreadsOK' BY DEF States, SessionsOK, Threads
<1>3. SessionsOK' BY DEF SessionsOK, CoursesOK
<1>4. TalkOK'
    <2>1. turn \in 1..MaxTurns BY DEF TalkOK, CoursesOK
    <2>2. [label |-> "user", row |-> Row("user", turn)] \in Remembered
        BY <2>1 DEF Row, Rows, Remembered
    <2>3. PICK m \in Remembered : m = [label |-> "user", row |-> Row("user", turn)]
        BY <2>2
    <2>4. hist \in Seq(Remembered) /\ (hist' = hist \/ hist' = Append(hist, m))
        BY <2>3 DEF TalkOK
    <2>5. hist' \in Seq(Remembered) BY ONLY <2>4
    <2>6. missed' \subseteq Rows BY <2>1 DEF TalkOK, Row, Rows
    <2> QED BY <2>5, <2>6 DEF TalkOK
<1>5. MonitorOK' BY DEF MonitorOK, Inside, Threads, None, CoursesOK
<1>6. DecodeOK' /\ PtrOK'
    BY DEF DecodeOK, PtrOK, MonitorOK, Inside, Threads, SessionsOK
<1>7. CoursesOK' /\ NoRequest BY DEF CoursesOK, NoRequest, Threads, TalkOK
<1> QED BY <1>1, <1>2, <1>3, <1>4, <1>5, <1>6, <1>7, ChatWhole

LEMMA GenTokenStays ==
    ASSUME ChatInv, GenToken
    PROVE  ChatInv' /\ NoRequest
<1> USE ChatAssumption, ChatParts DEF ThreadsOK, GenToken, uiVars, lockVars,
    nativeVars, Goto
<1>1. FlagsOK' BY DEF FlagsOK
<1>2. ThreadsOK' BY DEF States, SessionsOK, Threads
<1>3. SessionsOK' BY DEF SessionsOK, CoursesOK
<1>4. tokens < MaxNewTokens /\ turn \in 1..MaxTurns
    BY DEF DecodeOK, TalkOK, CoursesOK, Threads
<1>5. TalkOK'
    <2>1. PICK m \in Remembered :
              m = [label |-> "assistant", row |-> Row("assistant", turn)]
        BY <1>4 DEF Row, Rows, Remembered
    <2>2. hist \in Seq(Remembered) /\ (hist' = hist \/ hist' = Append(hist, m))
        BY <2>1 DEF TalkOK
    <2>3. missed' \subseteq Rows BY <1>4 DEF TalkOK, Miss, Row, Rows
    <2>4. hist' \in Seq(Remembered) BY ONLY <2>2
    <2> QED BY <1>4, <2>3, <2>4 DEF TalkOK
<1>6. MonitorOK' BY DEF MonitorOK, Inside, Threads, None
<1>8. \A t \in Threads : pc[t] = "decode" => t = "gen"
    BY DEF MonitorOK, Inside, Threads
<1>9. \A t \in Threads : pc'[t] = "decode" =>
          t = "gen" /\ pc[t] = "decode" /\ tokens + 1 # MaxNewTokens
    BY <1>8 DEF Threads
<1>10. tokens' \in Nat /\ (tokens + 1 # MaxNewTokens => tokens' < MaxNewTokens)
    BY <1>4 DEF TalkOK
<1>11. DecodeOK' /\ PtrOK' BY <1>9, <1>10 DEF DecodeOK, PtrOK
<1>7. CoursesOK' /\ NoRequest BY DEF CoursesOK, NoRequest, Threads, TalkOK
<1> QED BY <1>1, <1>2, <1>3, <1>5, <1>6, <1>7, <1>11, ChatWhole

LEMMA GenExitStays ==
    ASSUME ChatInv, GenExit
    PROVE  ChatInv' /\ NoRequest
<1> USE ChatAssumption, ChatParts DEF ThreadsOK, GenExit, uiVars, talkVars, Goto,
    ReleaseInner
<1>1. FlagsOK' BY DEF FlagsOK
<1>2. ThreadsOK' BY DEF States, SessionsOK, Threads
<1>3. SessionsOK' BY DEF SessionsOK, CoursesOK
<1>4. TalkOK' BY DEF TalkOK, DecodeOK, CoursesOK, Threads
<1>5. MonitorOK' BY DEF MonitorOK, Inside, Threads, None, CoursesOK
<1>6. DecodeOK' /\ PtrOK'
    BY DEF DecodeOK, PtrOK, MonitorOK, Inside, Threads, SessionsOK
<1>7. CoursesOK' /\ NoRequest BY DEF CoursesOK, NoRequest, Threads, TalkOK
<1> QED BY <1>1, <1>2, <1>3, <1>4, <1>5, <1>6, <1>7, ChatWhole

LEMMA ApiBeginStays ==
    ASSUME ChatInv, ApiBegin
    PROVE  ChatInv'
<1> USE ChatAssumption, ChatParts DEF ThreadsOK, ApiBegin, uiVars, lockVars,
    nativeVars, talkVars, Goto
<1>1. FlagsOK' BY DEF FlagsOK
<1>2. ThreadsOK' BY DEF States, SessionsOK, Threads
<1>3. SessionsOK' BY DEF SessionsOK, CoursesOK
<1>4. TalkOK' BY DEF TalkOK, DecodeOK, CoursesOK, Threads
<1>5. MonitorOK' BY DEF MonitorOK, Inside, Threads, None, CoursesOK
<1>6. DecodeOK' /\ PtrOK'
    BY DEF DecodeOK, PtrOK, MonitorOK, Inside, Threads, SessionsOK
<1>7. CoursesOK' BY DEF CoursesOK, Threads, TalkOK
<1> QED BY <1>1, <1>2, <1>3, <1>4, <1>5, <1>6, <1>7, ChatWhole

LEMMA ApiPromptStays ==
    ASSUME ChatInv, ApiPrompt
    PROVE  ChatInv' /\ NoRequest
<1> USE ChatAssumption, ChatParts DEF ThreadsOK, ApiPrompt, uiVars, lockVars,
    nativeVars, talkVars, Goto
<1>1. FlagsOK' BY DEF FlagsOK
<1>2. ThreadsOK' BY DEF States, SessionsOK, Threads
<1>3. SessionsOK' BY DEF SessionsOK, CoursesOK
<1>4. TalkOK' BY DEF TalkOK, DecodeOK, CoursesOK, Threads
<1>5. MonitorOK' BY DEF MonitorOK, Inside, Threads, None, CoursesOK
<1>6. DecodeOK' /\ PtrOK'
    BY DEF DecodeOK, PtrOK, MonitorOK, Inside, Threads, SessionsOK
<1>7. CoursesOK' /\ NoRequest BY DEF CoursesOK, NoRequest, Threads, TalkOK
<1> QED BY <1>1, <1>2, <1>3, <1>4, <1>5, <1>6, <1>7, ChatWhole

LEMMA ApiEnterStays ==
    ASSUME ChatInv, ApiEnter
    PROVE  ChatInv' /\ NoRequest
<1> USE ChatAssumption, ChatParts DEF ThreadsOK, ApiEnter, uiVars, nativeVars,
    Goto, Enter
<1>1. FlagsOK' BY DEF FlagsOK
<1>2. ThreadsOK' BY DEF States, SessionsOK, Threads
<1>3. SessionsOK' BY DEF SessionsOK, CoursesOK
<1>4. TalkOK' BY DEF TalkOK, DecodeOK, CoursesOK, Threads
<1>5. MonitorOK' BY DEF MonitorOK, Inside, Threads, None, CoursesOK
<1>6. DecodeOK' /\ PtrOK'
    BY DEF DecodeOK, PtrOK, MonitorOK, Inside, Threads, SessionsOK
<1>7. CoursesOK' /\ NoRequest BY DEF CoursesOK, NoRequest, Threads, TalkOK
<1> QED BY <1>1, <1>2, <1>3, <1>4, <1>5, <1>6, <1>7, ChatWhole

LEMMA ApiTokenStays ==
    ASSUME ChatInv, ApiToken
    PROVE  ChatInv' /\ NoRequest
<1> USE ChatAssumption, ChatParts DEF ThreadsOK, ApiToken, uiVars, lockVars,
    nativeVars, Goto
<1>1. FlagsOK' BY DEF FlagsOK
<1>2. ThreadsOK' BY DEF States, SessionsOK, Threads
<1>3. SessionsOK' BY DEF SessionsOK, CoursesOK
<1>4. TalkOK' BY SMTT(30) DEF TalkOK, DecodeOK, CoursesOK, Threads
<1>5. MonitorOK' BY DEF MonitorOK, Inside, Threads, None, CoursesOK
<1>6. DecodeOK' /\ PtrOK'
    BY DEF DecodeOK, PtrOK, MonitorOK, Inside, Threads, SessionsOK
<1>7. CoursesOK' /\ NoRequest BY DEF CoursesOK, NoRequest, Threads, TalkOK
<1> QED BY <1>1, <1>2, <1>3, <1>4, <1>5, <1>6, <1>7, ChatWhole

LEMMA ApiExitStays ==
    ASSUME ChatInv, ApiExit
    PROVE  ChatInv' /\ NoRequest
<1> USE ChatAssumption, ChatParts DEF ThreadsOK, ApiExit, uiVars, nativeVars,
    talkVars, Goto
<1>1. FlagsOK' BY DEF FlagsOK
<1>2. ThreadsOK' BY DEF States, SessionsOK, Threads
<1>3. SessionsOK' BY DEF SessionsOK, CoursesOK
<1>4. TalkOK' BY DEF TalkOK, DecodeOK, CoursesOK, Threads
<1>5. MonitorOK' BY DEF MonitorOK, Inside, Threads, None, CoursesOK
<1>6. DecodeOK' /\ PtrOK'
    BY DEF DecodeOK, PtrOK, MonitorOK, Inside, Threads, SessionsOK
<1>7. CoursesOK' /\ NoRequest BY DEF CoursesOK, NoRequest, Threads, TalkOK
<1> QED BY <1>1, <1>2, <1>3, <1>4, <1>5, <1>6, <1>7, ChatWhole

(* The process dies.                                                          *)
LEMMA KillStays ==
    ASSUME ChatInv, QueueInv, Kill
    PROVE  ChatInv' /\ QueueInv' /\ pc'["api"] = "idle"
<1> USE ChatAssumption, ChatParts DEF Kill, ChatKill
<1>1. FlagsOK' BY DEF FlagsOK
<1>2. ThreadsOK' BY DEF ThreadsOK, States
<1>3. SessionsOK' BY DEF SessionsOK
<1>4. TalkOK' BY DEF TalkOK
<1>5. MonitorOK' BY DEF MonitorOK, Inside, Threads, None
<1>6. DecodeOK' /\ PtrOK' BY DEF DecodeOK, PtrOK
<1>7. CoursesOK' BY DEF CoursesOK, Threads
<1>8. QueueInv'
    <2> USE QueueAssumption DEF QueueKill
    <2>1. QueueTypeOK' BY DEF QueueTypeOK, QueueInv
    <2>2. ProcOK' BY DEF ProcOK, Askers
    <2>3. HandsOK' BY InAskers DEF HandsOK
    <2>4. Apart' BY DEF Apart
    <2>5. \A r \in Requests : ~Somewhere(r)' BY DEF Somewhere, Stored, Held
    <2>6. WaitsOK' BY <2>5 DEF WaitsOK
    <2> QED BY <2>1, <2>2, <2>3, <2>4, <2>6 DEF QueueInv
<1>9. pc'["api"] = "idle" BY DEF Threads
<1> QED BY <1>1, <1>2, <1>3, <1>4, <1>5, <1>6, <1>7, <1>8, <1>9, ChatWhole

LEMMA ChatSame ==
    ASSUME ChatInv, UNCHANGED chatVars
    PROVE  ChatInv' /\ NoRequest
<1> USE ChatParts DEF chatVars, uiVars, lockVars, nativeVars, talkVars
<1>1. FlagsOK' /\ ThreadsOK' /\ SessionsOK' /\ TalkOK'
    BY DEF FlagsOK, ThreadsOK, SessionsOK, TalkOK
<1>2. MonitorOK' /\ DecodeOK' /\ PtrOK' /\ CoursesOK'
    BY DEF MonitorOK, DecodeOK, PtrOK, CoursesOK
<1> QED BY <1>1, <1>2, ChatWhole DEF NoRequest

(* What the session does while the queue stands still, but for the beginning  *)
(* and the end of a request.                                                  *)
ChatStep == Open \/ ChatUser \/ Destroy \/ Loading \/ Cleaning \/ Resetting
            \/ Generating \/ ApiRunning

LEMMA ChatSteps ==
    ASSUME ChatInv, ChatStep PROVE ChatInv' /\ NoRequest
<1>1. CASE Open \/ Destroy BY <1>1, OpenStays, DestroyStays
<1>2. CASE ChatUser
    BY <1>2, SendUserMessageStays, StopGenerateStays, NewChatStays,
        GenerateFinishedStays
    DEF ChatUser
<1>3. ASSUME NEW t \in {"load", "clean"}, Releasing(t) PROVE ChatInv' /\ NoRequest
    BY <1>3, ReleaseStays, ReleaseRequestStays, ReleaseTestStays, ReleaseWokenStays,
       ReleaseEndStays
    DEF Releasing
<1>4. CASE Loading
    BY <1>3, <1>4, LoadStartStays, LoadBeginStays, LoadNativeStays, LoadEndStays,
       LoadCheckStays
    DEF Loading
<1>5. CASE Cleaning BY <1>3, <1>5, CleanResetStays DEF Cleaning
<1>6. CASE Resetting BY <1>6, ResetDeleteStays, ResetSessionStays DEF Resetting
<1>7. CASE Generating
    BY <1>7, GenStartStays, GenEnterStays, GenTokenStays, GenExitStays DEF Generating
<1>8. CASE ApiRunning
    BY <1>8, ApiPromptStays, ApiEnterStays, ApiTokenStays DEF ApiRunning
<1> QED BY <1>1, <1>2, <1>4, <1>5, <1>6, <1>7, <1>8 DEF ChatStep

(* What the queue does while the session stands still.                        *)
QueueStep ==
    \/ \E r \in Requests : Submit(r) \/ PutBack(r) \/ SendRequest(r)
    \/ AskStats \/ PutBack("stat") \/ ClearBegin \/ ClearStep \/ Turning

LEMMA QueueSteps ==
    ASSUME QueueInv, QueueStep
    PROVE  QueueInv' /\ (proc = "task" => proc' = "task")
<1>1. "stat" \in Askers /\ "proc" \in Askers BY DEF Askers
<1>2. CASE \E r \in Requests : Submit(r) \/ PutBack(r) \/ SendRequest(r)
    BY <1>2, InAskers, SubmitKeeps, PutBackKeeps, SendRequestKeeps
<1>3. CASE Turning
    BY <1>1, <1>3, ReceiveKeeps, PutBackKeeps, OthersKeepQueue DEF Turning
<1> QED
    BY <1>1, <1>2, <1>3, AskStatsKeeps, PutBackKeeps, ClearStepKeeps, OthersKeepQueue
        DEF QueueStep

(* A step of the application, as the session sees it.                         *)
LEMMA StepKinds ==
    [Next]_vars => ChatStep \/ UNCHANGED chatVars \/ ApiBegin \/ ApiExit \/ ChatKill
BY DEF Next, UserStep, LoadStep, CleanStep, ResetStep, GenStep, SubmitStep, Sending, Status,
       StatusEnd, ClearStart, Clearing, Turn, TaskBegin, TaskStep, TaskEnd, Kill, InChat,
       InQueue, ChatStep, vars

LEMMA AppInitInv == Init => AppInv
<1> SUFFICES ASSUME ChatInit, QueueInit PROVE AppInv BY DEF Init
<1>1. ChatInv
    <2> USE ChatAssumption DEF ChatInit
    <2>1. FlagsOK BY DEF FlagsOK
    <2>3. ThreadsOK BY DEF ThreadsOK, States
    <2>4. SessionsOK BY DEF SessionsOK
    <2>5. TalkOK BY DEF TalkOK
    <2>2. MonitorOK /\ DecodeOK /\ PtrOK /\ CoursesOK
        BY DEF MonitorOK, Inside, Threads, None, DecodeOK, PtrOK, CoursesOK
    <2> QED BY <2>1, <2>2, <2>3, <2>4, <2>5, ChatTypes DEF ChatInv
<1>2. QueueInv BY QueueInitInv DEF QueueInit
<1>3. ApiOK BY DEF ApiOK, ChatInit, Threads
<1> QED BY <1>1, <1>2, <1>3 DEF AppInv

(* Every step of the application keeps the invariant.                       *)
LEMMA AppNextKeeps == AppInv /\ [Next]_vars => AppInv'
<1> SUFFICES ASSUME AppInv, [Next]_vars PROVE AppInv' OBVIOUS
<1>0. ChatInv /\ QueueInv /\ ApiOK BY DEF AppInv
<1>1. CASE ChatStep /\ UNCHANGED queueVars
    <2>1. proc' = proc BY <1>1 DEF queueVars
    <2> QED
        BY <1>0, <1>1, <2>1, ChatSteps, OthersKeepQueue DEF AppInv, ApiOK, NoRequest
<1>2. CASE QueueStep /\ UNCHANGED chatVars
    BY <1>0, <1>2, QueueSteps, ChatSame DEF AppInv, ApiOK, NoRequest
<1>3. CASE TaskBegin
    <2>1. proc = "task" /\ ApiBegin /\ UNCHANGED queueVars
        BY <1>3 DEF TaskBegin, InChat
    <2>2. proc' = "task" BY <2>1 DEF queueVars
    <2> QED BY <1>0, <2>1, <2>2, ApiBeginStays, OthersKeepQueue DEF AppInv, ApiOK
<1>4. CASE TaskEnd
    <2>1. ApiExit /\ (TaskDone \/ TaskFailed) BY <1>4 DEF TaskEnd
    <2>2. pc'["api"] = "idle"
        BY <1>0, <2>1, ChatParts DEF ApiExit, Goto, ThreadsOK, Threads
    <2> QED BY <1>0, <2>1, <2>2, ApiExitStays, TaskDoneKeeps, TaskFailedKeeps
            DEF AppInv, ApiOK
<1>5. CASE Kill BY <1>0, <1>5, KillStays DEF AppInv, ApiOK
<1>6. CASE UNCHANGED vars
    <2>1. UNCHANGED chatVars /\ UNCHANGED queueVars /\ proc' = proc
        BY <1>6 DEF vars, queueVars
    <2> QED BY <1>0, <2>1, ChatSame, OthersKeepQueue DEF AppInv, ApiOK, NoRequest
<1>7. Next => \/ ChatStep /\ UNCHANGED queueVars
              \/ QueueStep /\ UNCHANGED chatVars
              \/ TaskBegin \/ TaskEnd \/ Kill
    BY DEF Next, UserStep, LoadStep, CleanStep, ResetStep, GenStep, SubmitStep,
        Sending,
           Status, StatusEnd, ClearStart, Clearing, Turn, TaskStep, InChat, InQueue,
           ChatStep, QueueStep
<1> QED BY <1>1, <1>2, <1>3, <1>4, <1>5, <1>6, <1>7

-----------------------------------------------------------------------------
(* The invariant of the native sessions.                                      *)

(* Where the threads can be, and what their flags say of it.                  *)
StagesOK ==
    /\ pc["load"] \in {"idle", "queued", "started", "loading", "loaded", "check",
                       "release", "inner"}
    /\ pc["clean"] \in {"idle", "reset", "release", "inner", "request", "test",
                        "waiting", "woken"}
    /\ generating => pc["gen"] \in {"decode", "exit"}
    /\ loading <=> pc["load"] \in {"loading", "loaded"}
    /\ pc["clean"] \in {"test", "waiting", "woken"} => releaseRequested
    /\ pc["load"] = "queued" => ui = "chat"

(* Only the session that nativePtr names is still to be deleted, and none     *)
(* when another one is to come.                                               *)
KeptOK ==
    /\ \A n \in heap : n \in late \/ n = ptr
    /\ pc["load"] \in {"queued", "started", "loading"} => heap \subseteq late

(* Somebody will look at nativePtr after the session is loaded.               *)
Attended ==
    \/ pc["clean"] \in {"reset", "release", "request", "test", "woken"}
    \/ pc["load"] \in {"release", "inner"}
    \/ pc["clean"] = "waiting" /\ pc["load"] \in {"loading", "loaded", "check"}

(* When the chat is closed, the session that there is or will be is attended. *)
ClosedOK == ui = "list" =>
    /\ pc["load"] = "loading" => Attended \/ made + 1 \in late
    /\ ptr \in heap /\ ptr \notin late => Attended \/ pc["clean"] = "inner"

LeakInv == StagesOK /\ KeptOK /\ ClosedOK

LEMMA LeakSame ==
    ASSUME LeakInv, UNCHANGED <<ui, ptr, made, heap, late, loading, releaseRequested>>,
           generating' => pc'["gen"] \in {"decode", "exit"},
           pc'["load"] = pc["load"], pc'["clean"] = pc["clean"]
    PROVE  LeakInv'
BY DEF LeakInv, StagesOK, KeptOK, ClosedOK, Attended

LEMMA OpenLeaves == ASSUME ChatInv, LeakInv, Open PROVE LeakInv'
<1> USE ChatParts DEF ThreadsOK, Open, Goto, Quiet, LeakInv
<1>1. heap \subseteq late BY DEF KeptOK, ClosedOK, Attended, Threads
<1>2. StagesOK' BY DEF StagesOK, Threads
<1>3. KeptOK' BY <1>1 DEF KeptOK
<1> QED BY <1>2, <1>3 DEF ClosedOK

LEMMA DestroyLeavesNative == Destroy => ptr' = ptr /\ heap' = heap /\ late' = late
BY DEF Destroy, nativeVars

LEMMA DestroyLeaves == ASSUME ChatInv, LeakInv, Destroy PROVE LeakInv'
<1> USE ChatParts DEF ThreadsOK, Destroy, lockVars, nativeVars, LeakInv
<1>1. StagesOK' BY DEF StagesOK, Threads
<1>5. pc'["clean"] = "reset" BY DEF StagesOK, Threads
<1>6. pc'["load"] = pc["load"] \/ pc'["load"] = "idle" BY DEF Threads
<1>2. pc'["load"] \in {pc["load"], "idle"} /\ pc'["clean"] = "reset" BY ONLY <1>5, <1>6
<1> HIDE DEF Destroy
<1>3. KeptOK' BY <1>2, DestroyLeavesNative DEF KeptOK
<1>4. ClosedOK' BY <1>2 DEF ClosedOK, Attended
<1> QED BY <1>1, <1>3, <1>4

LEMMA KillLeaves == ASSUME ChatKill PROVE LeakInv'
<1> USE DEF ChatKill, LeakInv
<1>1. StagesOK' BY DEF StagesOK, Threads
<1> QED BY <1>1 DEF KeptOK, ClosedOK, Threads

LEMMA LoadLeaves ==
    ASSUME ChatInv, LeakInv, LoadStart \/ LoadBegin \/ LoadNative \/ LoadEnd \/ LoadCheck
    PROVE  LeakInv'
<1> USE ChatParts DEF ThreadsOK, LoadStart, LoadBegin, LoadNative, LoadEnd, LoadCheck,
    Goto, uiVars, lockVars, nativeVars, LeakInv
<1>1. StagesOK' BY DEF StagesOK, Threads
<1>2. KeptOK' BY DEF KeptOK, Threads
<1>3. ClosedOK' BY DEF ClosedOK, Attended, StagesOK, Threads
<1> QED BY <1>1, <1>2, <1>3

LEMMA ReleasingLeaves ==
    ASSUME ChatInv, LeakInv, NEW t \in {"load", "clean"}, Releasing(t)
    PROVE  LeakInv'
<1> USE ChatParts DEF ThreadsOK, MonitorOK, SessionsOK, Goto, Enter, uiVars, nativeVars, LeakInv
<1>1. CASE Release(t)
    <2> USE <1>1 DEF Release
    <2>1. ~generating BY DEF StagesOK, Inside, Threads, None
    <2>2. StagesOK' BY <2>1 DEF StagesOK, Threads
    <2>3. KeptOK' BY DEF KeptOK, Threads
    <2>4. ClosedOK' BY <2>1 DEF ClosedOK, Attended, StagesOK, Threads
    <2> QED BY <2>2, <2>3, <2>4
<1>2. CASE ReleaseRequest(t)
    <2> USE <1>2 DEF ReleaseRequest
    <2>2. StagesOK' BY DEF StagesOK, Threads
    <2>3. KeptOK' BY DEF KeptOK, Threads
    <2>4. ClosedOK' BY DEF ClosedOK, Attended, StagesOK, Threads
    <2> QED BY <2>2, <2>3, <2>4
<1>3. CASE ReleaseTest(t)
    <2> USE <1>3 DEF ReleaseTest
    <2>1. ~generating BY DEF StagesOK, Inside, Threads, None
    <2>2. StagesOK' BY <2>1 DEF StagesOK, Threads
    <2>3. KeptOK' BY DEF KeptOK, Threads
    <2>4. ClosedOK' BY <2>1 DEF ClosedOK, Attended, StagesOK, Threads
    <2> QED BY <2>2, <2>3, <2>4
<1>4. CASE ReleaseWoken(t)
    <2> USE <1>4 DEF ReleaseWoken
    <2>2. StagesOK' BY DEF StagesOK, Threads
    <2>3. KeptOK' BY DEF KeptOK, Threads
    <2>4. ClosedOK' BY DEF ClosedOK, Attended, StagesOK, Threads
    <2> QED BY <2>2, <2>3, <2>4
<1>5. CASE ReleaseEnd(t)
    <2> USE <1>5 DEF ReleaseEnd, ReleaseInner
    <2>1. pc'["gen"] = pc["gen"] \/ pc["gen"] = "waiting" BY DEF Threads
    <2>2. StagesOK' BY <2>1 DEF StagesOK, Threads
    <2>3. KeptOK' BY DEF KeptOK, Threads
    <2>4. ptr' \notin heap' OBVIOUS
    <2>5. ClosedOK' BY <2>4 DEF ClosedOK, Attended, StagesOK, Threads
    <2> QED BY <2>2, <2>3, <2>5
<1> QED BY <1>1, <1>2, <1>3, <1>4, <1>5 DEF Releasing

LEMMA GenExitLeaves == ASSUME ChatInv, LeakInv, GenExit PROVE LeakInv'
<1> USE ChatParts DEF ThreadsOK, SessionsOK, GenExit, ReleaseInner, Goto, uiVars, LeakInv
<1>1. StagesOK' BY DEF StagesOK, Threads
<1>2. KeptOK' BY DEF KeptOK, Threads
<1>3. ClosedOK' BY DEF ClosedOK, Attended, Threads
<1> QED BY <1>1, <1>2, <1>3

LEMMA CleanResetLeaves == ASSUME ChatInv, LeakInv, CleanReset PROVE LeakInv'
<1> USE ChatParts DEF ThreadsOK, CleanReset, ResetNative, Goto, uiVars, lockVars, nativeVars,
    LeakInv
<1>1. StagesOK' BY DEF StagesOK, Threads
<1>2. KeptOK' BY DEF KeptOK, Threads
<1>3. ClosedOK' BY DEF ClosedOK, Attended, Threads
<1> QED BY <1>1, <1>2, <1>3

(* The other steps concern neither loading nor deleting.                      *)
LEMMA OthersLeave ==
    ASSUME ChatInv, LeakInv,
           \/ ChatUser \/ Resetting \/ GenStart \/ GenEnter \/ GenToken
           \/ ApiBegin \/ ApiRunning \/ ApiExit
    PROVE  LeakInv'
<1> USE ChatParts DEF ThreadsOK, Goto, uiVars, lockVars, nativeVars
<1>1. CASE ChatUser
    BY <1>1, LeakSame DEF ChatUser, SendUserMessage, StopGenerate, NewChat,
       GenerateFinished, LeakInv, StagesOK, Threads
<1>2. CASE Resetting
    BY <1>2, LeakSame DEF Resetting, ResetDelete, ResetSession, ResetNative, LeakInv,
       StagesOK, Threads
<1>3. CASE GenStart \/ GenEnter \/ GenToken
    BY <1>3, LeakSame DEF GenStart, GenEnter, GenToken, LeakInv, StagesOK, Threads
<1>4. CASE ApiBegin \/ ApiRunning \/ ApiExit
    BY <1>4, LeakSame DEF ApiBegin, ApiRunning, ApiPrompt, ApiEnter, ApiToken, ApiExit,
       LeakInv, StagesOK, Threads
<1> QED BY <1>1, <1>2, <1>3, <1>4

LEMMA LeakStays == ASSUME AppInv, LeakInv, [Next]_vars PROVE LeakInv'
<1>1. ChatInv BY DEF AppInv
<1>2. CASE ChatStep
    <2>1. CASE Loading BY <1>1, <2>1, LoadLeaves, ReleasingLeaves DEF Loading
    <2>2. CASE Cleaning BY <1>1, <2>2, CleanResetLeaves, ReleasingLeaves DEF Cleaning
    <2>3. CASE Generating BY <1>1, <2>3, GenExitLeaves, OthersLeave DEF Generating
    <2> QED BY <1>1, <1>2, <2>1, <2>2, <2>3, OpenLeaves, DestroyLeaves, OthersLeave
            DEF ChatStep
<1>3. CASE UNCHANGED chatVars
    BY <1>3, LeakSame
       DEF chatVars, uiVars, lockVars, nativeVars, LeakInv, StagesOK
<1>4. CASE ApiBegin \/ ApiExit BY <1>1, <1>4, OthersLeave
<1>5. CASE ChatKill BY <1>5, KillLeaves
<1> QED BY <1>2, <1>3, <1>4, <1>5, StepKinds

LEMMA LeakInit == ChatInit => LeakInv
BY DEF ChatInit, LeakInv, StagesOK, KeptOK, ClosedOK, Threads

-----------------------------------------------------------------------------
(* What holds after any history.                                              *)

(* All that is known of the session and the queue, after any history.         *)
THEOREM AppInvariant == Spec => []AppInv
<1> QED BY AppInitInv, AppNextKeeps, PTL DEF Spec

(* Every variable has its type; the HTTP service has at most one answer under *)
(* way, and no answer has more than max_new_tokens_ tokens, for any number of *)
(* openings, prompts and requests.                                            *)
THEOREM TypeCorrect == Spec => []TypeOK
<1>1. AppInv => TypeOK BY DEF AppInv, ChatInv, QueueInv, ApiOK, TypeOK
<1> QED BY <1>1, AppInvariant, PTL

(* No two threads decode with a native session, none decodes with a deleted   *)
(* one, nativePtr never names a deleted one, and none is forgotten: once the  *)
(* chat is closed and its threads are done, no session is left that was made  *)
(* before its Destroy (LlmSession), whatever the user does, the hasty uses    *)
(* included.                                                                  *)
THEOREM NativeAlwaysGuarded == Spec => []NativeGuarded
<1>1. Init => LeakInv BY LeakInit DEF Init
<1>2. AppInv /\ LeakInv /\ [Next]_vars => LeakInv' BY LeakStays
<1>3. AppInv /\ LeakInv => NativeGuarded
    <2> SUFFICES ASSUME AppInv, LeakInv PROVE NativeGuarded OBVIOUS
    <2>1. ui = "list" /\ pc["load"] = "idle" /\ pc["clean"] \in {"idle", "waiting"}
          => heap \subseteq late
        BY DEF LeakInv, KeptOK, ClosedOK, Attended
    <2> QED
        BY <2>1 DEF AppInv, ChatInv, MonitorOK, Inside, DecodeOK, PtrOK, NativeGuarded
<1> QED BY <1>1, <1>2, <1>3, AppInvariant, PTL DEF Spec

(* Each request that waits is in one place and only once (RequestQueueManager)*)
(* for any number of requests.                                                *)
THEOREM EachAlwaysInOnePlace == Spec => []EachInOnePlace
<1>1. AppInv => EachInOnePlace BY OnePlace DEF AppInv
<1> QED BY <1>1, AppInvariant, PTL

-----------------------------------------------------------------------------
(* The invariant of the conversation, for users who are not hasty.            *)

Prompt == Row("user", turn)
Answer == Row("assistant", turn)

(* The rows are of turns that were, and an answer follows a prompt. Without   *)
(* an activity no answer is awaited.                                          *)
RowsOK ==
    /\ \A i \in 1..Len(db) : db[i].turn <= turn
    /\ \A i \in 1..Len(db) : db[i].role = "assistant" => i > 1 /\ db[i - 1].role = "user"
    /\ \A r \in missed : r.turn <= turn
    /\ pc["gen"] \in {"queued", "posted"} => ui = "chat"

(* The native session of a chat is still to be made.                          *)
Coming == pc["load"] \in {"queued", "started", "loading"}

(* In an open chat no release is under way; a conversation is reset when the  *)
(* session is loaded and no answer is made.                                   *)
OrderOK == ui = "chat" =>
    /\ ~releaseRequested
    /\ pc["load"] \in {"idle", "queued", "started", "loading", "loaded", "check"}
    /\ pc["gen"] \in {"idle", "queued", "started", "decode", "exit", "posted"}
    /\ pc["reset"] \in {"idle", "queued", "native"}
    /\ ready <=> pc["load"] = "idle"
    /\ ptr = 0 <=> Coming
    /\ busy <=> pc["gen"] # "idle"
    /\ pc["gen"] # "idle" => pc["reset"] = "idle"
    /\ pc["gen"] = "decode" => ~Coming
    /\ pc["reset"] # "idle" => ready

(* What the session of the open chat remembers, or is going to when it is     *)
(* made.                                                                      *)
Told == IF Coming THEN Label(saved) ELSE hist

(* While an answer is awaited, its prompt is the last row.                    *)
PromptOK == ui = "chat" /\ pc["gen"] # "idle" =>
    /\ Len(db) > 0 /\ db[Len(db)] = Prompt
    /\ \A i \in 1..Len(db) : db[i].role = "assistant" => db[i].turn < turn
    /\ pc["gen"] \in {"queued", "started"} => Prompt \notin missed
    /\ pc["gen"] \in {"queued", "started", "decode"} => Answer \notin missed

(* The rows before the last prompt are known to the session.                  *)
KnownBefore(f) ==
    /\ db = Append(f, Prompt)
    /\ \A i \in 1..Len(f) : f[i].turn < turn
    /\ RowsOf(Told) = Known(f, missed)

(* What the session remembers are the rows, and the answer on its way to them,*)
(* without those that it missed; a prompt may still be on its way to it.      *)
KnownOK ==
    /\ pc["gen"] \in {"queued", "started"} => \E f \in Seq(Rows) : KnownBefore(f)
    /\ pc["gen"] \in {"idle", "decode"} => RowsOf(Told) = Known(db, missed)
    /\ pc["gen"] \in {"exit", "posted"} => RowsOf(Told) = Known(Append(db, Answer), missed)

Labelled(h) == \A i \in 1..Len(h) : h[i].label = h[i].row.role

LabelsOK ==
    Paired(IF pc["gen"] = "idle" THEN db ELSE Append(db, Answer)) => Labelled(Told)

RememberedOK == ui = "chat" =>
    /\ pc["reset"] = "native" => Len(db) = 0
    /\ pc["reset"] # "native" => KnownOK /\ LabelsOK

HistoryInv == RowsOK /\ OrderOK /\ PromptOK /\ RememberedOK

-----------------------------------------------------------------------------
(* What Known is.                                                             *)

(* Induction over the numbers, for a set: without a smallest element the rest *)
(* of the numbers is empty.                                                   *)
LEMMA NatInduct ==
    ASSUME NEW Q \in SUBSET Nat, 0 \in Q, \A n \in Nat : n \in Q => n + 1 \in Q
    PROVE  Q = Nat
<1>1. SUFFICES ASSUME Nat \ Q # {} PROVE FALSE OBVIOUS
<1>2. PICK R : R = {p \in Nat \X Nat : p[1] < p[2]} OBVIOUS
<1>3. R = OpToRel(<, Nat) BY <1>2 DEF OpToRel
<1>4. IsWellFoundedOn(R, Nat) BY <1>3, NatLessThanWellFounded
<1>5. PICK n \in Nat \ Q : \A m \in Nat \ Q : ~(<<m, n>> \in R) BY <1>1, <1>4, WFMin
<1>6. n # 0 BY <1>5
<1>7. n - 1 \in Nat /\ (n - 1) + 1 = n BY <1>6
<1>8. <<n - 1, n>> \in R BY <1>2, <1>7
<1>9. n - 1 \in Q BY <1>5, <1>7, <1>8
<1> QED BY <1>7, <1>9

(* A row that the session is to know.                                         *)
Keeps(r, gone) == r \notin gone

(* f gives, for each n, what the session is to know of the first n rows.      *)
Knowing(f, rows, gone) ==
    /\ f \in [0..Len(rows) -> Seq(Rows)]
    /\ f[0] = <<>>
    /\ \A n \in 1..Len(rows) :
           f[n] = IF Keeps(rows[n], gone) THEN Append(f[n - 1], rows[n]) ELSE f[n - 1]

LEMMA KnowingExists ==
    ASSUME NEW rows \in Seq(Rows), NEW gone
    PROVE  \E f : Knowing(f, rows, gone)
<1> DEFINE L == Len(rows)
           F == [0..L -> Seq(Rows)]
           Step(f, n) == IF n = 0 THEN <<>>
                         ELSE IF Keeps(rows[n], gone) THEN Append(f[n - 1], rows[n])
                         ELSE f[n - 1]
           Upto(f, n) == \A i \in 0..L : i <= n => f[i] = Step(f, i)
           Good == {n \in Nat : \E f \in F : Upto(f, n)}
<1>1. L \in Nat /\ \A n \in 1..L : rows[n] \in Rows OBVIOUS
<1> HIDE DEF L
<1>2. ASSUME NEW f \in F, NEW n \in 0..L PROVE Step(f, n) \in Seq(Rows)
    <2>1. CASE n = 0 BY <2>1
    <2>2. CASE n # 0
        <3>1. n - 1 \in 0..L /\ n \in 1..L BY <1>1, <2>2
        <3>2. f[n - 1] \in Seq(Rows) /\ rows[n] \in Rows BY <1>1, <3>1
        <3> QED BY <2>2, <3>2
    <2> QED BY <2>1, <2>2
<1>3. 0 \in Good
    <2>1. PICK f : f = [i \in 0..L |-> <<>>] OBVIOUS
    <2>2. f \in F /\ Upto(f, 0) BY <1>1, <2>1
    <2> QED BY <2>2
<1>4. ASSUME NEW n \in Nat, n \in Good PROVE n + 1 \in Good
    <2>1. PICK f \in F : Upto(f, n) BY <1>4
    <2>2. PICK g : g = [i \in 0..L |-> Step(f, i)] OBVIOUS
    <2>3. g \in F BY <1>2, <2>2
    <2>4. ASSUME NEW i \in 0..L, i <= n + 1 PROVE g[i] = Step(g, i)
        <3>1. CASE i = 0 BY <2>2, <3>1
        <3>2. CASE i # 0
            <4>1. i - 1 \in 0..L /\ i - 1 <= n BY <1>1, <2>4, <3>2
            <4>2. g[i - 1] = f[i - 1] BY <2>1, <2>2, <4>1
            <4> QED BY <2>2, <3>2, <4>2
        <3> QED BY <3>1, <3>2
    <2>5. Upto(g, n + 1) BY <2>4
    <2> HIDE DEF Upto, F
    <2>6. \E h \in F : Upto(h, n + 1) BY <2>3, <2>5
    <2> QED BY <2>6
<1>5. Good = Nat
    <2>1. Good \in SUBSET Nat OBVIOUS
    <2> HIDE DEF Good
    <2> QED BY <2>1, <1>3, <1>4, NatInduct
<1>6. PICK f \in F : Upto(f, L) BY <1>1, <1>5
<1>7. f[0] = <<>> BY <1>1, <1>6
<1>8. ASSUME NEW n \in 1..L
      PROVE  f[n] = IF Keeps(rows[n], gone) THEN Append(f[n - 1], rows[n]) ELSE f[n - 1]
    <2>1. n \in 0..L /\ n <= L /\ n # 0 BY <1>1
    <2>2. f[n] = Step(f, n) BY <1>6, <2>1
    <2> QED BY <2>1, <2>2
<1>9. Knowing(f, rows, gone) BY <1>6, <1>7, <1>8 DEF Knowing, L
<1> QED BY <1>9

(* Two such functions agree as far as they go through the same rows.          *)
LEMMA KnowingSame ==
    ASSUME NEW r \in Seq(Rows), NEW s \in Seq(Rows), NEW f, NEW h, NEW g, NEW k,
           Knowing(f, r, g), Knowing(h, s, k), Len(r) <= Len(s),
           \A i \in 1..Len(r) : r[i] = s[i] /\ (Keeps(r[i], g) <=> Keeps(r[i], k))
    PROVE  f[Len(r)] = h[Len(r)]
<1> DEFINE Same == {n \in Nat : n <= Len(r) => f[n] = h[n]}
<1>1. 0 \in Same BY DEF Knowing
<1>2. ASSUME NEW n \in Nat, n \in Same PROVE n + 1 \in Same
    <2>1. SUFFICES ASSUME n + 1 <= Len(r) PROVE f[n + 1] = h[n + 1] OBVIOUS
    <2>2. f[n] = h[n] BY <1>2, <2>1
    <2>3. n + 1 \in 1..Len(r) /\ n + 1 \in 1..Len(s) /\ (n + 1) - 1 = n BY <2>1
    <2> QED BY <2>2, <2>3 DEF Knowing
<1>3. Same = Nat
    <2>1. Same \in SUBSET Nat OBVIOUS
    <2> HIDE DEF Same
    <2> QED BY <2>1, <1>1, <1>2, NatInduct
<1> QED BY <1>3

(* Known is the last value of such a function.                                *)
LEMMA KnownFun ==
    ASSUME NEW rows \in Seq(Rows), NEW gone
    PROVE  \E f : Knowing(f, rows, gone) /\ Known(rows, gone) = f[Len(rows)]
<1> DEFINE Eq(h) == h = [n \in 0..Len(rows) |->
                IF n = 0 THEN <<>>
                ELSE IF rows[n] \notin gone THEN Append(h[n - 1], rows[n])
                     ELSE h[n - 1]]
<1>1. PICK f : Knowing(f, rows, gone) BY KnowingExists
<1>2. Len(rows) \in Nat OBVIOUS
<1>3. Eq(f)
    <2>1. f = [n \in 0..Len(rows) |-> f[n]] BY <1>1 DEF Knowing
    <2>2. ASSUME NEW n \in 0..Len(rows)
          PROVE  f[n] = IF n = 0 THEN <<>>
                        ELSE IF rows[n] \notin gone THEN Append(f[n - 1], rows[n])
                             ELSE f[n - 1]
        <3>1. CASE n = 0 BY <1>1, <3>1 DEF Knowing
        <3>2. CASE n # 0
            <4>1. n \in 1..Len(rows) BY <1>2, <3>2
            <4> QED BY <1>1, <3>2, <4>1 DEF Knowing, Keeps
        <3> QED BY <3>1, <3>2
    <2> QED BY <2>1, <2>2
<1>4. PICK g : g = CHOOSE h : Eq(h) OBVIOUS
<1>5. Eq(g)
    <2> HIDE DEF Eq
    <2> QED BY <1>3, <1>4
<1>6. Known(rows, gone) = g[Len(rows)] BY <1>4 DEF Known
<1>7. Knowing(g, rows, gone)
    <2>1. g[0] = <<>> BY <1>2, <1>5
    <2>2. ASSUME NEW n \in 1..Len(rows)
          PROVE  g[n] = IF Keeps(rows[n], gone) THEN Append(g[n - 1], rows[n])
                        ELSE g[n - 1]
        <3>1. n \in 0..Len(rows) /\ n # 0 BY <1>2
        <3> QED BY <1>5, <3>1 DEF Keeps
    <2>3. g = f
        <3> DEFINE Same == {n \in Nat : n <= Len(rows) => g[n] = f[n]}
        <3>1. 0 \in Same BY <1>1, <2>1 DEF Knowing
        <3>2. ASSUME NEW n \in Nat, n \in Same PROVE n + 1 \in Same
            <4>1. SUFFICES ASSUME n + 1 <= Len(rows) PROVE g[n + 1] = f[n + 1] OBVIOUS
            <4>2. g[n] = f[n] BY <1>2, <3>2, <4>1
            <4>3. n + 1 \in 1..Len(rows) /\ (n + 1) - 1 = n BY <4>1
            <4> QED BY <1>1, <2>2, <4>2, <4>3 DEF Knowing
        <3>3. Same = Nat
            <4>1. Same \in SUBSET Nat OBVIOUS
            <4> HIDE DEF Same
            <4> QED BY <4>1, <3>1, <3>2, NatInduct
        <3>4. \A n \in 0..Len(rows) : g[n] = f[n] BY <3>3
        <3>5. g = [n \in 0..Len(rows) |-> g[n]] BY <1>5
        <3>6. f = [n \in 0..Len(rows) |-> f[n]] BY <1>1 DEF Knowing
        <3> QED BY <3>4, <3>5, <3>6
    <2> QED BY <1>1, <2>3
<1> QED BY <1>6, <1>7

LEMMA KnownEmpty == ASSUME NEW gone PROVE Known(<<>>, gone) = <<>>
<1>1. <<>> \in Seq(Rows) /\ Len(<<>>) = 0 OBVIOUS
<1>2. PICK s \in Seq(Rows) : s = <<>> BY <1>1
<1>3. PICK f : Knowing(f, s, gone) /\ Known(s, gone) = f[Len(s)] BY KnownFun
<1> QED BY <1>1, <1>2, <1>3 DEF Knowing

(* One row more.                                                              *)
LEMMA KnownAppend ==
    ASSUME NEW s \in Seq(Rows), NEW e \in Rows, NEW gone
    PROVE  Known(Append(s, e), gone) = IF Keeps(e, gone) THEN Append(Known(s, gone), e)
                                       ELSE Known(s, gone)
<1>1. PICK t : t = Append(s, e) OBVIOUS
<1>8. t \in Seq(Rows) BY <1>1
<1>2. Len(t) = Len(s) + 1 /\ t[Len(t)] = e /\ \A i \in 1..Len(s) : t[i] = s[i] BY <1>1
<1>3. PICK f : Knowing(f, s, gone) /\ Known(s, gone) = f[Len(s)] BY KnownFun
<1>4. PICK h : Knowing(h, t, gone) /\ Known(t, gone) = h[Len(t)] BY <1>8, KnownFun
<1>5. f[Len(s)] = h[Len(s)] BY <1>2, <1>3, <1>4, <1>8, KnowingSame
<1>6. Len(t) \in 1..Len(t) /\ Len(t) - 1 = Len(s) BY <1>2
<1>7. h[Len(t)] = IF Keeps(e, gone) THEN Append(h[Len(s)], e) ELSE h[Len(s)]
    BY <1>2, <1>4, <1>6 DEF Knowing
<1> QED BY <1>1, <1>3, <1>4, <1>5, <1>7

(* What is not among the rows does not matter.                                *)
LEMMA KnownSame ==
    ASSUME NEW s \in Seq(Rows), NEW g, NEW k,
           \A i \in 1..Len(s) : Keeps(s[i], g) <=> Keeps(s[i], k)
    PROVE  Known(s, g) = Known(s, k)
<1>1. PICK f : Knowing(f, s, g) /\ Known(s, g) = f[Len(s)] BY KnownFun
<1>2. PICK h : Knowing(h, s, k) /\ Known(s, k) = h[Len(s)] BY KnownFun
<1>3. f[Len(s)] = h[Len(s)] BY <1>1, <1>2, KnowingSame
<1> QED BY <1>1, <1>2, <1>3

(* All rows are known if none was missed.                                     *)
LEMMA KnownAll == ASSUME NEW s \in Seq(Rows) PROVE Known(s, {}) = s
<1>1. PICK f : Knowing(f, s, {}) /\ Known(s, {}) = f[Len(s)] BY KnownFun
<1> DEFINE Whole == {n \in Nat : n <= Len(s) => f[n] = [i \in 1..n |-> s[i]]}
<1>2. 0 \in Whole BY <1>1 DEF Knowing
<1>3. ASSUME NEW n \in Nat, n \in Whole PROVE n + 1 \in Whole
    <2>1. SUFFICES ASSUME n + 1 <= Len(s) PROVE f[n + 1] = [i \in 1..(n + 1) |-> s[i]]
        OBVIOUS
    <2>2. f[n] = [i \in 1..n |-> s[i]] BY <1>3, <2>1
    <2>3. n + 1 \in 1..Len(s) /\ (n + 1) - 1 = n BY <2>1
    <2>4. f[n + 1] = Append(f[n], s[n + 1]) BY <1>1, <2>3 DEF Knowing, Keeps
    <2>5. f[n] \in Seq(Rows) /\ s[n + 1] \in Rows BY <1>1, <2>3 DEF Knowing
    <2>6. Len(f[n]) = n BY <2>2, <2>5
    <2>7. f[n + 1] = [i \in 1..(n + 1) |-> IF i = n + 1 THEN s[n + 1] ELSE f[n][i]]
        BY <2>4, <2>5, <2>6
    <2> QED BY <2>2, <2>7
<1>4. Whole = Nat
    <2>1. Whole \in SUBSET Nat OBVIOUS
    <2> HIDE DEF Whole
    <2> QED BY <2>1, <1>2, <1>3, NatInduct
<1>5. f[Len(s)] = [i \in 1..Len(s) |-> s[i]] BY <1>4
<1> QED BY <1>1, <1>5

-----------------------------------------------------------------------------
(* Rows with a prompt or an answer behind them.                               *)

LEMMA RowsOfAppend ==
    ASSUME NEW h \in Seq(Remembered), NEW m \in Remembered
    PROVE  RowsOf(Append(h, m)) = Append(RowsOf(h), m.row)
<1>1. PICK g : g = Append(h, m) OBVIOUS
<1>2. /\ Len(g) = Len(h) + 1 /\ g[Len(g)] = m /\ Len(h) \in Nat
      /\ \A i \in 1..Len(h) : g[i] = h[i]
    BY <1>1
<1>3. \A i \in 1..Len(h) : h[i].row \in Rows
    <2>1. \A i \in 1..Len(h) : h[i] \in Remembered OBVIOUS
    <2> QED BY <2>1 DEF Remembered
<1>4. PICK r : r = RowsOf(h) OBVIOUS
<1>5. r \in Seq(Rows) /\ Len(r) = Len(h) /\ \A i \in 1..Len(h) : r[i] = h[i].row
    BY <1>3, <1>4 DEF RowsOf
<1>6. PICK e \in Rows : e = m.row BY DEF Remembered
<1>7. Append(r, e) = [i \in 1..(Len(h) + 1) |-> IF i = Len(h) + 1 THEN e ELSE r[i]]
    <2>1. PICK s : s = Append(r, e) OBVIOUS
    <2>2. /\ s \in Seq(Rows) /\ Len(s) = Len(h) + 1 /\ s[Len(h) + 1] = e
          /\ \A i \in 1..Len(h) : s[i] = r[i]
        BY <1>2, <1>5, <2>1
    <2>3. s = [i \in 1..(Len(h) + 1) |-> s[i]] BY <2>2
    <2>4. \A i \in 1..(Len(h) + 1) : s[i] = IF i = Len(h) + 1 THEN e ELSE r[i]
        BY <1>2, <2>2
    <2> QED BY <2>1, <2>3, <2>4
<1>8. RowsOf(g) = [i \in 1..(Len(h) + 1) |-> g[i].row] BY <1>2 DEF RowsOf
<1>9. \A i \in 1..(Len(h) + 1) : g[i].row = IF i = Len(h) + 1 THEN e ELSE r[i]
    BY <1>2, <1>5, <1>6
<1>10. RowsOf(g) = Append(r, e) BY <1>7, <1>8, <1>9
<1> QED BY <1>1, <1>4, <1>6, <1>10

LEMMA LabelledAppend ==
    ASSUME NEW h \in Seq(Remembered), NEW m \in Remembered, Labelled(h), m.label = m.row.role
    PROVE  Labelled(Append(h, m))
<1>1. PICK g : g = Append(h, m) OBVIOUS
<1>2. /\ Len(g) = Len(h) + 1 /\ g[Len(g)] = m /\ Len(h) \in Nat
      /\ \A i \in 1..Len(h) : g[i] = h[i]
    BY <1>1
<1>3. \A i \in 1..Len(g) : i \in 1..Len(h) \/ i = Len(g) BY <1>2
<1>4. Labelled(g) BY <1>2, <1>3 DEF Labelled
<1> QED BY <1>1, <1>4

(* Rows that are paired were so before the last prompt and its answer.        *)
LEMMA PairedBefore ==
    ASSUME NEW s \in Seq(Rows), NEW p \in Rows, NEW a \in Rows, p.role = "user",
           Paired(Append(Append(s, p), a))
    PROVE  Paired(s)
<1>1. PICK t : t = Append(Append(s, p), a) OBVIOUS
<1>2. /\ Len(s) \in Nat /\ Len(t) = Len(s) + 2 /\ t[Len(s) + 1] = p
      /\ \A i \in 1..Len(s) : t[i] = s[i]
    BY <1>1
<1>3. SUFFICES ASSUME NEW i \in 1..Len(s), s[i].role = "user"
               PROVE  i < Len(s) /\ s[i + 1].role = "assistant"
    BY DEF Paired
<1>4. i \in 1..Len(t) /\ t[i].role = "user" BY <1>2, <1>3
<1>5. t[i + 1].role = "assistant" BY <1>1, <1>4 DEF Paired
<1>6. i # Len(s) BY <1>2, <1>5
<1> QED BY <1>2, <1>5, <1>6

(* The positions by which a native session labels the saved rows are right if *)
(* each prompt has its answer.                                                *)
LEMMA LabelledAnew ==
    ASSUME NEW s \in Seq(Rows), Paired(s),
           \A i \in 1..Len(s) : s[i].role = "assistant" => i > 1 /\ s[i - 1].role = "user"
    PROVE  Labelled(Label(s))
<1> DEFINE Right == {n \in Nat : n + 1 <= Len(s) =>
                         (s[n + 1].role = "user" <=> (n + 1) % 2 = 1)}
<1>1. Len(s) \in Nat /\ \A i \in 1..Len(s) : s[i].role \in {"user", "assistant"}
    <2>1. Len(s) \in Nat /\ \A i \in 1..Len(s) : s[i] \in Rows OBVIOUS
    <2> QED BY <2>1 DEF Rows
<1>2. 0 \in Right
    <2>1. SUFFICES ASSUME 1 <= Len(s) PROVE s[1].role = "user" OBVIOUS
    <2>2. 1 \in 1..Len(s) BY <1>1, <2>1
    <2> QED BY <1>1, <2>2
<1>3. ASSUME NEW n \in Nat, n \in Right PROVE n + 1 \in Right
    <2>1. SUFFICES ASSUME n + 2 <= Len(s)
                   PROVE  s[n + 2].role = "user" <=> (n + 2) % 2 = 1
        OBVIOUS
    <2>2. n + 1 \in 1..Len(s) /\ n + 2 \in 1..Len(s) /\ (n + 2) - 1 = n + 1
        BY <1>1, <2>1
    <2>3. s[n + 1].role = "user" <=> (n + 1) % 2 = 1 BY <1>3, <2>1
    <2>4. s[n + 2].role = "user" <=> s[n + 1].role # "user"
        <3>1. s[n + 1].role = "user" => s[n + 2].role = "assistant"
            BY <2>2 DEF Paired
        <3>2. s[n + 2].role = "assistant" => s[n + 1].role = "user" BY <2>2
        <3> QED BY <1>1, <2>2, <3>1, <3>2
    <2>5. (n + 2) % 2 = 1 <=> (n + 1) % 2 # 1 OBVIOUS
    <2> QED BY <2>3, <2>4, <2>5
<1>4. Right = Nat
    <2>1. Right \in SUBSET Nat OBVIOUS
    <2> HIDE DEF Right
    <2> QED BY <2>1, <1>2, <1>3, NatInduct
<1>5. ASSUME NEW i \in 1..Len(s) PROVE s[i].role = IF i % 2 = 1 THEN "user" ELSE "assistant"
    <2>1. i - 1 \in Nat /\ (i - 1) + 1 = i BY <1>1
    <2>3. \A n \in Nat : n + 1 <= Len(s) =>
                             (s[n + 1].role = "user" <=> (n + 1) % 2 = 1)
        BY <1>4
    <2> HIDE DEF Right
    <2>2. s[i].role = "user" <=> i % 2 = 1
        <3>1. PICK n \in Nat : n = i - 1 BY <2>1
        <3>2. n + 1 = i /\ n + 1 <= Len(s) BY <1>1, <3>1
        <3> QED BY <2>3, <3>2
    <2> QED BY <1>1, <2>2
<1>6. PICK h : h = Label(s) OBVIOUS
<1>7. Len(h) = Len(s) BY <1>1, <1>6 DEF Label
<1>8. \A i \in 1..Len(s) : h[i].label = (IF i % 2 = 1 THEN "user" ELSE "assistant")
                           /\ h[i].row = s[i]
    BY <1>6 DEF Label
<1> QED BY <1>5, <1>6, <1>7, <1>8 DEF Labelled

LEMMA RowsOfLabel == ASSUME NEW s \in Seq(Rows) PROVE RowsOf(Label(s)) = s
<1>1. PICK h : h = Label(s) OBVIOUS
<1>2. Len(s) \in Nat /\ s = [i \in 1..Len(s) |-> s[i]] OBVIOUS
<1>3. Len(h) = Len(s) /\ \A i \in 1..Len(s) : h[i].row = s[i] BY <1>1, <1>2 DEF Label
<1> QED BY <1>1, <1>2, <1>3 DEF RowsOf

-----------------------------------------------------------------------------
(* The steps keep the invariant of the conversation.                          *)

(* In the list of models little is to be kept.                                *)
LEMMA AwayKeeps == ASSUME RowsOK', ui' = "list" PROVE HistoryInv'
BY DEF HistoryInv, OrderOK, PromptOK, RememberedOK

(* Steps of the threads that change nothing of what is said.                  *)
LEMMA TalkKept ==
    ASSUME HistoryInv, OrderOK', ui' = ui, UNCHANGED <<turn, db, missed>>,
           ui = "chat" => Told' = Told,
           \/ pc'["gen"] = pc["gen"]
           \/ pc["gen"] = "queued" /\ pc'["gen"] = "started"
           \/ pc["gen"] = "exit" /\ pc'["gen"] = "posted" /\ ui = "chat"
           \/ ui # "chat" /\ pc'["gen"] = "idle",
           pc'["reset"] = "native" <=> pc["reset"] = "native"
    PROVE  HistoryInv'
<1>1. RowsOK' BY DEF HistoryInv, RowsOK
<1>2. PromptOK' BY DEF HistoryInv, PromptOK, Prompt, Answer
<1>3. CASE ui # "chat" BY <1>1, <1>2, <1>3 DEF HistoryInv, RememberedOK
<1>4. CASE ui = "chat"
    <2>4. \A f : KnownBefore(f) => KnownBefore(f)' BY <1>4 DEF KnownBefore, Prompt
    <2>1. KnownOK => KnownOK' BY <1>4, <2>4 DEF KnownOK, Answer
    <2>2. LabelsOK => LabelsOK' BY <1>4 DEF LabelsOK, Answer
    <2>3. RememberedOK' BY <1>4, <2>1, <2>2 DEF HistoryInv, RememberedOK
    <2> QED BY <1>1, <1>2, <2>3 DEF HistoryInv
<1> QED BY <1>3, <1>4

LEMMA ReleasingKeeps ==
    ASSUME ChatInv, HistoryInv, NEW t \in {"load", "clean"}, Releasing(t)
    PROVE  HistoryInv'
<1> USE ChatParts DEF ThreadsOK, Releasing, Release, ReleaseRequest, ReleaseTest,
    ReleaseWoken, ReleaseEnd, ReleaseInner, Goto, Enter, uiVars, talkVars
<1>1. ui # "chat" BY DEF HistoryInv, OrderOK, CoursesOK, Threads
<1>2. ui' = "list" BY <1>1 DEF FlagsOK
<1>3. pc'["gen"] = pc["gen"] \/ pc'["gen"] = "woken" BY DEF Threads
<1>4. RowsOK' BY <1>1, <1>2, <1>3 DEF HistoryInv, RowsOK
<1> QED BY <1>2, <1>4, AwayKeeps

LEMMA UserKeeps ==
    ASSUME ChatInv, HistoryInv, Uses = {}, StopGenerate \/ NewChat
    PROVE  HistoryInv'
<1> USE ChatParts DEF ThreadsOK, StopGenerate, NewChat, Goto, uiVars, lockVars,
    nativeVars, talkVars, Hasty
<1>1. OrderOK' BY DEF HistoryInv, OrderOK, Coming, Threads
<1>2. Told' = Told BY DEF Told, Coming, Threads
<1>3. pc'["gen"] = pc["gen"] /\ (pc'["reset"] = "native" <=> pc["reset"] = "native")
    BY DEF Threads
<1> QED BY <1>1, <1>2, <1>3, TalkKept

LEMMA LoadKeeps ==
    ASSUME ChatInv, HistoryInv, LoadStart \/ LoadBegin \/ LoadEnd \/ LoadCheck
    PROVE  HistoryInv'
<1> USE ChatParts DEF ThreadsOK, LoadStart, LoadBegin, LoadEnd, LoadCheck, Goto, uiVars,
    lockVars, nativeVars, talkVars
<1>1. OrderOK' BY DEF HistoryInv, OrderOK, Coming, Threads
<1>2. Told' = Told BY DEF Told, Coming, Threads
<1>3. pc'["gen"] = pc["gen"] /\ (pc'["reset"] = "native" <=> pc["reset"] = "native")
    BY DEF Threads
<1> QED BY <1>1, <1>2, <1>3, TalkKept

LEMMA GenStepKeeps ==
    ASSUME ChatInv, HistoryInv, GenStart \/ GenExit
    PROVE  HistoryInv'
<1> USE ChatParts DEF ThreadsOK, GenStart, GenExit, ReleaseInner, Goto, uiVars,
    lockVars, nativeVars, talkVars
<1>1. OrderOK' BY DEF HistoryInv, OrderOK, Coming, Threads
<1>2. ui = "chat" => Told' = Told BY DEF Told, Coming, Threads, HistoryInv, OrderOK
<1>3. /\ \/ pc["gen"] = "queued" /\ pc'["gen"] = "started"
         \/ pc["gen"] = "exit" /\ pc'["gen"] = "posted" /\ ui = "chat"
         \/ ui # "chat" /\ pc'["gen"] = "idle"
    BY DEF Threads, HistoryInv, OrderOK
<1>4. pc'["reset"] = "native" <=> pc["reset"] = "native" BY DEF Threads
<1> QED BY <1>1, <1>2, <1>3, <1>4, TalkKept

LEMMA ApiKeeps ==
    ASSUME ChatInv, HistoryInv, ApiBegin \/ ApiRunning \/ ApiExit
    PROVE  HistoryInv'
<1> USE ChatParts DEF ThreadsOK, ApiBegin, ApiRunning, ApiPrompt, ApiEnter, ApiToken,
    ApiExit, Goto, uiVars, lockVars, nativeVars, talkVars
<1>1. OrderOK' BY DEF HistoryInv, OrderOK, Coming, Threads
<1>2. Told' = Told BY DEF Told, Coming, Threads
<1>3. pc'["gen"] = pc["gen"] /\ (pc'["reset"] = "native" <=> pc["reset"] = "native")
    BY DEF Threads
<1> QED BY <1>1, <1>2, <1>3, TalkKept

(* The session of a chat is going to be told all rows.                        *)
LEMMA OpenKeeps == ASSUME ChatInv, HistoryInv, Open PROVE HistoryInv'
<1> USE ChatParts DEF ThreadsOK, Open, Goto, Quiet
<1>1. RowsOK' BY DEF HistoryInv, RowsOK
<1>2. OrderOK' BY DEF OrderOK, Coming, Threads
<1>3. PromptOK' BY DEF PromptOK, Threads
<1>4. RememberedOK'
    <2>1. PICK s \in Seq(Rows) : s = db BY DEF TalkOK
    <2>2. /\ Told' = Label(s) /\ missed' = {} /\ db' = s
          /\ pc'["gen"] = "idle" /\ pc'["reset"] = "idle"
        BY <2>1 DEF Told, Coming, Label, Threads
    <2>3. RowsOf(Label(s)) = s /\ Known(s, {}) = s BY RowsOfLabel, KnownAll
    <2>4. Paired(s) => Labelled(Label(s)) BY <2>1, LabelledAnew DEF HistoryInv, RowsOK
    <2>5. KnownOK' BY <2>2, <2>3 DEF KnownOK
    <2>6. LabelsOK' BY <2>2, <2>4 DEF LabelsOK
    <2> QED BY <2>2, <2>5, <2>6 DEF RememberedOK
<1> QED BY <1>1, <1>2, <1>3, <1>4 DEF HistoryInv

LEMMA LeavingKeeps ==
    ASSUME ChatInv, HistoryInv, Destroy \/ ChatKill
    PROVE  HistoryInv'
<1> USE ChatParts DEF ThreadsOK, Destroy, ChatKill, talkVars
<1>1. ui' = "list" OBVIOUS
<1>2. pc'["gen"] \notin {"queued", "posted"} BY DEF Threads
<1>3. turn \in Nat BY DEF TalkOK
<1>4. RowsOK' BY <1>1, <1>2, <1>3 DEF HistoryInv, RowsOK
<1> QED BY <1>1, <1>4, AwayKeeps

(* A new native session is told the rows with which the chat was opened.      *)
LEMMA LoadNativeKeeps == ASSUME ChatInv, HistoryInv, LoadNative PROVE HistoryInv'
<1> USE ChatParts DEF ThreadsOK, LoadNative, Goto, uiVars, lockVars
<1>1. OrderOK' BY DEF HistoryInv, OrderOK, Coming, SessionsOK, Threads
<1>2. Told' = Told BY DEF Told, Coming, Threads
<1>3. pc'["gen"] = pc["gen"] /\ (pc'["reset"] = "native" <=> pc["reset"] = "native")
    BY DEF Threads
<1> QED BY <1>1, <1>2, <1>3, TalkKept

LEMMA CleanResetKeeps == ASSUME ChatInv, HistoryInv, CleanReset PROVE HistoryInv'
<1> USE ChatParts DEF ThreadsOK, CleanReset, ResetNative, Goto, uiVars, lockVars, nativeVars
<1>1. ui' = "list" BY DEF CoursesOK, FlagsOK, Threads
<1>2. RowsOK' BY DEF HistoryInv, RowsOK, Threads
<1> QED BY <1>1, <1>2, AwayKeeps

LEMMA ResetDeleteKeeps == ASSUME ChatInv, HistoryInv, ResetDelete PROVE HistoryInv'
<1> USE ChatParts DEF ThreadsOK, ResetDelete, Goto, uiVars, lockVars, nativeVars
<1>1. RowsOK' BY DEF HistoryInv, RowsOK, Threads
<1>2. OrderOK' BY DEF HistoryInv, OrderOK, Coming, Threads
<1>3. ui = "chat" => pc["gen"] = "idle" BY DEF HistoryInv, OrderOK
<1>4. PromptOK' BY <1>3 DEF PromptOK, Threads
<1>5. pc'["reset"] = "native" /\ Len(db') = 0 BY DEF Threads
<1>7. RememberedOK' BY <1>5 DEF HistoryInv, RememberedOK
<1> QED BY <1>1, <1>2, <1>4, <1>7 DEF HistoryInv

LEMMA ResetSessionKeeps == ASSUME ChatInv, HistoryInv, ResetSession PROVE HistoryInv'
<1> USE ChatParts DEF ThreadsOK, ResetSession, ResetNative, Goto, uiVars, lockVars,
    nativeVars
<1>1. RowsOK' BY DEF HistoryInv, RowsOK, Threads
<1>2. OrderOK' BY DEF HistoryInv, OrderOK, Coming, Threads
<1>3. ui = "chat" => pc["gen"] = "idle" BY DEF HistoryInv, OrderOK
<1>4. PromptOK' BY <1>3 DEF PromptOK, Threads
<1>5. RememberedOK'
    <2>2. SUFFICES ASSUME ui = "chat" PROVE RememberedOK' BY DEF RememberedOK
    <2>1. ~Coming /\ ptr # 0 BY <2>2 DEF HistoryInv, OrderOK, Coming
    <2>3. Len(db) = 0 BY <2>2 DEF HistoryInv, RememberedOK
    <2>4. db = <<>> BY <2>3 DEF TalkOK
    <2>5. Told' = <<>> /\ missed' = {} /\ db' = <<>> /\ pc'["gen"] = "idle"
        BY <1>3, <2>1, <2>2, <2>4 DEF Told, Coming, Threads
    <2>6. RowsOf(<<>>) = <<>> /\ Labelled(<<>>) BY DEF RowsOf, Labelled
    <2>7. KnownOK' BY <2>5, <2>6, KnownEmpty DEF KnownOK
    <2>8. LabelsOK' BY <2>5, <2>6 DEF LabelsOK
    <2>9. pc'["reset"] # "native" BY DEF Threads
    <2> QED BY <2>7, <2>8, <2>9 DEF RememberedOK
<1> QED BY <1>1, <1>2, <1>4, <1>5 DEF HistoryInv

(* The prompt of the new turn is a row, and the session is to know it.        *)
LEMMA SendKeeps ==
    ASSUME ChatInv, ChatInv', HistoryInv, Uses = {}, SendUserMessage
    PROVE  HistoryInv'
<1> USE ChatParts DEF ThreadsOK, SendUserMessage, Goto, Hasty, lockVars, nativeVars
<1>1. PICK s \in Seq(Rows), n \in Nat : s = db /\ n = turn + 1 BY DEF TalkOK
<1>2. PICK p \in Rows : p = Row("user", n)
    <2>1. n \in 1..MaxTurns BY <1>1, ChatAssumption DEF TalkOK
    <2> QED BY <2>1 DEF Row, Rows
<1>3. p.role = "user" /\ p.turn = n BY <1>2 DEF Row
<1>15. Append(s, p) \in Seq(Rows) OBVIOUS
<1>4. PICK d \in Seq(Rows) : d = Append(s, p) BY <1>15
<1>5. db' = d /\ turn' = n /\ turn = n - 1 BY <1>1, <1>2, <1>4 DEF TalkOK
<1>6. /\ Len(d) = Len(s) + 1 /\ d[Len(d)] = p /\ Len(s) \in Nat
      /\ \A i \in 1..Len(s) : d[i] = s[i]
      /\ \A i \in 1..Len(d) : i \in 1..Len(s) \/ i = Len(d)
    BY <1>4
<1>16. missed' = missed /\ \A r \in missed : r.turn \in Nat /\ r.turn <= n - 1
    <2>1. \A r \in missed : r \in Rows BY DEF TalkOK
    <2>2. \A r \in missed : r.turn \in Nat BY <2>1, ChatAssumption DEF Rows
    <2> QED BY <1>5, <2>2 DEF HistoryInv, RowsOK
<1>7. RowsOK'
    <2>1. \A i \in 1..Len(s) : s[i].turn <= n - 1 BY <1>1, <1>5 DEF HistoryInv, RowsOK
    <2>2. \A i \in 1..Len(s) : s[i].turn \in Nat
        <3>1. \A i \in 1..Len(s) : s[i] \in Rows OBVIOUS
        <3> QED BY <3>1, ChatAssumption DEF Rows
    <2>3. ASSUME NEW i \in 1..Len(d) PROVE d[i].turn <= n
        <3>1. CASE i \in 1..Len(s)
            <4>1. d[i] = s[i] /\ s[i].turn \in Nat /\ s[i].turn <= n - 1
                BY <1>6, <2>1, <2>2, <3>1
            <4> QED BY <4>1
        <3>2. CASE i = Len(d) BY <1>3, <1>6, <3>2
        <3> QED BY <1>6, <3>1, <3>2
    <2>4. \A i \in 1..Len(s) : s[i].role = "assistant" => i > 1 /\ s[i - 1].role = "user"
        BY <1>1 DEF HistoryInv, RowsOK
    <2>5. ASSUME NEW i \in 1..Len(d), d[i].role = "assistant"
          PROVE  i > 1 /\ d[i - 1].role = "user"
        <3>1. i \in 1..Len(s) BY <1>3, <1>6, <2>5
        <3>2. i > 1 /\ s[i - 1].role = "user" BY <1>6, <2>4, <2>5, <3>1
        <3>3. i - 1 \in 1..Len(s) BY <3>1, <3>2
        <3> QED BY <1>6, <3>2, <3>3
    <2>6. \A r \in missed' : r.turn <= n BY <1>16
    <2> QED BY <1>5, <2>3, <2>5, <2>6 DEF RowsOK
<1>8. OrderOK' BY DEF HistoryInv, OrderOK, Coming, Threads
<1>9. /\ ui = "chat" /\ ui' = "chat" /\ pc["gen"] = "idle" /\ pc'["gen"] = "queued"
      /\ pc["reset"] = "idle" /\ pc'["reset"] = "idle" /\ Told' = Told
    BY DEF Told, Coming, Threads
<1>10. PromptOK'
    <2>1. Prompt' = p BY <1>2, <1>5 DEF Prompt
    <2>2. \A i \in 1..Len(s) : s[i].turn \in Nat /\ s[i].turn <= n - 1
        <3>1. \A i \in 1..Len(s) : s[i] \in Rows OBVIOUS
        <3>2. \A i \in 1..Len(s) : s[i].turn \in Nat BY <3>1, ChatAssumption DEF Rows
        <3>3. \A i \in 1..Len(s) : s[i].turn <= n - 1 BY <1>1, <1>5 DEF HistoryInv, RowsOK
        <3> QED BY <3>2, <3>3
    <2>3. ASSUME NEW i \in 1..Len(d), d[i].role = "assistant" PROVE d[i].turn < n
        <3>1. i \in 1..Len(s) BY <1>3, <1>6, <2>3
        <3>2. d[i] = s[i] /\ s[i].turn \in Nat /\ s[i].turn <= n - 1
            BY <1>6, <2>2, <3>1
        <3> QED BY <3>2
    <2>4. Prompt' \notin missed' /\ Answer' \notin missed'
        BY <1>5, <1>16 DEF Prompt, Answer, Row
    <2> QED BY <1>5, <1>6, <2>1, <2>3, <2>4 DEF PromptOK
<1>11. KnownOK /\ LabelsOK BY <1>9 DEF HistoryInv, RememberedOK
<1>12. KnownOK'
    <2>1. RowsOf(Told) = Known(s, missed) BY <1>1, <1>9, <1>11 DEF KnownOK
    <2>2. Prompt' = p BY <1>2, <1>5 DEF Prompt
    <2>3. \A i \in 1..Len(s) : s[i].turn < turn'
        <3>1. \A i \in 1..Len(s) : s[i] \in Rows OBVIOUS
        <3>2. \A i \in 1..Len(s) : s[i].turn \in Nat BY <3>1, ChatAssumption DEF Rows
        <3>3. \A i \in 1..Len(s) : s[i].turn <= n - 1 BY <1>1, <1>5 DEF HistoryInv, RowsOK
        <3> QED BY <1>5, <3>2, <3>3
    <2>4. KnownBefore(s)' BY <1>4, <1>5, <1>9, <1>16, <2>1, <2>2, <2>3 DEF KnownBefore
    <2> QED BY <1>9, <2>4 DEF KnownOK
<1>13. LabelsOK'
    <2>1. PICK a \in Rows : a = Row("assistant", n)
        <3>1. n \in 1..MaxTurns BY <1>1, ChatAssumption DEF TalkOK
        <3> QED BY <3>1 DEF Row, Rows
    <2>2. Answer' = a BY <1>5, <2>1 DEF Answer
    <2>3. Paired(Append(d, a)) => Paired(s) BY <1>3, <1>4, PairedBefore
    <2>4. Paired(s) => Labelled(Told) BY <1>1, <1>9, <1>11 DEF LabelsOK
    <2> QED BY <1>5, <1>9, <2>2, <2>3, <2>4 DEF LabelsOK
<1>14. RememberedOK' BY <1>9, <1>12, <1>13 DEF RememberedOK
<1> QED BY <1>7, <1>8, <1>10, <1>14 DEF HistoryInv

(* The answer is a row, whether it was cut off or not.                        *)
LEMMA FinishedKeeps ==
    ASSUME ChatInv, HistoryInv, GenerateFinished
    PROVE  HistoryInv'
<1> USE ChatParts DEF ThreadsOK, GenerateFinished, Goto, lockVars, nativeVars
<1>1. /\ ui = "chat" /\ ui' = "chat" /\ pc["reset"] = "idle" /\ pc'["reset"] = "idle"
      /\ pc'["gen"] = "idle" /\ pc["gen"] = "posted" /\ Told' = Told
    BY DEF HistoryInv, RowsOK, OrderOK, Told, Coming, Threads
<1>2. turn \in 1..MaxTurns BY <1>1 DEF TalkOK, CoursesOK
<1>3. PICK s \in Seq(Rows) : s = db BY DEF TalkOK
<1>4. PICK a \in Rows : a = Answer BY <1>2 DEF Answer, Row, Rows
<1>5. a.role = "assistant" /\ a.turn = turn BY <1>4 DEF Answer, Row
<1>16. Append(s, a) \in Seq(Rows) OBVIOUS
<1>6. PICK d \in Seq(Rows) : d = Append(s, a) BY <1>16
<1>7. db' = d BY <1>3, <1>4, <1>6 DEF Answer
<1>8. /\ Len(d) = Len(s) + 1 /\ d[Len(d)] = a /\ Len(s) \in Nat
      /\ \A i \in 1..Len(s) : d[i] = s[i]
      /\ \A i \in 1..Len(d) : i \in 1..Len(s) \/ i = Len(d)
    BY <1>6
<1>9. RowsOK'
    <2>1. \A i \in 1..Len(s) : s[i].turn <= turn BY <1>3 DEF HistoryInv, RowsOK
    <2>2. \A i \in 1..Len(d) : d[i].turn <= turn BY <1>2, <1>5, <1>8, <2>1
    <2>3. \A i \in 1..Len(s) : s[i].role = "assistant" => i > 1 /\ s[i - 1].role = "user"
        BY <1>3 DEF HistoryInv, RowsOK
    <2>4. Len(s) > 0 /\ s[Len(s)].role = "user"
        BY <1>1, <1>3 DEF HistoryInv, PromptOK, Prompt, Row
    <2>5. ASSUME NEW i \in 1..Len(d), d[i].role = "assistant"
          PROVE  i > 1 /\ d[i - 1].role = "user"
        <3>1. CASE i \in 1..Len(s)
            <4>1. i > 1 /\ s[i - 1].role = "user" BY <1>8, <2>3, <2>5, <3>1
            <4>2. i - 1 \in 1..Len(s) BY <3>1, <4>1
            <4> QED BY <1>8, <4>1, <4>2
        <3>2. CASE i = Len(d)
            <4>1. i > 1 /\ i - 1 = Len(s) /\ Len(s) \in 1..Len(s) BY <1>8, <2>4, <3>2
            <4> QED BY <1>8, <2>4, <4>1
        <3> QED BY <1>8, <3>1, <3>2
    <2> QED BY <1>1, <1>7, <2>2, <2>5 DEF HistoryInv, RowsOK
<1>10. OrderOK' BY DEF HistoryInv, OrderOK, Coming, Threads
<1>11. PromptOK' BY <1>1 DEF PromptOK
<1>12. KnownOK /\ LabelsOK BY <1>1 DEF HistoryInv, RememberedOK
<1>13. KnownOK' BY <1>1, <1>3, <1>4, <1>6, <1>7, <1>12 DEF KnownOK
<1>14. LabelsOK' BY <1>1, <1>3, <1>4, <1>6, <1>7, <1>12 DEF LabelsOK
<1>15. RememberedOK' BY <1>1, <1>12, <1>13, <1>14 DEF RememberedOK
<1> QED BY <1>9, <1>10, <1>11, <1>15 DEF HistoryInv

(* The session is told the prompt.                                            *)
LEMMA GenEnterKeeps ==
    ASSUME ChatInv, HistoryInv, GenEnter
    PROVE  HistoryInv'
<1> USE ChatParts DEF ThreadsOK, GenEnter, Goto, Enter, uiVars, nativeVars
<1>1. /\ pc["gen"] = "started" /\ pc'["gen"] = IF ptr = 0 THEN "exit" ELSE "decode"
      /\ pc'["reset"] = pc["reset"] /\ pc'["load"] = pc["load"]
    BY DEF Threads
<1>10. turn \in 1..MaxTurns BY <1>1 DEF TalkOK, CoursesOK
<1>11. PICK p \in Rows, a \in Rows : p = Prompt /\ a = Answer
    BY <1>10 DEF Prompt, Answer, Row, Rows
<1>12. p.turn = turn /\ a.turn = turn /\ p.role = "user" /\ Prompt' = p /\ Answer' = a
    BY <1>11 DEF Prompt, Answer, Row
<1>2. RowsOK'
    <2>1. missed' = missed \/ missed' = missed \cup {p, a} BY <1>11 DEF Prompt, Answer
    <2>2. \A r \in missed' : r.turn <= turn BY <1>10, <1>12, <2>1 DEF HistoryInv, RowsOK
    <2> QED BY <1>1, <2>2 DEF HistoryInv, RowsOK
<1>3. CASE ui # "chat" BY <1>2, <1>3, AwayKeeps DEF FlagsOK
<1>4. CASE ui = "chat"
    <2>1. /\ pc["reset"] = "idle" /\ KnownOK /\ LabelsOK /\ Coming' = Coming
          /\ ptr = 0 <=> Coming
        BY <1>1, <1>4 DEF HistoryInv, OrderOK, RememberedOK, Coming
    <2>2. OrderOK' BY <1>1, <1>4, <2>1 DEF HistoryInv, OrderOK
    <2>3. PromptOK' BY <1>1, <1>4 DEF HistoryInv, PromptOK, Prompt, Answer
    <2>4. PICK f \in Seq(Rows) : KnownBefore(f) BY <1>1, <2>1 DEF KnownOK
    <2>5. PICK d \in Seq(Rows) : d = db BY DEF TalkOK
    <2>6. d = Append(f, p) /\ RowsOf(Told) = Known(f, missed)
        BY <1>11, <2>4, <2>5 DEF KnownBefore
    <2>7. ASSUME ptr = 0 PROVE KnownOK' /\ LabelsOK'
        <3>1. /\ Told' = Told /\ missed' = missed \cup {p, a}
              /\ pc'["gen"] = "exit" /\ db' = d
            BY <1>1, <1>11, <2>1, <2>5, <2>7 DEF Told, Prompt, Answer
        <3>2. PICK g : g = missed \cup {p, a} OBVIOUS
        <3>3. \A i \in 1..Len(f) : f[i].turn < turn BY <2>4 DEF KnownBefore
        <3>4. \A i \in 1..Len(f) : Keeps(f[i], missed) <=> Keeps(f[i], g)
            BY <1>10, <1>12, <3>2, <3>3 DEF Keeps
        <3>5. Known(f, missed) = Known(f, g) BY <3>4, KnownSame
        <3>6. Known(d, g) = Known(f, g) BY <2>6, <3>2, KnownAppend DEF Keeps
        <3>7. Known(Append(d, a), g) = Known(d, g) BY <3>2, KnownAppend DEF Keeps
        <3>8. KnownOK' BY <1>12, <2>6, <3>1, <3>2, <3>5, <3>6, <3>7 DEF KnownOK
        <3>9. LabelsOK' BY <1>1, <1>11, <1>12, <2>1, <2>5, <3>1 DEF LabelsOK
        <3> QED BY <3>8, <3>9
    <2>8. ASSUME ptr # 0 PROVE KnownOK' /\ LabelsOK'
        <3>1. PICK m \in Remembered : m = [label |-> "user", row |-> p]
            BY DEF Remembered
        <3>2. PICK h \in Seq(Remembered) : h = hist BY DEF TalkOK
        <3>3. /\ Told = h /\ Told' = Append(h, m) /\ missed' = missed
              /\ pc'["gen"] = "decode" /\ db' = d
            BY <1>1, <1>11, <2>1, <2>5, <2>8, <3>1, <3>2 DEF Told, Prompt
        <3>4. RowsOf(Append(h, m)) = Append(RowsOf(h), p) BY <3>1, RowsOfAppend
        <3>5. p \notin missed BY <1>1, <1>4, <1>11 DEF HistoryInv, PromptOK
        <3>6. Known(d, missed) = Append(Known(f, missed), p)
            BY <2>6, <3>5, KnownAppend DEF Keeps
        <3>7. KnownOK' BY <2>6, <3>3, <3>4, <3>6 DEF KnownOK
        <3>8. m.label = m.row.role BY <1>12, <3>1
        <3>9. Labelled(h) => Labelled(Append(h, m)) BY <3>8, LabelledAppend
        <3>10. LabelsOK' BY <1>1, <1>11, <1>12, <2>1, <2>5, <3>3, <3>9 DEF LabelsOK
        <3> QED BY <3>7, <3>10
    <2>9. RememberedOK' BY <1>1, <2>1, <2>7, <2>8 DEF RememberedOK
    <2> QED BY <1>2, <2>2, <2>3, <2>9 DEF HistoryInv
<1> QED BY <1>3, <1>4

(* The session remembers its answer, unless it is cut off.                    *)
LEMMA TokenKeeps ==
    ASSUME ChatInv, HistoryInv, GenToken
    PROVE  HistoryInv'
<1> USE ChatParts DEF ThreadsOK, GenToken, Miss, Goto, uiVars, lockVars, nativeVars
<1>1. /\ pc["gen"] = "decode" /\ pc'["gen"] \in {"decode", "exit"}
      /\ pc'["reset"] = pc["reset"] /\ pc'["load"] = pc["load"]
    BY DEF Threads
<1>2. turn \in 1..MaxTurns BY <1>1 DEF TalkOK, CoursesOK
<1>6. missed' = missed \/ missed' = missed \cup {Answer} BY DEF Answer
<1>7. /\ db' = db /\ turn' = turn /\ ui' = ui /\ ready' = ready /\ busy' = busy /\ ptr' = ptr
      /\ saved' = saved /\ releaseRequested' = releaseRequested
    OBVIOUS
<1>8. /\ \/ hist' = Append(hist, [label |-> "assistant", row |-> Answer])
            /\ pc'["gen"] = "exit" /\ missed' = missed
         \/ hist' = hist /\ pc'["gen"] = "exit" /\ missed' = missed \cup {Answer}
         \/ hist' = hist /\ pc' = pc /\ missed' = missed
      /\ Answer' = Answer
    BY DEF Threads, Answer
<1> HIDE DEF GenToken
<1>3. RowsOK'
    <2>1. RowsOK BY DEF HistoryInv
    <2>2. \A r \in missed' : r.turn <= turn'
        <3>1. Answer.turn = turn /\ turn <= turn BY <1>2, ChatAssumption DEF Answer, Row
        <3>2. \A r \in missed : r.turn <= turn BY <2>1 DEF RowsOK
        <3> QED BY <1>6, <1>7, <3>1, <3>2
    <2>3. pc'["gen"] \notin {"queued", "posted"} BY <1>1
    <2> QED BY <1>7, <2>1, <2>2, <2>3 DEF RowsOK
<1>4. CASE ui # "chat" BY <1>3, <1>4, <1>7, AwayKeeps DEF FlagsOK
<1>5. CASE ui = "chat"
    <2>1. pc["reset"] = "idle" /\ ~Coming /\ Coming' = Coming
        BY <1>1, <1>5 DEF HistoryInv, OrderOK, Coming
    <2>19. Told = hist /\ Told' = hist' BY <2>1 DEF Told
    <2>2. KnownOK /\ LabelsOK BY <1>5, <2>1 DEF HistoryInv, RememberedOK
    <2>3. OrderOK' BY <1>1, <1>5, <1>7, <2>1 DEF HistoryInv, OrderOK
    <2>4. Answer \notin missed BY <1>1, <1>5 DEF HistoryInv, PromptOK
    <2>5. PromptOK'
        <3>1. pc'["gen"] = "decode" => missed' = missed BY <1>8
        <3> QED BY <1>1, <1>5, <1>7, <1>8, <2>4, <3>1 DEF HistoryInv, PromptOK, Prompt
    <2>6. PICK a \in Rows : a = Answer BY <1>2 DEF Answer, Row, Rows
    <2>7. a.role = "assistant" /\ a.turn = turn BY <2>6 DEF Answer, Row
    <2>8. PICK m \in Remembered : m = [label |-> "assistant", row |-> a]
        BY <2>6 DEF Remembered
    <2>9. PICK h \in Seq(Remembered), s \in Seq(Rows) : h = hist /\ s = db BY DEF TalkOK
    <2>10. RowsOf(h) = Known(s, missed) BY <1>1, <2>2, <2>9, <2>19 DEF KnownOK
    <2>11. Paired(Append(s, a)) => Labelled(h)
        BY <1>1, <2>2, <2>6, <2>9, <2>19 DEF LabelsOK
    <2>18. db' = s /\ Answer' = a BY <1>7, <1>8, <2>6, <2>9
    <2>12. ASSUME hist' = Append(h, m) /\ pc'["gen"] = "exit" /\ missed' = missed
           PROVE  KnownOK' /\ LabelsOK'
        <3>1. RowsOf(Append(h, m)) = Append(RowsOf(h), a) BY <2>8, RowsOfAppend
        <3>2. Known(Append(s, a), missed) = Append(Known(s, missed), a)
            BY <2>4, <2>6, KnownAppend DEF Keeps
        <3>3. KnownOK' BY <2>6, <2>9, <2>19, <2>10, <2>12, <3>1, <3>2, <1>7, <1>8 DEF KnownOK
        <3>4. m.label = m.row.role BY <2>7, <2>8
        <3>5. Labelled(h) => Labelled(Append(h, m)) BY <3>4, LabelledAppend
        <3>7. Paired(Append(s, a)) => Labelled(hist') BY <2>11, <2>12, <3>5
        <3>6. LabelsOK' BY <2>12, <2>18, <2>19, <3>7 DEF LabelsOK
        <3> QED BY <3>3, <3>6
    <2>13. ASSUME hist' = hist /\ pc'["gen"] = "exit" /\ missed' = missed \cup {a}
           PROVE  KnownOK' /\ LabelsOK'
        <3>1. \A i \in 1..Len(s) : s[i].role = "assistant" => s[i].turn # turn
            <4>1. \A i \in 1..Len(s) : s[i].role = "assistant" => s[i].turn < turn
                BY <1>1, <1>5, <2>9 DEF HistoryInv, PromptOK
            <4> QED BY <1>2, <4>1
        <3>2. PICK g : g = missed \cup {a} OBVIOUS
        <3>3. \A i \in 1..Len(s) : Keeps(s[i], missed) <=> Keeps(s[i], g)
            BY <2>7, <3>1, <3>2 DEF Keeps
        <3>4. Known(s, g) = Known(s, missed) BY <3>3, KnownSame
        <3>5. Known(Append(s, a), g) = Known(s, g) BY <3>2, KnownAppend DEF Keeps
        <3>6. KnownOK' BY <3>2, <2>6, <2>9, <2>19, <2>10, <2>13, <3>4, <3>5, <1>7, <1>8 DEF KnownOK
        <3>7. LabelsOK' BY <2>9, <2>11, <2>13, <2>18, <2>19 DEF LabelsOK
        <3> QED BY <3>6, <3>7
    <2>14. ASSUME hist' = hist /\ pc' = pc /\ missed' = missed
           PROVE  KnownOK' /\ LabelsOK'
        <3>1. KnownOK' BY <1>1, <2>2, <2>14, <2>19, <1>7, <1>8 DEF KnownOK
        <3>2. LabelsOK' BY <1>1, <2>9, <2>11, <2>14, <2>18, <2>19 DEF LabelsOK
        <3> QED BY <3>1, <3>2
    <2>15. \/ hist' = Append(h, m) /\ pc'["gen"] = "exit" /\ missed' = missed
           \/ hist' = hist /\ pc'["gen"] = "exit" /\ missed' = missed \cup {a}
           \/ hist' = hist /\ pc' = pc /\ missed' = missed
        BY <1>8, <2>6, <2>8, <2>9
    <2>16. KnownOK' /\ LabelsOK' BY <2>12, <2>13, <2>14, <2>15
    <2>17. RememberedOK' BY <1>1, <2>1, <2>16 DEF RememberedOK
    <2> QED BY <1>3, <2>3, <2>5, <2>17 DEF HistoryInv
<1> QED BY <1>4, <1>5

LEMMA HistorySteps ==
    ASSUME ChatInv, ChatInv', HistoryInv, Uses = {}, ChatStep
    PROVE  HistoryInv'
<1>1. CASE Open \/ Destroy BY <1>1, OpenKeeps, LeavingKeeps
<1>2. CASE ChatUser BY <1>2, UserKeeps, SendKeeps, FinishedKeeps DEF ChatUser
<1>3. CASE Loading
    BY <1>3, LoadKeeps, LoadNativeKeeps, ReleasingKeeps DEF Loading
<1>4. CASE Cleaning BY <1>4, CleanResetKeeps, ReleasingKeeps DEF Cleaning
<1>5. CASE Resetting BY <1>5, ResetDeleteKeeps, ResetSessionKeeps DEF Resetting
<1>6. CASE Generating
    BY <1>6, GenStepKeeps, GenEnterKeeps, TokenKeeps DEF Generating
<1>7. CASE ApiRunning BY <1>7, ApiKeeps
<1> QED BY <1>1, <1>2, <1>3, <1>4, <1>5, <1>6, <1>7 DEF ChatStep

LEMMA HistoryInit == ChatInit => HistoryInv
<1> SUFFICES ASSUME ChatInit PROVE HistoryInv OBVIOUS
<1> USE DEF ChatInit
<1>1. pc["gen"] = "idle" BY DEF Threads
<1>2. RowsOK BY <1>1 DEF RowsOK
<1>3. OrderOK /\ PromptOK /\ RememberedOK BY DEF OrderOK, PromptOK, RememberedOK
<1> QED BY <1>2, <1>3 DEF HistoryInv

LEMMA HistoryStays ==
    ASSUME AppInv, HistoryInv, Uses = {}, [Next]_vars
    PROVE  HistoryInv'
<1>1. ChatInv /\ ChatInv' BY AppNextKeeps DEF AppInv
<1>2. CASE ChatStep BY <1>1, <1>2, HistorySteps
<1>3. CASE UNCHANGED chatVars
    <2> USE <1>3 DEF chatVars, uiVars, lockVars, nativeVars, talkVars
    <2>1. OrderOK' BY DEF HistoryInv, OrderOK, Coming
    <2>2. Told' = Told BY DEF Told, Coming
    <2> QED BY <2>1, <2>2, TalkKept
<1>4. CASE ApiBegin \/ ApiExit BY <1>1, <1>4, ApiKeeps
<1>5. CASE ChatKill BY <1>1, <1>5, LeavingKeeps
<1> QED BY <1>2, <1>3, <1>4, <1>5, StepKinds

(* What the native session remembers are the rows that the user sees, without *)
(* the answers that were cut off and the turns that found no session, and     *)
(* each in its role unless an answer was lost (LlmSession, ChatPresenter,     *)
(* ChatDataManager), for any number of chats, prompts and tokens, if the user *)
(* does not ask for a new chat before the model is loaded and waits for it.   *)
THEOREM HistoryAlwaysAgrees ==
    ASSUME Uses = {}
    PROVE  Spec => []HistoryAgrees
<1>1. Init => HistoryInv BY HistoryInit DEF Init
<1>2. AppInv /\ AppInv' /\ HistoryInv /\ [Next]_vars => HistoryInv' BY HistoryStays
<1>3. HistoryInv => HistoryAgrees
    <2> SUFFICES ASSUME HistoryInv, ui = "chat", ready, ~busy, pc["reset"] = "idle"
                 PROVE  /\ RowsOf(hist) = Known(db, missed)
                        /\ Paired(db) => Labelled(hist)
        BY DEF HistoryAgrees, Labelled
    <2>1. pc["gen"] = "idle" /\ Told = hist BY DEF HistoryInv, OrderOK, Told, Coming
    <2> QED BY <2>1 DEF HistoryInv, RememberedOK, KnownOK, LabelsOK
<1> QED BY <1>1, <1>2, <1>3, AppInvariant, PTL DEF Spec
=============================================================================
