------------------------------ MODULE ChatApp ------------------------------
(* An open chat of MnnLlmChat and its HTTP service together: the service      *)
(* takes requests while the model of the chat is loaded and runs them, one    *)
(* after the other, with the session of the chat. Both live in one process.   *)
EXTENDS ChatSession, RequestQueue

vars == <<chatVars, queueVars>>

Init == ChatInit /\ QueueInit

InChat(A) == A /\ UNCHANGED queueVars
InQueue(A) == A /\ UNCHANGED chatVars

UserStep == InChat(Open \/ ChatUser \/ Destroy)
LoadStep == InChat(Loading)
CleanStep == InChat(Cleaning)
ResetStep == InChat(Resetting)
GenStep == InChat(Generating)

(* The service runs while the model of an open chat is loaded. *)
SubmitStep(r) == ready /\ InQueue(Submit(r))
Sending(r) == InQueue(PutBack(r) \/ SendRequest(r))
Status == ready /\ InQueue(AskStats)
StatusEnd == InQueue(PutBack("stat"))
ClearStart == ready /\ InQueue(ClearBegin)
Clearing == InQueue(ClearStep)
Turn == InQueue(Turning)

(* A task asks the session for an answer. *)
TaskBegin == proc = "task" /\ InChat(ApiBegin)
TaskStep == InChat(ApiRunning)
TaskEnd ==
    /\ ApiExit
    /\ TaskDone \/ TaskFailed

Kill == ChatKill /\ QueueKill

Next ==
    \/ UserStep \/ LoadStep \/ CleanStep \/ ResetStep \/ GenStep
    \/ (\E r \in Requests : SubmitStep(r) \/ Sending(r))
    \/ Status \/ StatusEnd \/ ClearStart \/ Clearing
    \/ Turn \/ TaskBegin \/ TaskStep \/ TaskEnd
    \/ Kill

(* The coroutine of the queue: it takes requests and runs their tasks. *)
Processor == Turn \/ TaskBegin \/ TaskStep \/ TaskEnd

(* Threads and coroutines that can go on do, in the end; the user and the     *)
(* system need not do anything.                                               *)
Fairness ==
    /\ WF_vars(LoadStep) /\ WF_vars(CleanStep) /\ WF_vars(GenStep)
    /\ WF_vars(Processor)
    /\ \A r \in Requests : WF_vars(Sending(r))
    /\ WF_vars(StatusEnd) /\ WF_vars(Clearing)

Spec == Init /\ [][Next]_vars /\ Fairness

-----------------------------------------------------------------------------
(* Properties; the parts state most of them. *)

(* Every variable has its type, and the HTTP service has at most one answer   *)
(* under way, for the request whose task runs.                                *)
TypeOK ==
    /\ ChatTypeOK /\ QueueTypeOK
    /\ pc["api"] # "idle" => proc = "task"

(* Whoever waits for a request gets an answer or an error in the end, though  *)
(* the session may be busy with the user, reset or released meanwhile and     *)
(* others take requests out of the queue -- unless the queue is cleared.      *)
Answered == \A r \in Requests : []<>(status[r] # "waiting")
=============================================================================
