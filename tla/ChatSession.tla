---------------------------- MODULE ChatSession ----------------------------
(* A chat of the Android application MnnLlmChat: the activity, its presenter *)
(* (ChatPresenter.kt), the session object (LlmSession.kt) with its monitor,  *)
(* the native session behind it (llm_session.cpp) and the rows of the chat   *)
(* in the database (ChatDataManager.kt).                                     *)
(*                                                                           *)
(* The user interface is one thread. The presenter starts coroutines on      *)
(* other threads: one loads the model, one answers a prompt, one resets the  *)
(* conversation, one cleans up when the activity is destroyed; a fifth       *)
(* thread answers the requests of the HTTP service. They meet in the monitor *)
(* of the session; loading and reading the system prompt do not take it.     *)
EXTENDS Naturals, Sequences

CONSTANTS
    MaxOpen,        \* how often the activity is opened
    MaxTurns,       \* how many prompts the user sends
    MaxNewTokens,   \* max_new_tokens_ of a native session
    Uses            \* which hasty uses the user makes, see Hasty

ASSUME ChatAssumption ==
    /\ MaxOpen \in Nat \ {0}
    /\ MaxTurns \in Nat
    /\ MaxNewTokens \in Nat \ {0}
    /\ Uses \subseteq {"resetLoading", "sendResetting"}

Threads == {"load", "gen", "reset", "clean", "api"}
None == "none"

VARIABLES
    ui,         \* the activity on top: the list of models, or a chat
    ready,      \* the activity was told that the model is loaded
    busy,       \* ChatActivity.isGenerating
    stop,       \* ChatPresenter.stopGenerating
    pc,         \* where each thread is
    arg,        \* the native session each thread has in its hands, or 0
    owner,      \* the thread inside the monitor of the session
    loading, generating, releaseRequested,  \* the fields of LlmSession
    ptr,        \* nativePtr
    made, heap, \* native sessions made so far, and those not deleted yet
    tokens,     \* tokens of the answer under way
    turn,       \* prompts sent so far
    hist,       \* history_ of the native session behind the system prompt
    db,         \* the rows of the chat in the database
    saved,      \* the rows the session was made with, until it has loaded
    missed,     \* rows, there or to come, that the native session does not know
    late        \* native sessions whose loading began after the clean-up

uiVars == <<ui, ready, busy, stop>>
lockVars == <<owner, loading, generating, releaseRequested>>
nativeVars == <<ptr, made, heap>>
talkVars == <<tokens, turn, hist, db, saved, missed>>
chatVars == <<uiVars, pc, arg, lockVars, nativeVars, talkVars, late>>

Row(role, n) == [role |-> role, turn |-> n]

ChatInit ==
    /\ ui = "list" /\ ready = FALSE /\ busy = FALSE /\ stop = FALSE
    /\ pc = [t \in Threads |-> "idle"]
    /\ arg = [t \in Threads |-> 0]
    /\ owner = None /\ loading = FALSE /\ generating = FALSE
    /\ releaseRequested = FALSE
    /\ ptr = 0 /\ made = 0 /\ heap = {}
    /\ tokens = 0 /\ turn = 0 /\ hist = <<>> /\ db = <<>> /\ saved = <<>>
    /\ missed = {} /\ late = {}

Goto(t, s) == pc' = [pc EXCEPT ![t] = s]
Enter(t) == owner = None /\ owner' = t
Quiet == \A t \in Threads : pc[t] = "idle"

-----------------------------------------------------------------------------
(* The user interface. *)

(* ChatActivity.onCreate: a session with the saved rows; loading is launched.*)
(* The object of an earlier chat is done with by then.                       *)
Open ==
    /\ ui = "list" /\ Quiet /\ made < MaxOpen
    /\ ui' = "chat" /\ Goto("load", "queued")
    /\ ready' = FALSE /\ busy' = FALSE /\ stop' = FALSE
    /\ loading' = FALSE /\ generating' = FALSE /\ releaseRequested' = FALSE
    /\ ptr' = 0 /\ saved' = db /\ missed' = {}
    /\ UNCHANGED <<arg, owner, made, heap, tokens, turn, hist, db, late>>

(* Two uses that the interface permits and the code does not order: a new    *)
(* chat while the model still loads, and a prompt while a reset is under way.*)
Hasty(what, cond) == cond \/ what \in Uses

(* sendUserMessage, requestGenerate: the prompt is saved, then answered by a *)
(* coroutine. The button does not wait for the model: nothing ever sets      *)
(* ChatActivity.isLoading, which it asks.                                    *)
SendUserMessage ==
    /\ ui = "chat" /\ ~busy /\ turn < MaxTurns
    /\ pc["gen"] = "idle"
    /\ Hasty("sendResetting", pc["reset"] = "idle")
    /\ busy' = TRUE
    /\ turn' = turn + 1
    /\ db' = Append(db, Row("user", turn + 1))
    /\ Goto("gen", "queued")
    /\ UNCHANGED <<ui, ready, stop, arg, lockVars, nativeVars, tokens, hist, saved,
                   missed, late>>

StopGenerate ==
    /\ ui = "chat" /\ busy /\ ~stop
    /\ stop' = TRUE
    /\ UNCHANGED <<ui, ready, busy, pc, arg, lockVars, nativeVars, talkVars, late>>

(* handleNewSession, ChatPresenter.reset. *)
NewChat ==
    /\ ui = "chat" /\ ~busy /\ pc["reset"] = "idle"
    /\ Hasty("resetLoading", ready)
    /\ Goto("reset", "queued")
    /\ UNCHANGED <<uiVars, arg, lockVars, nativeVars, talkVars, late>>

(* onGenerateFinished: posted to the activity, which saves what was answered.*)
GenerateFinished ==
    /\ pc["gen"] = "posted"
    /\ busy' = FALSE
    /\ db' = Append(db, Row("assistant", turn))
    /\ Goto("gen", "idle")
    /\ UNCHANGED <<ui, ready, stop, arg, lockVars, nativeVars, tokens, turn, hist,
                   saved, missed, late>>

(* onDestroy, ChatPresenter.destroy: coroutines that have not begun yet are  *)
(* cancelled, and what was posted to the activity is dropped; one coroutine  *)
(* resets and releases the session.                                          *)
Destroy ==
    /\ ui = "chat"
    /\ ui' = "list" /\ ready' = FALSE /\ busy' = FALSE /\ stop' = TRUE
    /\ pc' = [t \in Threads |->
                CASE t = "clean" -> "reset"
                  [] pc[t] \in {"queued", "posted"} -> "idle"
                  [] OTHER -> pc[t]]
    /\ UNCHANGED <<arg, lockVars, nativeVars, talkVars, late>>

(* The process dies: only the database is left. *)
ChatKill ==
    /\ ui' = "list" /\ ready' = FALSE /\ busy' = FALSE /\ stop' = FALSE
    /\ pc' = [t \in Threads |-> "idle"]
    /\ arg' = [t \in Threads |-> 0]
    /\ owner' = None /\ loading' = FALSE /\ generating' = FALSE
    /\ releaseRequested' = FALSE
    /\ ptr' = 0 /\ heap' = {} /\ tokens' = 0 /\ hist' = <<>> /\ missed' = {}
    /\ late' = {} /\ saved' = <<>>
    /\ UNCHANGED <<made, turn, db>>

-----------------------------------------------------------------------------
(* LlmSession.load, which does not take the monitor. *)

LoadStart ==
    /\ pc["load"] = "queued"
    /\ Goto("load", "started")
    /\ UNCHANGED <<uiVars, arg, lockVars, nativeVars, talkVars, late>>

LoadBegin ==
    /\ pc["load"] = "started"
    /\ loading' = TRUE
    /\ late' = IF ui = "list" /\ pc["clean"] \notin {"reset", "release"}
               THEN late \cup {made + 1} ELSE late
    /\ Goto("load", "loading")
    /\ UNCHANGED <<uiVars, arg, owner, generating, releaseRequested, nativeVars,
                   talkVars>>

(* The constructor of the native session labels the saved rows by their      *)
(* position: the even ones are prompts, the odd ones are answers.            *)
Label(rows) ==
    [i \in 1..Len(rows) |->
       [label |-> IF i % 2 = 1 THEN "user" ELSE "assistant", row |-> rows[i]]]

LoadNative ==
    /\ pc["load"] = "loading"
    /\ made' = made + 1 /\ ptr' = made + 1 /\ heap' = heap \cup {made + 1}
    /\ hist' = Label(saved) /\ saved' = <<>>
    /\ Goto("load", "loaded")
    /\ UNCHANGED <<uiVars, arg, lockVars, tokens, turn, db, missed, late>>

LoadEnd ==
    /\ pc["load"] = "loaded"
    /\ loading' = FALSE
    /\ Goto("load", "check")
    /\ UNCHANGED <<uiVars, arg, owner, generating, releaseRequested, nativeVars,
                   talkVars, late>>

LoadCheck ==
    /\ pc["load"] = "check"
    /\ Goto("load", IF releaseRequested THEN "release" ELSE "idle")
    /\ ready' = (ui = "chat")
    /\ UNCHANGED <<ui, busy, stop, arg, lockVars, nativeVars, talkVars, late>>

-----------------------------------------------------------------------------
(* LlmSession.release and releaseInner. *)

(* releaseInner: the native session is deleted and those who wait are woken. *)
ReleaseInner(t, next) ==
    /\ heap' = heap \ {ptr} /\ ptr' = 0
    /\ pc' = [u \in Threads |-> IF u = t THEN next
                                ELSE IF ptr # 0 /\ pc[u] = "waiting" THEN "woken"
                                ELSE pc[u]]

(* Mutant: the flags alone decide, without the monitor. *)
ReleaseUnguarded(t) ==
    /\ pc[t] = "release"
    /\ owner' = IF ~generating /\ ~loading THEN owner ELSE t
    /\ Goto(t, IF ~generating /\ ~loading THEN "inner" ELSE "request")
    /\ UNCHANGED <<uiVars, arg, loading, generating, releaseRequested, nativeVars,
                   talkVars, late>>

(* Mutant: a release does not wait for the model to load. *)
ReleaseWhileLoading(t) ==
    /\ pc[t] = "release" /\ Enter(t)
    /\ Goto(t, IF ~generating THEN "inner" ELSE "request")
    /\ UNCHANGED <<uiVars, arg, loading, generating, releaseRequested, nativeVars,
                   talkVars, late>>

Release(t) ==
    /\ pc[t] = "release" /\ Enter(t)
    /\ Goto(t, IF ~generating /\ ~loading THEN "inner" ELSE "request")
    /\ UNCHANGED <<uiVars, arg, loading, generating, releaseRequested, nativeVars,
                   talkVars, late>>

ReleaseRequest(t) ==
    /\ pc[t] = "request"
    /\ releaseRequested' = TRUE
    /\ Goto(t, "test")
    /\ UNCHANGED <<uiVars, arg, owner, loading, generating, nativeVars, talkVars,
                   late>>

(* The loop around wait(), which gives the monitor back. *)
ReleaseTest(t) ==
    /\ pc[t] = "test"
    /\ IF generating \/ loading
       THEN Goto(t, "waiting") /\ owner' = None
       ELSE Goto(t, "inner") /\ UNCHANGED owner
    /\ UNCHANGED <<uiVars, arg, loading, generating, releaseRequested, nativeVars,
                   talkVars, late>>

ReleaseWoken(t) ==
    /\ pc[t] = "woken" /\ Enter(t)
    /\ Goto(t, "test")
    /\ UNCHANGED <<uiVars, arg, loading, generating, releaseRequested, nativeVars,
                   talkVars, late>>

ReleaseEnd(t) ==
    /\ pc[t] = "inner"
    /\ ReleaseInner(t, "idle")
    /\ owner' = None
    /\ UNCHANGED <<uiVars, arg, loading, generating, releaseRequested, made,
                   talkVars, late>>

Releasing(t) ==
    Release(t) \/ ReleaseRequest(t) \/ ReleaseTest(t) \/ ReleaseWoken(t)
    \/ ReleaseEnd(t)

(* resetNative, under the monitor. *)
ResetNative(t, next) ==
    /\ owner = None
    /\ hist' = IF ptr = 0 THEN hist ELSE <<>>
    /\ missed' = IF ptr = 0 THEN missed ELSE {}
    /\ Goto(t, next)
    /\ UNCHANGED <<uiVars, arg, lockVars, nativeVars, tokens, turn, db, saved, late>>

CleanReset == pc["clean"] = "reset" /\ ResetNative("clean", "release")

(* The coroutine of ChatPresenter.reset: the rows go first, then what the    *)
(* native session remembers.                                                 *)
ResetDelete ==
    /\ pc["reset"] = "queued"
    /\ db' = <<>>
    /\ Goto("reset", "native")
    /\ UNCHANGED <<uiVars, arg, lockVars, nativeVars, tokens, turn, hist, saved, missed,
                   late>>

ResetSession == pc["reset"] = "native" /\ ResetNative("reset", "idle")

-----------------------------------------------------------------------------
(* LlmSession.generate and LlmSession::Response. *)

(* ChatPresenter.submitRequest forgets an earlier wish to stop. *)
GenStart ==
    /\ pc["gen"] = "queued"
    /\ stop' = FALSE
    /\ Goto("gen", "started")
    /\ UNCHANGED <<ui, ready, busy, arg, lockVars, nativeVars, talkVars, late>>

(* Without a native session the prompt is not heard by anybody. submitNative *)
(* returns a string then, where its caller expects a map: if the process     *)
(* survives that (ChatKill may be next), an empty answer is shown and saved. *)
GenEnter ==
    /\ pc["gen"] = "started" /\ Enter("gen")
    /\ generating' = TRUE
    /\ arg' = [arg EXCEPT !["gen"] = ptr]
    /\ tokens' = 0
    /\ IF ptr = 0
       THEN /\ missed' = missed \cup {Row("user", turn), Row("assistant", turn)}
            /\ Goto("gen", "exit") /\ UNCHANGED hist
       ELSE /\ hist' = Append(hist, [label |-> "user", row |-> Row("user", turn)])
            /\ Goto("gen", "decode") /\ UNCHANGED missed
    /\ UNCHANGED <<uiVars, loading, releaseRequested, nativeVars, turn, db, saved,
                   late>>

(* An answer that is cut off does not get into the history. *)
Miss == missed' = missed \cup {Row("assistant", turn)}

(* Mutant: one token more than the limit. *)
GenTokenPastLimit ==
    /\ pc["gen"] = "decode"
    /\ tokens' = tokens + 1
    /\ \/ /\ hist' = Append(hist, [label |-> "assistant",
                                   row |-> Row("assistant", turn)])
          /\ Goto("gen", "exit")
          /\ UNCHANGED missed
       \/ /\ UNCHANGED hist
          /\ IF stop \/ tokens = MaxNewTokens
             THEN Goto("gen", "exit") /\ Miss
             ELSE UNCHANGED <<pc, missed>>
    /\ UNCHANGED <<uiVars, arg, lockVars, nativeVars, turn, db, saved, late>>

(* Mutant: an answer that is cut off is remembered, too. *)
GenTokenKeeps ==
    /\ pc["gen"] = "decode"
    /\ tokens' = tokens + 1
    /\ \/ /\ hist' = Append(hist, [label |-> "assistant",
                                   row |-> Row("assistant", turn)])
          /\ Goto("gen", "exit")
          /\ UNCHANGED missed
       \/ IF stop \/ tokens + 1 = MaxNewTokens
          THEN /\ hist' = Append(hist, [label |-> "assistant",
                                       row |-> Row("assistant", turn)])
               /\ Goto("gen", "exit") /\ Miss
          ELSE UNCHANGED <<pc, missed, hist>>
    /\ UNCHANGED <<uiVars, arg, lockVars, nativeVars, turn, db, saved, late>>

(* One token: the end token completes the answer, which is remembered then;  *)
(* otherwise decoding goes on unless the listener wants it to stop.          *)
GenToken ==
    /\ pc["gen"] = "decode"
    /\ tokens' = tokens + 1
    /\ \/ /\ hist' = Append(hist, [label |-> "assistant",
                                   row |-> Row("assistant", turn)])
          /\ Goto("gen", "exit")
          /\ UNCHANGED missed
       \/ /\ UNCHANGED hist
          /\ IF stop \/ tokens + 1 = MaxNewTokens
             THEN Goto("gen", "exit") /\ Miss
             ELSE UNCHANGED <<pc, missed>>
    /\ UNCHANGED <<uiVars, arg, lockVars, nativeVars, turn, db, saved, late>>

(* Leaving generate; the result is posted to the activity if there is one.   *)
GenExit ==
    /\ pc["gen"] = "exit"
    /\ generating' = FALSE
    /\ owner' = None
    /\ arg' = [arg EXCEPT !["gen"] = 0] /\ tokens' = 0
    /\ LET next == IF ui = "chat" THEN "posted" ELSE "idle" IN
       IF releaseRequested
       THEN ReleaseInner("gen", next)
       ELSE Goto("gen", next) /\ UNCHANGED <<ptr, heap>>
    /\ UNCHANGED <<uiVars, loading, releaseRequested, made, turn, hist, db, saved,
                   missed, late>>

-----------------------------------------------------------------------------
(* A request of the HTTP service (MNNChatService.processLlmGeneration): the  *)
(* system prompt is read without the monitor, the answer is made under it.   *)

ApiBegin ==
    /\ pc["api"] = "idle"
    /\ arg' = [arg EXCEPT !["api"] = ptr]
    /\ Goto("api", "prompt")
    /\ UNCHANGED <<uiVars, lockVars, nativeVars, talkVars, late>>

ApiPrompt ==
    /\ pc["api"] = "prompt"
    /\ arg' = [arg EXCEPT !["api"] = 0]
    /\ Goto("api", "started")
    /\ UNCHANGED <<uiVars, lockVars, nativeVars, talkVars, late>>

(* submitFullHistory, ResponseWithHistory: nothing of it is remembered. *)
ApiEnter ==
    /\ pc["api"] = "started" /\ Enter("api")
    /\ arg' = [arg EXCEPT !["api"] = ptr]
    /\ tokens' = 0
    /\ Goto("api", IF ptr = 0 THEN "exit" ELSE "decode")
    /\ UNCHANGED <<uiVars, loading, generating, releaseRequested, nativeVars, turn,
                   hist, db, saved, missed, late>>

ApiToken ==
    /\ pc["api"] = "decode"
    /\ tokens' = tokens + 1
    /\ \/ Goto("api", "exit")
       \/ tokens + 1 < MaxNewTokens /\ UNCHANGED pc
    /\ UNCHANGED <<uiVars, arg, lockVars, nativeVars, turn, hist, db, saved, missed,
                   late>>

ApiExit ==
    /\ pc["api"] = "exit"
    /\ generating' = FALSE /\ owner' = None
    /\ arg' = [arg EXCEPT !["api"] = 0] /\ tokens' = 0
    /\ Goto("api", "idle")
    /\ UNCHANGED <<uiVars, loading, releaseRequested, nativeVars, turn, hist, db, saved,
                   missed, late>>

-----------------------------------------------------------------------------
Loading == LoadStart \/ LoadBegin \/ LoadNative \/ LoadEnd \/ LoadCheck
            \/ Releasing("load")
Cleaning == CleanReset \/ Releasing("clean")
Resetting == ResetDelete \/ ResetSession
Generating == GenStart \/ GenEnter \/ GenToken \/ GenExit
ApiRunning == ApiPrompt \/ ApiEnter \/ ApiToken
ChatUser == SendUserMessage \/ StopGenerate \/ NewChat \/ GenerateFinished

ChatNext ==
    \/ Open \/ Destroy \/ ChatKill \/ ChatUser
    \/ Loading \/ Cleaning \/ Resetting \/ Generating
    \/ ApiBegin \/ ApiRunning \/ ApiExit

ChatSpec == ChatInit /\ [][ChatNext]_chatVars

-----------------------------------------------------------------------------
(* Properties. *)

Rows == [role : {"user", "assistant"}, turn : 1..MaxTurns]
Remembered == [label : {"user", "assistant"}, row : Rows]

(* Every variable has its type. *)
ChatTypeOK ==
    /\ ui \in {"list", "chat"}
    /\ {ready, busy, stop, loading, generating, releaseRequested} \subseteq BOOLEAN
    /\ pc \in [Threads -> {"idle", "queued", "started", "loading", "loaded", "check",
                           "release", "inner", "request", "test", "waiting", "woken",
                           "reset", "native", "decode", "exit", "posted", "prompt"}]
    /\ arg \in [Threads -> 0..MaxOpen]
    /\ owner \in Threads \cup {None}
    /\ ptr \in 0..MaxOpen /\ made \in 0..MaxOpen /\ heap \subseteq 1..made
    /\ late \subseteq 1..MaxOpen
    /\ tokens \in 0..MaxNewTokens /\ turn \in 0..MaxTurns /\ missed \subseteq Rows
    /\ hist \in Seq(Remembered) /\ {db, saved} \subseteq Seq(Rows)

(* A native session is only decoded by one thread at a time, and is not       *)
(* deleted while a thread decodes with it, whatever load, release, a chat     *)
(* prompt and the HTTP service do at the same time; nativePtr never names a   *)
(* deleted session, which a second release would delete again. And none is     *)
(* forgotten: once loading is over and the clean-up has ended, or waits, only  *)
(* sessions are left whose loading began when it had already found none.       *)
NativeGuarded ==
    /\ \A t \in Threads : pc[t] = "decode" => arg[t] \in heap /\ owner = t
    /\ ptr # 0 => ptr \in heap
    /\ ui = "list" /\ pc["load"] = "idle" /\ pc["clean"] \in {"idle", "waiting"} =>
           heap \subseteq late

(* When a chat stays closed, its native session is deleted in the end, in     *)
(* whatever order loading, an answer and the clean-up come -- unless the      *)
(* model began to load only when the clean-up had already found no session.   *)
Released ==
    \A n \in 1..MaxOpen :
        []<>(ui = "list" /\ n \notin late => n \notin heap)

RowsOf(h) == [i \in 1..Len(h) |-> h[i].row]

(* The rows but for those in gone, in their order: known[n] are those among   *)
(* the first n.                                                               *)
Known(rows, gone) ==
    LET known[n \in 0..Len(rows)] ==
            IF n = 0 THEN <<>>
            ELSE IF rows[n] \notin gone THEN Append(known[n - 1], rows[n])
                 ELSE known[n - 1]
    IN  known[Len(rows)]

(* Each prompt among the rows has its answer behind it.                       *)
Paired(rows) ==
    \A i \in 1..Len(rows) : rows[i].role = "user" =>
        i < Len(rows) /\ rows[i + 1].role = "assistant"

(* The conversation that the native session continues is the one the user     *)
(* sees, except the answers that were cut off and the turns that found no     *)
(* session while the model was loading: the user sees those, and the session  *)
(* does not know them until the chat is opened anew. And it has each row in   *)
(* its role, unless an answer was lost with its activity or process.          *)
HistoryAgrees ==
    ui = "chat" /\ ready /\ ~busy /\ pc["reset"] = "idle" =>
        /\ RowsOf(hist) = Known(db, missed)
        /\ Paired(db) => \A i \in 1..Len(hist) : hist[i].label = hist[i].row.role
=============================================================================
