----------------------------- MODULE RunLifecycle -----------------------------
(***************************************************************************)
(* Studio agent runs of TGhost: the studio_agent_runs rows, the request    *)
(* that queues one, the asyncio task that carries it out, its watchdog,    *)
(* the cancel endpoint, the sweep of orphaned runs, the deletion of a      *)
(* conversation (app/studio/service.py, repository.py, routes.py).         *)
(*                                                                         *)
(* A task is cut at its awaits. A step is one database call together with  *)
(* the code up to the next await. When the call raises, or the task is     *)
(* cancelled while it waits, the call has or has not taken effect, the     *)
(* code behind it has not run, and the task is in the handler that         *)
(* encloses the await.                                                     *)
(*                                                                         *)
(* What is abstracted:                                                     *)
(*  - a run id is used once. A request is named after the run that stored  *)
(*    its user message; a retry reuses it. Every user message comes with a *)
(*    run in one transaction, so the latest run belongs to the latest one. *)
(*  - of the events of a run only those that end it are kept, and of its   *)
(*    assistant messages the answer and the failure text, not the notice.  *)
(*  - each task draws a worker_id of its own and only its claim stores it, *)
(*    so "worker_id is mine" is "I claimed it": RunClaimLost cannot occur. *)
(*  - time is nondeterminism: a lease lapses and a queued run outgrows its *)
(*    grace whenever they may. A renewal of a lease changes nothing else.  *)
(*  - the provider, its tools and run_stream end or raise at any time.     *)
(***************************************************************************)
EXTENDS Integers, FiniteSets

CONSTANTS
  Runs,          \* run ids
  Conversations, \* conversations of the workspace
  Procs,         \* web processes
  None,          \* SQL NULL, Python None
  MaxSlots,      \* limits.RUN_CONCURRENCY
  DbFails,       \* whether a database call may raise
  MaxCancels,    \* bound: cancel requests of the owner
  MaxCrashes     \* bound: process crashes

ASSUME ConstantsAssumption ==
  /\ MaxSlots \in Nat \ {0}
  /\ DbFails \in BOOLEAN
  /\ {MaxCancels, MaxCrashes} \subseteq Nat
  /\ None \notin Runs \cup Conversations \cup Procs

VARIABLES
  run,      \* table studio_agent_runs with the events and replies of each run
  convs,    \* table studio_conversations
  latest,   \* the last run created in each conversation
  task,     \* per run: request, task, watchdog, registry handle and stream
  slots,    \* RunCoordinator.active of each process
  canc,     \* the cancel endpoint of each process
  cancels, crashes    \* counters for the bounds

vars == <<run, convs, latest, task, slots, canc, cancels, crashes>>

-----------------------------------------------------------------------------
(* Types *)

Active == {"queued", "running"}
Ends == {"succeeded", "failed", "cancelled", "interrupted"}
EndEvents == {"RUN_FINISHED", "RUN_ERROR", "RUN_CANCELLED", "RUN_INTERRUPTED"}
Replies == {"answer", "failure"}

Row ==
  [status  : Active \cup Ends,
   conv    : Conversations,
   request : Runs,                     \* user_message_id
   owned   : BOOLEAN,                  \* worker_id is not NULL
   stale   : BOOLEAN,                  \* lease lapsed, or queued for too long
   cancel  : BOOLEAN,                  \* cancel_requested
   log     : SUBSET EndEvents,         \* events that end it
   said    : SUBSET Replies]           \* assistant messages of this run

ASSUME NoneAssumption == None \notin Row /\ None # "user"

NoRow == [r \in Runs |-> None]

\* Where the request handler and its task stand. A step of TaskSteps is named
\* for the call it awaits.
SetupSteps == {"created", "setup"}
Reads == {"claim", "unclaimed", "cancelling", "failing", "events"}
Writes == {"stream", "reply", "succeed", "cancelEvent", "cancelStatus",
           "failMessage", "failShort", "failEvent", "failStatus",
           "recoverEvent", "recoverStatus", "mark", "notify"}
TaskSteps == Reads \cup Writes \cup {"slot", "closing"}
Over == {"done", "dead", "refused", "broken", "crashed"}

Task ==
  [pc       : {"none"} \cup SetupSteps \cup TaskSteps \cup Over,
   host     : Procs \cup {None},
   claimed  : BOOLEAN,                 \* inside the try of execute_run
   artifact : BOOLEAN,                 \* a draft tool completed
   end      : {"cancelled", "interrupted", None},  \* status to report
   watch    : BOOLEAN,                 \* the watchdog runs
   active   : BOOLEAN,                 \* RunHandle.active
   reason   : {"user", "lease_lost", None},        \* cancel_reason
   kill     : BOOLEAN,                 \* a CancelledError is on its way
   stream   : {"none", "open", "closed"},          \* the HTTP event stream
   told     : SUBSET {"finished", "error"}]        \* final events put in it

NoTask ==
  [pc |-> "none", host |-> None, claimed |-> FALSE, artifact |-> FALSE,
   end |-> None, watch |-> FALSE, active |-> FALSE, reason |-> None,
   kill |-> FALSE, stream |-> "none", told |-> {}]

Canceller ==
  [pc : {"idle", "request", "signal", "end", "event"},
   run : Runs \cup {None}, queued : BOOLEAN]

Idle == [pc |-> "idle", run |-> None, queued |-> FALSE]

TypeOK ==
  /\ run \in [Runs -> Row \cup {None}]
  /\ convs \subseteq Conversations
  /\ latest \in [Conversations -> Runs \cup {None}]
  /\ task \in [Runs -> Task]
  /\ slots \in [Procs -> Nat]
  /\ canc \in [Procs -> Canceller]
  /\ cancels \in 0..MaxCancels
  /\ crashes \in 0..MaxCrashes

Init ==
  /\ run = NoRow
  /\ convs = Conversations
  /\ latest = [c \in Conversations |-> None]
  /\ task = [r \in Runs |-> NoTask]
  /\ slots = [p \in Procs |-> 0]
  /\ canc = [p \in Procs |-> Idle]
  /\ cancels = 0
  /\ crashes = 0

-----------------------------------------------------------------------------
(* What the repository does to a row *)

Exists(r) == run[r] # None
Has(r, statuses) == Exists(r) /\ run[r].status \in statuses

NewRow(c, m) ==
  [status |-> "queued", conv |-> c, request |-> m, owned |-> FALSE,
   stale |-> FALSE, cancel |-> FALSE, log |-> {}, said |-> {}]

\* Variant: a status the table does not know
Ended_Wrong(d, s) == [d EXCEPT !.status = "stopped", !.stale = FALSE]

\* set_run_status with a terminal status: the current one is not looked at.
Ended(d, s) == [d EXCEPT !.status = s, !.stale = FALSE]

Logged(d, e) == [d EXCEPT !.log = d.log \cup {e}]
Said(d, m) == [d EXCEPT !.said = d.said \cup {m}]

Claimable(d) == d.status = "queued" /\ ~d.cancel
Claimed(d) == [d EXCEPT !.status = "running", !.owned = TRUE, !.stale = FALSE]

EventOf(end) == IF end = "cancelled" THEN "RUN_CANCELLED" ELSE "RUN_INTERRUPTED"

\* What the call at which the task of r waits does to the row.
Effect(r) ==
  LET d == run[r]
      at == task[r].pc
  IN  CASE at = "claim" /\ Claimable(d)              -> Claimed(d)
        [] at \in {"stream", "recoverEvent"}         -> Logged(d, "RUN_FINISHED")
        [] at = "reply"                              -> Said(d, "answer")
        [] at \in {"succeed", "recoverStatus"}       -> Ended(d, "succeeded")
        [] at \in {"cancelEvent", "mark"}            -> Logged(d, EventOf(task[r].end))
        [] at = "cancelStatus"                       -> Ended(d, task[r].end)
        [] at = "failMessage"                        -> Said(d, "failure")
        [] at = "failEvent"                          -> Logged(d, "RUN_ERROR")
        [] at \in {"failStatus", "failShort"}        -> Ended(d, "failed")
        [] OTHER                                     -> d

-----------------------------------------------------------------------------
(* The request: append_user_message_and_create_run, begin, set-up, attach *)

Busy(c) == \E s \in Runs : Has(s, Active) /\ run[s].conv = c

Create(r, c, p, m) ==
  /\ task[r].pc = "none" /\ c \in convs /\ ~Busy(c)
  /\ run' = [run EXCEPT ![r] = NewRow(c, m)]
  /\ latest' = [latest EXCEPT ![c] = r]
  /\ task' = [task EXCEPT ![r].pc = "created", ![r].host = p]

Send(r, c, p) == Create(r, c, p, r)

\* Variant: an interrupted run may be retried as well
Retryable_Interrupted(r) == Has(r, {"failed", "interrupted"})

\* Only the latest request can be retried, and only when it failed.
Retryable(r) == Has(r, {"failed"})

Retry(r, c, p) ==
  /\ latest[c] # None /\ Retryable(latest[c])
  /\ Create(r, c, p, run[latest[c]].request)

Begin(r) ==
  /\ task[r].pc = "created"
  /\ task' = [task EXCEPT ![r].pc = "setup", ![r].active = TRUE]
  /\ UNCHANGED <<run, latest>>

\* prepare_model or the agent factory raises: the run fails, whoever owns it.
SetupFails(r) ==
  /\ task[r].pc = "setup" /\ Exists(r)
  /\ run' = [run EXCEPT ![r] = Ended(run[r], "failed")]
  /\ task' = [task EXCEPT ![r].pc = "refused", ![r].active = FALSE]
  /\ UNCHANGED latest

\* Any other exception of the request handler leaves run and handle behind; when
\* set_run_status raises, the row has or has not failed.
SetupBreaks(r) ==
  /\ task[r].pc \in SetupSteps
  /\ DbFails \/ ~Exists(r)
  /\ task' = [task EXCEPT ![r].pc = "broken"]
  /\ \/ UNCHANGED run
     \/ /\ task[r].pc = "setup" /\ Exists(r)
        /\ run' = [run EXCEPT ![r] = Ended(run[r], "failed")]
  /\ UNCHANGED latest

\* create_task and attach. A task cancelled before its first step never runs
\* any of its code, the finally that would end the stream included.
Attach(r) ==
  /\ task[r].pc = "setup"
  /\ task' = [task EXCEPT
       ![r].pc = IF task[r].reason = None THEN "claim" ELSE "dead",
       ![r].stream = "open"]
  /\ UNCHANGED <<run, latest>>

Request(r) ==
  /\ \/ \E c \in Conversations, p \in Procs : Send(r, c, p) \/ Retry(r, c, p)
     \/ Begin(r) \/ SetupFails(r) \/ SetupBreaks(r) \/ Attach(r)
  /\ UNCHANGED <<convs, slots, canc, cancels, crashes>>

-----------------------------------------------------------------------------
(* The task: execute_run *)

\* The finally of execute_run begins with watchdog.cancel().
At(t, next) ==
  IF next = "closing" THEN [t EXCEPT !.pc = next, !.watch = FALSE, !.end = None]
                      ELSE [t EXCEPT !.pc = next]

\* registry.finish and queue.put(complete)
Finished(t) == [NoTask EXCEPT !.pc = "done", !.stream = "closed", !.told = t.told]

Told(t, event) == [t EXCEPT !.told = t.told \cup {event}]

Resumes(r, at) == task[r].pc = at /\ ~task[r].kill

\* The call returns; the task goes on as t.
Return(r, t) ==
  /\ run' = IF Exists(r) THEN [run EXCEPT ![r] = Effect(r)] ELSE run
  /\ task' = [task EXCEPT ![r] = t]

Read(r, at, t) == Resumes(r, at) /\ Return(r, t) /\ UNCHANGED slots

\* A write of a row that is gone raises instead (RunNotFound, ConversationNotFound).
Write(r, at, t) == Resumes(r, at) /\ Exists(r) /\ Return(r, t) /\ UNCHANGED slots

Claim(r) ==
  LET won == Exists(r) /\ Claimable(run[r])
  IN  Read(r, "claim", [At(task[r], IF won THEN "slot" ELSE "unclaimed")
                          EXCEPT !.claimed = won])

\* coordinator.slot; the watchdog starts.
AcquireSlot(r) ==
  LET p == task[r].host
  IN  /\ Resumes(r, "slot") /\ slots[p] < MaxSlots
      /\ slots' = [slots EXCEPT ![p] = slots[p] + 1]
      /\ task' = [task EXCEPT ![r] = [At(task[r], "stream") EXCEPT !.watch = TRUE]]
      /\ UNCHANGED run

\* Variant: the slot is given back only when the stream ends normally
Release_OnReply(r, next) ==
  LET p == task[r].host
  IN  slots' = IF next = "reply" THEN [slots EXCEPT ![p] = slots[p] - 1] ELSE slots

\* The slot is given back on every way out of the stream.
Release(r, next) ==
  LET p == task[r].host
  IN  slots' = IF task[r].pc = "stream" THEN [slots EXCEPT ![p] = slots[p] - 1]
                                        ELSE slots

\* A draft tool completes while the run streams.
SaveArtifact(r) ==
  /\ Resumes(r, "stream") /\ ~task[r].artifact
  /\ task' = [task EXCEPT ![r].artifact = TRUE]
  /\ UNCHANGED <<run, slots>>

\* RUN_FINISHED is appended and the stream is over.
EndStream(r) ==
  /\ Resumes(r, "stream") /\ Exists(r)
  /\ Return(r, At(task[r], "reply"))
  /\ Release(r, "reply")

SaveReply(r) == Write(r, "reply", At(task[r], "succeed"))
Succeed(r)   == Write(r, "succeed", Told(At(task[r], "closing"), "finished"))

\* emit_terminal_notice reports what another worker or a sweep ended.
Noticed == {"cancelled", "interrupted"}

\* get_run in front of emit_terminal_notice
Look(r, at, otherwise) ==
  Read(r, at, IF Has(r, Noticed)
              THEN [At(task[r], "events") EXCEPT
                      !.end = IF run[r].status = "cancelled" THEN "cancelled"
                                                             ELSE "interrupted"]
              ELSE otherwise)

Unclaimed(r) == Look(r, "unclaimed", Finished(task[r]))

\* Variant: every cancellation is put down to the owner
UserCancelled_Always(r) == TRUE

UserCancelled(r) == run[r].cancel \/ task[r].reason = "user"

OnCancelled(r) ==
  Look(r, "cancelling",
       IF Has(r, Active)
       THEN [At(task[r], "cancelEvent") EXCEPT
               !.end = IF UserCancelled(r) THEN "cancelled" ELSE "interrupted"]
       ELSE At(task[r], "closing"))

LogCancelled(r) == Write(r, "cancelEvent", At(task[r], "cancelStatus"))
EndCancelled(r) == Write(r, "cancelStatus", At(task[r], "closing"))

OnFailure(r) ==
  Look(r, "failing",
       At(task[r], IF Has(r, Active) THEN "failMessage" ELSE "closing"))

\* The failure text is stored; with a saved artifact the run still succeeds.
SaveFailure(r) ==
  Write(r, "failMessage",
        IF task[r].artifact THEN At(task[r], "recoverEvent")
                            ELSE Told(At(task[r], "failEvent"), "error"))

LogRecovered(r) == Write(r, "recoverEvent", At(task[r], "recoverStatus"))
EndRecovered(r) == Write(r, "recoverStatus", Told(At(task[r], "closing"), "finished"))
LogFailed(r)    == Write(r, "failEvent", At(task[r], "failStatus"))
EndFailed(r)    == Write(r, "failStatus", At(task[r], "closing"))
EndUnsaved(r)   == Write(r, "failShort", At(task[r], "closing"))

\* emit_terminal_notice: get_events, append_event unless an end is logged,
\* append_message.
ReadEvents(r) ==
  LET logged == Exists(r) /\ run[r].log \ {"RUN_FINISHED"} # {}
  IN  Read(r, "events", At(task[r], IF logged THEN "notify" ELSE "mark"))

LogNotice(r) == Write(r, "mark", At(task[r], "notify"))

SaveNotice(r) ==
  Write(r, "notify",
        IF task[r].claimed THEN Told(At(task[r], "closing"), "error")
                           ELSE Told(Finished(task[r]), "error"))

\* The finally; a cancellation that arrives here is suppressed.
Close(r) ==
  /\ task[r].pc = "closing"
  /\ task' = [task EXCEPT ![r] = Finished(task[r])]
  /\ UNCHANGED <<run, slots>>

-----------------------------------------------------------------------------
(* Ways out of a step that does not return *)

\* Before the try nothing catches. In its body there are the two handlers, and
\* what is raised in a handler goes to the finally.
Body == {"slot", "stream", "reply", "succeed"}

Escape(t) == At(t, IF t.claimed THEN "closing" ELSE "dead")

OnError(t) == IF t.pc \in Body THEN At(t, "failing")
              ELSE IF t.pc = "failMessage" THEN At(t, "failShort")
              ELSE Escape(t)

OnCancel(t) == IF t.pc \in Body THEN At(t, "cancelling") ELSE Escape(t)

\* The call has or has not reached the row.
MaybeEffect(r) ==
  run' \in {run} \cup (IF Exists(r) THEN {[run EXCEPT ![r] = Effect(r)]} ELSE {})

\* A database error, a row that is gone, or any failure of the provider.
Raise(r) ==
  LET t == OnError(task[r])
  IN  /\ task[r].pc \in Reads \cup Writes /\ ~task[r].kill
      /\ \/ DbFails /\ MaybeEffect(r)
         \/ task[r].pc \in Writes /\ ~Exists(r) /\ UNCHANGED run
         \/ task[r].pc = "stream" /\ UNCHANGED run
      /\ task' = [task EXCEPT ![r] = t]
      /\ Release(r, t.pc)

\* The CancelledError is delivered.
Killed(r) ==
  LET t == OnCancel(task[r])
  IN  /\ task[r].kill /\ task[r].pc \in TaskSteps \ {"closing"}
      /\ MaybeEffect(r)
      /\ task' = [task EXCEPT ![r] = [t EXCEPT !.kill = FALSE]]
      /\ Release(r, t.pc)

Execute(r) ==
  \/ Claim(r) \/ AcquireSlot(r) \/ EndStream(r) \/ SaveReply(r) \/ Succeed(r)
  \/ Unclaimed(r) \/ OnCancelled(r) \/ LogCancelled(r) \/ EndCancelled(r)
  \/ OnFailure(r) \/ SaveFailure(r) \/ LogRecovered(r) \/ EndRecovered(r)
  \/ LogFailed(r) \/ EndFailed(r) \/ EndUnsaved(r)
  \/ ReadEvents(r) \/ LogNotice(r) \/ SaveNotice(r)
  \/ Close(r) \/ Raise(r) \/ Killed(r)

Run(r) ==
  /\ Execute(r) \/ SaveArtifact(r)
  /\ UNCHANGED <<convs, latest, canc, cancels, crashes>>

-----------------------------------------------------------------------------
(* Cancellation: the watchdog and the endpoint *)

\* RunHandle.cancel; without a task only the handle remembers it.
CancelHandle(t, reason) ==
  IF t.active
  THEN [t EXCEPT !.reason = reason, !.kill = t.pc \in TaskSteps]
  ELSE t

\* _watch_run_control: the owner asked in any process, the lease could not be
\* renewed, or three renewals raised. A renewal that succeeds changes nothing.
WatchdogSees(r) ==
  LET renewed == Has(r, {"running"}) /\ ~run[r].stale
  IN  /\ task[r].watch
      /\ \/ /\ renewed /\ run[r].cancel
            /\ task' = [task EXCEPT ![r] =
                 [CancelHandle(task[r], "user") EXCEPT !.watch = FALSE]]
         \/ /\ ~renewed \/ DbFails
            /\ task' = [task EXCEPT ![r] =
                 [CancelHandle(task[r], "lease_lost") EXCEPT !.watch = FALSE]]

Watchdog(r) ==
  /\ WatchdogSees(r)
  /\ UNCHANGED <<run, convs, latest, slots, canc, cancels, crashes>>

\* service.cancel: the run is active
CancelReads(p, r) ==
  /\ canc[p].pc = "idle" /\ Has(r, Active) /\ cancels < MaxCancels
  /\ canc' = [canc EXCEPT ![p] = [pc |-> "request", run |-> r, queued |-> FALSE]]
  /\ cancels' = cancels + 1
  /\ UNCHANGED <<run, task>>

\* request_cancel, with the status it returns
CancelRequests(p) ==
  LET r == canc[p].run
  IN  /\ canc[p].pc = "request"
      /\ run' = IF Has(r, Active) THEN [run EXCEPT ![r].cancel = TRUE] ELSE run
      /\ canc' = [canc EXCEPT ![p] =
           IF Exists(r) THEN [pc |-> "signal", run |-> r,
                              queued |-> run[r].status = "queued"]
                        ELSE Idle]
      /\ UNCHANGED <<cancels, task>>

\* Variant: the run is ended here whatever its status was
CancelSignals_AnyStatus(p) ==
  LET r == canc[p].run
  IN  /\ canc[p].pc = "signal"
      /\ task' = IF task[r].host = p
                 THEN [task EXCEPT ![r] = CancelHandle(task[r], "user")] ELSE task
      /\ canc' = [canc EXCEPT ![p].pc = "end"]
      /\ UNCHANGED <<run, cancels>>

\* registry.cancel in this process; only a queued run is ended here.
CancelSignals(p) ==
  LET r == canc[p].run
  IN  /\ canc[p].pc = "signal"
      /\ task' = IF task[r].host = p
                 THEN [task EXCEPT ![r] = CancelHandle(task[r], "user")] ELSE task
      /\ canc' = [canc EXCEPT ![p] =
           IF canc[p].queued THEN [canc[p] EXCEPT !.pc = "end"] ELSE Idle]
      /\ UNCHANGED <<run, cancels>>

CancelEnds(p) ==
  LET r == canc[p].run
  IN  /\ canc[p].pc = "end"
      /\ run' = IF Exists(r) THEN [run EXCEPT ![r] = Ended(run[r], "cancelled")] ELSE run
      /\ canc' = [canc EXCEPT ![p] =
           IF Exists(r) THEN [canc[p] EXCEPT !.pc = "event"] ELSE Idle]
      /\ UNCHANGED <<cancels, task>>

CancelLogs(p) ==
  LET r == canc[p].run
  IN  /\ canc[p].pc = "event"
      /\ run' = IF Exists(r) THEN [run EXCEPT ![r] = Logged(run[r], "RUN_CANCELLED")]
                             ELSE run
      /\ canc' = [canc EXCEPT ![p] = Idle]
      /\ UNCHANGED <<cancels, task>>

\* A database call of the endpoint raises and the request ends with an error.
CancelBreaks(p) ==
  /\ DbFails /\ canc[p].pc \in {"request", "end", "event"}
  /\ canc' = [canc EXCEPT ![p] = Idle]
  /\ UNCHANGED <<run, cancels, task>>

AnswerCancel(p) ==
  \/ CancelRequests(p) \/ CancelSignals(p) \/ CancelEnds(p) \/ CancelLogs(p)

Cancel(p) ==
  /\ (\E r \in Runs : CancelReads(p, r)) \/ AnswerCancel(p) \/ CancelBreaks(p)
  /\ UNCHANGED <<convs, latest, slots, crashes>>

-----------------------------------------------------------------------------
(* Time, the sweep, deletion, crashes *)

LeaseLapses(r) ==
  /\ Has(r, Active) /\ ~run[r].stale
  /\ run' = [run EXCEPT ![r].stale = TRUE]
  /\ UNCHANGED <<convs, latest, task, slots, canc, cancels, crashes>>

\* Variant: only runs with a lapsed lease are swept
Swept_RunningOnly(r) == Has(r, {"running"}) /\ run[r].stale

Swept(r) == Has(r, Active) /\ run[r].stale

\* Variant: the sweep tells nobody
SweptRow_Silent(d) == Ended(d, "interrupted")

SweptRow(d) == Logged(Ended(d, "interrupted"), "RUN_INTERRUPTED")

\* mark_stale_runs_interrupted, when a Studio page is loaded
Sweep ==
  /\ \E r \in Runs : Swept(r)
  /\ run' = [r \in Runs |-> IF Swept(r) THEN SweptRow(run[r]) ELSE run[r]]
  /\ UNCHANGED <<convs, latest, task, slots, canc, cancels, crashes>>

\* delete_conversation; the rows of its runs go with it.
DeleteConversation(c) ==
  /\ c \in convs /\ ~Busy(c)
  /\ convs' = convs \ {c}
  /\ run' = [r \in Runs |-> IF Exists(r) /\ run[r].conv = c THEN None ELSE run[r]]
  /\ latest' = [latest EXCEPT ![c] = None]
  /\ UNCHANGED <<task, slots, canc, cancels, crashes>>

Alive(r) == task[r].pc \in SetupSteps \cup TaskSteps

\* Everything a process holds in memory is lost, the connections included.
Crashed(t) ==
  [NoTask EXCEPT !.pc = "crashed", !.told = t.told,
                 !.stream = IF t.stream = "open" THEN "closed" ELSE t.stream]

Crash(p) ==
  /\ crashes < MaxCrashes
  /\ crashes' = crashes + 1
  /\ task' = [r \in Runs |-> IF task[r].host = p
                             THEN Crashed(task[r]) ELSE task[r]]
  /\ slots' = [slots EXCEPT ![p] = 0]
  /\ canc' = [canc EXCEPT ![p] = Idle]
  /\ UNCHANGED <<run, convs, latest, cancels>>

Next ==
  \/ \E r \in Runs : Request(r) \/ Run(r) \/ Watchdog(r) \/ LeaseLapses(r)
  \/ \E p \in Procs : Cancel(p) \/ Crash(p)
  \/ \E c \in Conversations : DeleteConversation(c)
  \/ Sweep

Spec == Init /\ [][Next]_vars

\* asyncio resumes what can go on, run_stream is bounded by RUN_TIMEOUT_SECONDS,
\* the lease of a task that is gone lapses, and Studio is opened again.
Fairness ==
  /\ \A r \in Runs :
       /\ WF_vars(Request(r) /\ task[r].pc # "none")
       /\ WF_vars(Run(r) /\ ~SaveArtifact(r))
       /\ WF_vars(LeaseLapses(r) /\ ~Alive(r))
  /\ \A p \in Procs : WF_vars(Cancel(p) /\ AnswerCancel(p))
  /\ WF_vars(Sweep)

FairSpec == Spec /\ Fairness

-----------------------------------------------------------------------------
(* Safety *)

\* Of the runs that carry out one user message, a retry included, at most one
\* is active or succeeded: a request gets one answer. A swept run may still
\* succeed when its worker comes back, so only a failed one may be retried
\* (append_user_message_and_create_run, set_run_status).
OneAnswerPerRequest ==
  \A r, s \in Runs :
    /\ Has(r, Active \cup {"succeeded"}) /\ Has(s, Active \cup {"succeeded"})
    /\ run[r].request = run[s].request
    => r = s

\* What a reload shows explains how the run ended: a success has its RUN_FINISHED
\* event and a stored reply, an interruption its event, and so has a
\* cancellation by the run's own worker (execute_run, the sweep).
EndIsRecorded ==
  \A r \in Runs : Exists(r) =>
    /\ run[r].status = "succeeded" =>
         "RUN_FINISHED" \in run[r].log /\ run[r].said \cap {"answer", "failure"} # {}
    /\ run[r].status = "interrupted" => "RUN_INTERRUPTED" \in run[r].log
    /\ run[r].status = "cancelled" /\ run[r].owned => "RUN_CANCELLED" \in run[r].log

\* A run ends as cancelled only when its owner asked for it: a lost lease, a
\* shutdown or a sweep never looks like a decision of the owner's.
CancelledWasAsked == \A r \in Runs : Has(r, {"cancelled"}) => run[r].cancel

\* A slot is held by each run that streams and by no other, so that no way out
\* of a stream uses one up for good (RunCoordinator.slot).
SlotsAreReturned ==
  \A p \in Procs :
    /\ slots[p] = Cardinality({r \in Runs : task[r].pc = "stream" /\ task[r].host = p})
    /\ slots[p] <= MaxSlots

\* A stream ends with its task: no client waits for the events of a task that
\* is gone for good (event_stream ends only at the task's last queue.put).
StreamEndsWithTask == \A r \in Runs : task[r].pc = "dead" => task[r].stream # "open"

-----------------------------------------------------------------------------
(* The runs keep what Studio promises *)

Statuses ==
  [r \in Runs |-> IF Exists(r) THEN run[r].status
                  ELSE IF task[r].pc = "none" THEN "new" ELSE "gone"]
Places == [r \in Runs |-> IF Exists(r) THEN run[r].conv ELSE None]
Wishes == [r \in Runs |-> IF Exists(r) THEN run[r].request ELSE None]
Begun == {r \in Runs : Exists(r) /\ run[r].owned}
Stops == {r \in Runs : Exists(r) /\ run[r].cancel}
Reports == [r \in Runs |-> task[r].told]

Promise == INSTANCE RunPromise WITH
  shown <- Statuses, place <- Places, wanted <- Wishes,
  begun <- Begun, asked <- Stops, told <- Reports

\* Requests, tasks, watchdogs, cancellations and sweeps of all processes together
\* do to the runs only what the promise allows.
KeepsRunPromise == Promise!Spec

-----------------------------------------------------------------------------
(* Liveness *)

\* Every queued run comes to an end, whatever fails, is lost or is cancelled.
RunsEnd == \A r \in Runs : Has(r, Active) ~> ~Has(r, Active)
=============================================================================
