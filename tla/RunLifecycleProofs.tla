-------------------------- MODULE RunLifecycleProofs --------------------------
(***************************************************************************)
(* Proofs about the runs: for every number of runs, conversations, web     *)
(* processes and slots, the safety invariants of RunLifecycle, that it     *)
(* implements RunPromise, and what follows for the owner from that alone.  *)
(*                                                                         *)
(* The row of a run and its task are written at different times by         *)
(* different actors, so the invariant says of each run what its row must   *)
(* be where its task stands (Agree), of each cancel request what remains   *)
(* true of the run it has read (CancelOK), of the runs of one request that *)
(* all but the latest are dropped (RequestInv), and of each process that   *)
(* its counter counts its streams (SlotInv).                               *)
(*                                                                         *)
(* What makes these survive the steps of others is what no step takes back *)
(* from a row (Goes): each write of a row is shown to go this way once,    *)
(* and all that the rest knows of the row then stays true (RowsGo).        *)
(*                                                                         *)
(* The step of the refinement reads the same writes again: each turns the  *)
(* row as one action of the promise does, or shows nothing of it (Turn).   *)
(***************************************************************************)
EXTENDS RunLifecycle, FiniteSetTheorems, TLAPS

\* The statuses that only the run's own worker writes to a row it claimed.
OwnEnd(d) == d.owned /\ d.status \in {"succeeded", "failed", "cancelled"}

\* A task has claimed its run before each of its steps but these.
Before == {"created", "setup", "claim", "unclaimed", "refused", "broken"}
Notices == {"events", "mark", "notify"}
Claimless == Before \cup Notices \cup {"none", "done", "dead", "crashed"}
Past == {"closing", "done", "crashed"}

\* What a task is by itself.
TaskOK(t) ==
  /\ t.pc = "none" => t = NoTask
  /\ t.pc \notin Claimless => t.claimed
  /\ t.pc \in Before => ~t.claimed
  /\ t.pc \in {"created", "setup"} => t.host \in Procs
  /\ t.pc \in TaskSteps => t.host \in Procs
  /\ t.pc \in {"cancelEvent", "cancelStatus"} => t.end \in {"cancelled", "interrupted"}

\* Whose row it is: only the task that claimed the run owns it.
Ownership(d, t) ==
  /\ t.pc # "none"
  /\ t.claimed => d.owned
  /\ t.pc \in Before => ~d.owned
  /\ t.pc \in Notices => d.status \notin Active /\ (t.claimed \/ ~d.owned)
  /\ d.status = "queued" => ~d.owned
  /\ d.status \in {"running", "succeeded"} => d.owned

\* Whoever wrote an end of its own writes no other.
Settled(d, t) ==
  OwnEnd(d) =>
    \/ t.pc \in Past
    \/ d.status = "succeeded" /\ t.pc \in {"failing", "cancelling"}

\* The event and the reply of an end are stored before its status.
Recorded(d, t) ==
  /\ d.status = "succeeded" => "RUN_FINISHED" \in d.log /\ d.said # {}
  /\ d.status = "interrupted" => "RUN_INTERRUPTED" \in d.log
  /\ d.status = "cancelled" /\ d.owned => "RUN_CANCELLED" \in d.log
  /\ t.pc \in {"reply", "succeed", "recoverStatus"} => "RUN_FINISHED" \in d.log
  /\ t.pc \in {"succeed", "recoverEvent", "recoverStatus"} => d.said # {}
  /\ t.pc = "cancelStatus" => EventOf(t.end) \in d.log

\* The owner's wish is stored before anybody acts on it.
Asked(d, t) ==
  /\ d.status = "cancelled" => d.cancel
  /\ t.reason = "user" => d.cancel \/ d.status \notin Active
  /\ t.pc \in {"cancelEvent", "cancelStatus"} /\ t.end = "cancelled" => d.cancel

\* Nothing that could still end as a success has been told to have failed.
ToldOK(d, t) ==
  /\ "finished" \in t.told => d.status = "succeeded"
  /\ "error" \in t.told =>
       /\ d.status # "succeeded"
       /\ t.pc \in Past \cup {"failEvent", "failStatus"}

Agree(d, t) ==
  /\ Ownership(d, t) /\ Settled(d, t) /\ Recorded(d, t)
  /\ Asked(d, t) /\ ToldOK(d, t)

RunsInv ==
  \A r \in Runs : TaskOK(task[r]) /\ (Exists(r) => Agree(run[r], task[r]))

\* What a cancel request knows of its run stays true.
CancelOK(k) ==
  /\ k.pc # "idle" => k.run \in Runs /\ task[k.run].pc # "none"
  /\ k.pc \in {"end", "event"} => k.queued
  /\ k.pc # "idle" /\ Exists(k.run) =>
       /\ k.pc = "signal" => run[k.run].cancel \/ run[k.run].status \notin Active
       /\ k.queued => run[k.run].cancel /\ ~run[k.run].owned

CancelInv == \A p \in Procs : CancelOK(canc[p])

Dropped(d) == d.status \in {"failed", "cancelled"}

\* The runs of one request belong to one conversation, and all but its latest
\* are dropped.
RequestInv ==
  /\ \A r \in Runs : Exists(r) =>
       /\ task[run[r].request].pc # "none"
       /\ latest[run[r].conv] \in Runs
       /\ Exists(latest[run[r].conv])
  /\ \A c \in Conversations : latest[c] # None =>
       latest[c] \in Runs /\ Exists(latest[c]) /\ run[latest[c]].conv = c
  /\ \A r, s \in Runs :
       /\ r # s /\ Exists(r) /\ Exists(s) /\ run[r].request = run[s].request
       => /\ run[r].conv = run[s].conv
          /\ Dropped(run[r]) \/ Dropped(run[s])
          /\ s = latest[run[r].conv] => Dropped(run[r])

Streaming(p) == {r \in Runs : task[r].pc = "stream" /\ task[r].host = p}

SlotInv == \A p \in Procs :
  /\ IsFiniteSet(Streaming(p))
  /\ slots[p] = Cardinality(Streaming(p))
  /\ slots[p] <= MaxSlots

IInv == TypeOK /\ RunsInv /\ CancelInv /\ RequestInv /\ SlotInv

-----------------------------------------------------------------------------
(* What no step takes back from a row. *)

Goes(d, e) ==
  /\ e.conv = d.conv /\ e.request = d.request
  /\ d.owned => e.owned
  /\ d.cancel => e.cancel
  /\ d.cancel /\ ~d.owned => ~e.owned
  /\ d.status \notin Active => e.status \notin Active
  /\ Dropped(d) => Dropped(e)
  /\ OwnEnd(d) => e.status = d.status

LEMMA GoesStays == \A d \in Row : Goes(d, d)
BY DEF Goes

\* The effect of the call at which a task waits.
LEMMA EffectAt ==
  ASSUME NEW r
  PROVE  LET d == run[r]
             at == task[r].pc
         IN  /\ at = "claim" => Effect(r) = IF Claimable(d) THEN Claimed(d) ELSE d
             /\ at \in {"stream", "recoverEvent"} => Effect(r) = Logged(d, "RUN_FINISHED")
             /\ at = "reply" => Effect(r) = Said(d, "answer")
             /\ at \in {"succeed", "recoverStatus"} => Effect(r) = Ended(d, "succeeded")
             /\ at \in {"cancelEvent", "mark"} =>
                  Effect(r) = Logged(d, EventOf(task[r].end))
             /\ at = "cancelStatus" => Effect(r) = Ended(d, task[r].end)
             /\ at = "failMessage" => Effect(r) = Said(d, "failure")
             /\ at = "failEvent" => Effect(r) = Logged(d, "RUN_ERROR")
             /\ at \in {"failStatus", "failShort"} => Effect(r) = Ended(d, "failed")
             /\ at \notin {"claim"} \cup (Writes \ {"notify"}) => Effect(r) = d
BY DEF Effect, Writes

\* What the row operations leave alone.
LEMMA EndedRow ==
  ASSUME NEW d \in Row, NEW s \in Active \cup Ends
  PROVE  /\ Ended(d, s) \in Row
         /\ Ended(d, s).status = s /\ Ended(d, s).conv = d.conv
         /\ Ended(d, s).request = d.request /\ Ended(d, s).owned = d.owned
         /\ Ended(d, s).cancel = d.cancel
         /\ Ended(d, s).log = d.log /\ Ended(d, s).said = d.said
BY DEF Row, Ended

LEMMA LoggedRow ==
  ASSUME NEW d \in Row, NEW e \in EndEvents
  PROVE  /\ Logged(d, e) \in Row
         /\ Logged(d, e).status = d.status /\ Logged(d, e).conv = d.conv
         /\ Logged(d, e).request = d.request /\ Logged(d, e).owned = d.owned
         /\ Logged(d, e).cancel = d.cancel
         /\ Logged(d, e).log = d.log \cup {e} /\ Logged(d, e).said = d.said
BY DEF Row, Logged

LEMMA SaidRow ==
  ASSUME NEW d \in Row, NEW m \in Replies
  PROVE  /\ Said(d, m) \in Row
         /\ Said(d, m).status = d.status /\ Said(d, m).conv = d.conv
         /\ Said(d, m).request = d.request /\ Said(d, m).owned = d.owned
         /\ Said(d, m).cancel = d.cancel
         /\ Said(d, m).log = d.log /\ Said(d, m).said = d.said \cup {m}
BY DEF Row, Said

LEMMA ClaimedRow ==
  ASSUME NEW d \in Row
  PROVE  /\ Claimed(d) \in Row
         /\ Claimed(d).status = "running" /\ Claimed(d).conv = d.conv
         /\ Claimed(d).request = d.request /\ Claimed(d).owned
         /\ Claimed(d).cancel = d.cancel
         /\ Claimed(d).log = d.log /\ Claimed(d).said = d.said
BY DEF Row, Claimed, Active

LEMMA EffectGoes ==
  ASSUME IInv, NEW r \in Runs, Exists(r)
  PROVE  Effect(r) \in Row /\ Goes(run[r], Effect(r))
<1>1. run[r] \in Row /\ task[r] \in Task /\ Agree(run[r], task[r]) /\ TaskOK(task[r])
  BY DEF IInv, TypeOK, RunsInv, Exists
<1>2. CASE task[r].pc \in {"stream", "recoverEvent", "reply", "cancelEvent", "mark",
                           "failMessage", "failEvent"}
  <2>1. PICK e \in EndEvents, m \in Replies :
           Effect(r) = Logged(run[r], e) \/ Effect(r) = Said(run[r], m)
    BY <1>2, EffectAt DEF EventOf, EndEvents, Replies
  <2> QED
    BY <1>1, <2>1, LoggedRow, SaidRow DEF Goes, Dropped, OwnEnd
<1>3. CASE task[r].pc = "claim"
  <2>1. CASE Claimable(run[r])
    BY <1>1, <1>3, <2>1, EffectAt, ClaimedRow
       DEF Goes, Claimable, Dropped, OwnEnd, Active
  <2>2. CASE ~Claimable(run[r])
    BY <1>1, <1>3, <2>2, EffectAt, GoesStays
  <2> QED
    BY <2>1, <2>2
<1>4. CASE task[r].pc \in {"succeed", "recoverStatus", "cancelStatus", "failStatus",
                           "failShort"}
  <2>1. PICK s \in Ends : Effect(r) = Ended(run[r], s)
    BY <1>1, <1>4, EffectAt DEF TaskOK, Ends
  <2>2. ~OwnEnd(run[r]) /\ run[r].owned
    BY <1>1, <1>4 DEF Agree, Settled, Ownership, Past, TaskOK, Claimless, Before, Notices
  <2>3. ~Dropped(run[r])
    BY <2>2 DEF Dropped, OwnEnd
  <2> QED
    BY <1>1, <2>1, <2>2, <2>3, EndedRow DEF Goes, OwnEnd, Active, Ends
<1>5. CASE task[r].pc \notin {"claim"} \cup (Writes \ {"notify"})
  BY <1>1, <1>5, EffectAt, GoesStays
<1> QED
  BY <1>2, <1>3, <1>4, <1>5 DEF Writes
-----------------------------------------------------------------------------
(* What the rest of a step needs of the rows it changes. *)

RowsGo == \A s \in Runs :
  /\ (run[s] = None) = (run'[s] = None)
  /\ run[s] # None => Goes(run[s], run'[s])

LEMMA RequestsKept ==
  ASSUME IInv, RowsGo, UNCHANGED latest,
         \A s \in Runs : task[s].pc # "none" => task'[s].pc # "none"
  PROVE  RequestInv'
<1>1. \A s \in Runs : run'[s] # None <=> run[s] # None
  BY DEF RowsGo
<1>2. \A s \in Runs : run[s] # None =>
        /\ run[s].request \in Runs /\ run'[s].request = run[s].request
        /\ run[s].conv \in Conversations /\ run'[s].conv = run[s].conv
        /\ Dropped(run[s]) => Dropped(run'[s])
  BY DEF RowsGo, Goes, IInv, TypeOK, Row
<1>3. ASSUME NEW s \in Runs, run'[s] # None
      PROVE  /\ task'[run'[s].request].pc # "none"
             /\ latest'[run'[s].conv] \in Runs
             /\ run'[latest'[run'[s].conv]] # None
  BY <1>1, <1>2, <1>3 DEF IInv, RequestInv, Exists
<1>4. ASSUME NEW c \in Conversations, latest'[c] # None
      PROVE  /\ latest'[c] \in Runs /\ run'[latest'[c]] # None
             /\ run'[latest'[c]].conv = c
  BY <1>1, <1>2, <1>4 DEF IInv, RequestInv, Exists
<1>5. ASSUME NEW r \in Runs, NEW s \in Runs, r # s, run'[r] # None, run'[s] # None,
             run'[r].request = run'[s].request
      PROVE  /\ run'[r].conv = run'[s].conv
             /\ Dropped(run'[r]) \/ Dropped(run'[s])
             /\ s = latest'[run'[r].conv] => Dropped(run'[r])
  BY <1>1, <1>2, <1>5 DEF IInv, RequestInv, Exists
<1> QED
  BY <1>3, <1>4, <1>5 DEF RequestInv, Exists, Dropped

LEMMA CancelKept ==
  ASSUME RowsGo, NEW k, CancelOK(k),
         \A s \in Runs : task[s].pc # "none" => task'[s].pc # "none"
  PROVE  CancelOK(k)'
BY DEF CancelOK, RowsGo, Exists, Goes

LEMMA CancelsKept ==
  ASSUME IInv, RowsGo, UNCHANGED canc,
         \A s \in Runs : task[s].pc # "none" => task'[s].pc # "none"
  PROVE  CancelInv'
<1> SUFFICES ASSUME NEW p \in Procs
             PROVE  CancelOK(canc[p])'
  BY DEF CancelInv
<1>1. CancelOK(canc[p])
  BY DEF IInv, CancelInv
<1> QED
  BY <1>1 DEF CancelOK, RowsGo, Exists, Goes

\* One run and its row change; the slots are looked at apart.
LEMMA RunPut ==
  ASSUME IInv, NEW r \in Runs, NEW t \in Task, TaskOK(t), t.pc # "none",
         task' = [task EXCEPT ![r] = t],
         NEW d, run' = IF Exists(r) THEN [run EXCEPT ![r] = d] ELSE run,
         Exists(r) => d \in Row /\ Goes(run[r], d) /\ Agree(d, t),
         UNCHANGED <<convs, latest, canc, cancels, crashes>>,
         slots' \in [Procs -> Nat]
  PROVE  TypeOK' /\ RunsInv' /\ CancelInv' /\ RequestInv'
<1>1. /\ run \in [Runs -> Row \cup {None}] /\ task \in [Runs -> Task]
  BY DEF IInv, TypeOK
<1>2. /\ run' \in [Runs -> Row \cup {None}]
      /\ \A s \in Runs \ {r} : run'[s] = run[s]
      /\ run'[r] = IF Exists(r) THEN d ELSE None
  BY <1>1 DEF Exists
<1>3. /\ task' \in [Runs -> Task]
      /\ \A s \in Runs \ {r} : task'[s] = task[s]
      /\ task'[r] = t
  BY <1>1
<1>4. RowsGo
  <2> SUFFICES ASSUME NEW s \in Runs
               PROVE  /\ (run[s] = None) = (run'[s] = None)
                      /\ run[s] # None => Goes(run[s], run'[s])
    BY DEF RowsGo
  <2>1. CASE s = r
    BY <1>1, <1>2, <2>1, NoneAssumption DEF Exists
  <2>2. CASE s # r
    BY <1>1, <1>2, <2>2, GoesStays
  <2> QED
    BY <2>1, <2>2
<1>5. TypeOK'
  BY <1>2, <1>3 DEF IInv, TypeOK
<1>6. RunsInv'
  <2> SUFFICES ASSUME NEW s \in Runs
               PROVE  TaskOK(task'[s]) /\ (run'[s] # None => Agree(run'[s], task'[s]))
    BY DEF RunsInv, Exists
  <2>1. CASE s = r
    BY <1>2, <1>3, <2>1 DEF Exists
  <2>2. CASE s # r
    BY <1>2, <1>3, <2>2 DEF IInv, RunsInv, Exists
  <2> QED
    BY <2>1, <2>2
<1>7. CancelInv' /\ RequestInv'
  BY <1>3, <1>4, CancelsKept, RequestsKept
<1> QED
  BY <1>5, <1>6, <1>7

-----------------------------------------------------------------------------
(* The slots. *)

LEMMA SlotsTyped ==
  ASSUME IInv
  PROVE  slots \in [Procs -> Nat]
BY DEF IInv, TypeOK

LEMMA SlotsKept ==
  ASSUME IInv, UNCHANGED slots,
         \A s \in Runs : /\ task'[s].pc = "stream" <=> task[s].pc = "stream"
                         /\ task[s].pc = "stream" => task'[s].host = task[s].host
  PROVE  SlotInv'
<1>1. \A p \in Procs : Streaming(p)' = Streaming(p)
  BY DEF Streaming
<1> QED
  BY <1>1 DEF IInv, SlotInv

\* A run that streams, or no longer does.
LEMMA SlotTaken ==
  ASSUME IInv, NEW r \in Runs, NEW t, task' = [task EXCEPT ![r] = t],
         task[r].pc # "stream", t.pc = "stream", NEW p \in Procs, t.host = p,
         slots[p] < MaxSlots, slots' = [slots EXCEPT ![p] = slots[p] + 1]
  PROVE  slots' \in [Procs -> Nat] /\ SlotInv'
<1>1. slots \in [Procs -> Nat] /\ task \in [Runs -> Task]
  BY DEF IInv, TypeOK
<1>2. \A s \in Runs : task'[s] = IF s = r THEN t ELSE task[s]
  BY <1>1
<1>3. Streaming(p)' = Streaming(p) \cup {r} /\ r \notin Streaming(p)
  BY <1>2 DEF Streaming
<1>4. IsFiniteSet(Streaming(p)) /\ slots[p] = Cardinality(Streaming(p))
  BY DEF IInv, SlotInv
<1>5. /\ IsFiniteSet(Streaming(p)')
      /\ Cardinality(Streaming(p)') = slots[p] + 1
  BY <1>3, <1>4, FS_AddElement
<1>6. \A q \in Procs \ {p} : Streaming(q)' = Streaming(q) /\ slots'[q] = slots[q]
  BY <1>1, <1>2 DEF Streaming
<1>7. slots'[p] = slots[p] + 1 /\ slots'[p] <= MaxSlots
  BY <1>1, ConstantsAssumption
<1>8. ASSUME NEW q \in Procs
      PROVE  /\ IsFiniteSet(Streaming(q)')
             /\ slots'[q] = Cardinality(Streaming(q)')
             /\ slots'[q] <= MaxSlots
  BY <1>5, <1>6, <1>7 DEF IInv, SlotInv
<1> QED
  BY <1>1, <1>8 DEF SlotInv

LEMMA SlotReturned ==
  ASSUME IInv, NEW r \in Runs, NEW t, task' = [task EXCEPT ![r] = t],
         task[r].pc = "stream", t.pc # "stream", NEW p \in Procs, task[r].host = p,
         slots' = [slots EXCEPT ![p] = slots[p] - 1]
  PROVE  slots' \in [Procs -> Nat] /\ SlotInv'
<1>1. slots \in [Procs -> Nat] /\ task \in [Runs -> Task]
  BY DEF IInv, TypeOK
<1>2. \A s \in Runs : task'[s] = IF s = r THEN t ELSE task[s]
  BY <1>1
<1>3. Streaming(p)' = Streaming(p) \ {r} /\ r \in Streaming(p)
  BY <1>2 DEF Streaming
<1>4. IsFiniteSet(Streaming(p)) /\ slots[p] = Cardinality(Streaming(p))
  BY DEF IInv, SlotInv
<1>5. /\ IsFiniteSet(Streaming(p)')
      /\ Cardinality(Streaming(p)') = slots[p] - 1
      /\ slots[p] - 1 \in Nat
  <2>1. /\ IsFiniteSet(Streaming(p) \ {r})
        /\ Cardinality(Streaming(p) \ {r}) = Cardinality(Streaming(p)) - 1
    BY <1>3, <1>4, FS_RemoveElement
  <2>2. Cardinality(Streaming(p) \ {r}) \in Nat
    BY <2>1, FS_CardinalityType
  <2> QED
    BY <1>3, <1>4, <2>1, <2>2
<1>6. \A q \in Procs \ {p} : Streaming(q)' = Streaming(q) /\ slots'[q] = slots[q]
  BY <1>1, <1>2 DEF Streaming
<1>7. slots'[p] = slots[p] - 1 /\ slots'[p] <= MaxSlots
  BY <1>1, <1>5, ConstantsAssumption DEF IInv, SlotInv
<1>8. ASSUME NEW q \in Procs
      PROVE  /\ IsFiniteSet(Streaming(q)')
             /\ slots'[q] = Cardinality(Streaming(q)')
             /\ slots'[q] <= MaxSlots
  BY <1>5, <1>6, <1>7 DEF IInv, SlotInv
<1>9. slots' \in [Procs -> Nat]
  BY <1>1, <1>5
<1> QED
  BY <1>8, <1>9 DEF SlotInv
-----------------------------------------------------------------------------
(* The steps of a task. *)

Alike(t, u) ==
  /\ u.host = t.host /\ u.claimed = t.claimed
  /\ u.reason = t.reason /\ u.told = t.told

\* A task goes on elsewhere.
LEMMA AtTask ==
  ASSUME NEW t \in Task, NEW n \in TaskSteps \cup Over
  PROVE  /\ At(t, n) \in Task /\ At(t, n).pc = n /\ Alike(t, At(t, n))
         /\ n # "closing" => At(t, n).end = t.end
BY DEF At, Task, TaskSteps, Reads, Writes, Alike

LEMMA ToldTask ==
  ASSUME NEW t \in Task, NEW e \in {"finished", "error"}
  PROVE  /\ Told(t, e) \in Task
         /\ Told(t, e).pc = t.pc /\ Told(t, e).host = t.host
         /\ Told(t, e).claimed = t.claimed /\ Told(t, e).reason = t.reason
         /\ Told(t, e).end = t.end
         /\ Told(t, e).told = t.told \cup {e}
BY DEF Told, Task

LEMMA FinishedTask ==
  ASSUME NEW t \in Task
  PROVE  /\ Finished(t) \in Task
         /\ Finished(t).pc = "done" /\ ~Finished(t).claimed
         /\ Finished(t).reason = None /\ Finished(t).told = t.told
BY DEF Finished, NoTask, Task, Over

Tried(t, w) == [t EXCEPT !.claimed = w]

LEMMA TriedTask ==
  ASSUME NEW t \in Task, NEW w \in BOOLEAN
  PROVE  LET u == Tried(t, w)
         IN  /\ u \in Task /\ u.pc = t.pc /\ u.host = t.host /\ u.claimed = w
             /\ u.reason = t.reason /\ u.told = t.told
BY DEF Task, Tried

Ending(t, e) == [t EXCEPT !.end = e]

LEMMA EndingTask ==
  ASSUME NEW t \in Task, NEW e \in {"cancelled", "interrupted"}
  PROVE  /\ Ending(t, e) \in Task /\ Alike(t, Ending(t, e))
         /\ Ending(t, e).pc = t.pc /\ Ending(t, e).end = e
BY DEF Task, Ending, Alike

Watched(t) == [t EXCEPT !.watch = TRUE]

LEMMA WatchedTask ==
  ASSUME NEW t \in Task
  PROVE  /\ Watched(t) \in Task /\ Alike(t, Watched(t))
         /\ Watched(t).pc = t.pc
BY DEF Task, Watched, Alike

LEMMA Here ==
  ASSUME IInv, NEW r \in Runs
  PROVE  /\ task[r] \in Task /\ TaskOK(task[r])
         /\ Exists(r) => run[r] \in Row /\ Agree(run[r], task[r])
BY DEF IInv, TypeOK, RunsInv, Exists

\* A call of the task of r returned or was given up; it took effect or not.
LEMMA CallStep ==
  ASSUME IInv, NEW r \in Runs, NEW t \in Task, TaskOK(t), t.pc # "none",
         task' = [task EXCEPT ![r] = t],
         NEW d \in {run[r], Effect(r)},
         run' = IF Exists(r) THEN [run EXCEPT ![r] = d] ELSE run,
         Exists(r) => Agree(d, t),
         UNCHANGED <<convs, latest, canc, cancels, crashes>>,
         slots' \in [Procs -> Nat], SlotInv'
  PROVE  IInv'
<1>1. Exists(r) => d \in Row /\ Goes(run[r], d)
  BY Here, EffectGoes, GoesStays
<1> QED
  BY <1>1, RunPut DEF IInv

\* The same, with the slots as they were.
LEMMA QuietStep ==
  ASSUME IInv, NEW r \in Runs, NEW t \in Task, TaskOK(t), t.pc \notin {"none", "stream"},
         task[r].pc # "stream",
         task' = [task EXCEPT ![r] = t],
         NEW d \in {run[r], Effect(r)},
         run' = IF Exists(r) THEN [run EXCEPT ![r] = d] ELSE run,
         Exists(r) => Agree(d, t),
         UNCHANGED <<convs, latest, slots, canc, cancels, crashes>>
  PROVE  IInv'
<1>1. task \in [Runs -> Task]
  BY DEF IInv, TypeOK
<1>2. \A s \in Runs : /\ task'[s].pc = "stream" <=> task[s].pc = "stream"
                      /\ task[s].pc = "stream" => task'[s].host = task[s].host
  BY <1>1
<1>3. slots' \in [Procs -> Nat] /\ SlotInv'
  BY <1>2, SlotsKept, SlotsTyped
<1> QED
  BY <1>3, CallStep

Elsewhere == UNCHANGED <<convs, latest, canc, cancels, crashes>>

LEMMA ClaimStep ==
  ASSUME IInv, NEW r \in Runs, Claim(r), Elsewhere
  PROVE  IInv'
<1> DEFINE won == Exists(r) /\ Claimable(run[r])
           n == IF won THEN "slot" ELSE "unclaimed"
<1>1. task[r].pc = "claim" /\ UNCHANGED slots
  BY DEF Claim, Read, Resumes
<1>2. /\ won \in BOOLEAN /\ n \in TaskSteps
      /\ won => n = "slot"
      /\ ~won => n = "unclaimed"
      /\ Exists(r) => won = Claimable(run[r])
  BY DEF Exists, Claimable, TaskSteps, Reads
<1> HIDE DEF won, n
<1>3. PICK u \in Task :
        /\ u = At(task[r], n) /\ u.pc = n /\ u.host = task[r].host
        /\ u.reason = task[r].reason /\ u.told = task[r].told
  BY <1>2, Here, AtTask DEF Alike
<1>4. PICK t \in Task :
        /\ t = Tried(u, won)
        /\ t.pc = n /\ t.claimed = won /\ t.host = task[r].host
        /\ t.reason = task[r].reason /\ t.told = task[r].told
  BY <1>2, <1>3, TriedTask
<1>5. Return(r, t)
  BY <1>3, <1>4 DEF Claim, Read, Tried, won, n
<1>6. TaskOK(t)
  BY <1>1, <1>2, <1>4, Here DEF Alike, TaskOK, Claimless, Before, TaskSteps, Reads
<1>7. Exists(r) => Agree(Effect(r), t)
  <2> SUFFICES ASSUME Exists(r)
               PROVE  Agree(Effect(r), t)
    OBVIOUS
  <2>1. CASE Claimable(run[r])
    BY <1>1, <1>2, <1>4, <2>1, Here, EffectAt, ClaimedRow
       DEF Alike, Agree, Ownership, Settled, OwnEnd, Recorded, Asked, ToldOK, Before,
       Notices, Past, Claimable, Active
  <2>2. CASE ~Claimable(run[r])
    BY <1>1, <1>2, <1>4, <2>2, Here, EffectAt
       DEF Alike, Agree, Ownership, Settled, OwnEnd, Recorded, Asked, ToldOK, Before,
       Notices, Past
  <2> QED
    BY <2>1, <2>2
<1> QED
  BY <1>1, <1>2, <1>4, <1>5, <1>6, <1>7, QuietStep DEF Return, Elsewhere

LEMMA AcquireSlotStep ==
  ASSUME IInv, NEW r \in Runs, AcquireSlot(r), Elsewhere
  PROVE  IInv'
<1>1. PICK t \in Task :
        /\ t.pc = "stream" /\ Alike(task[r], t)
        /\ task' = [task EXCEPT ![r] = t]
  <2>1. /\ At(task[r], "stream") \in Task
        /\ At(task[r], "stream").pc = "stream"
        /\ Alike(task[r], At(task[r], "stream"))
    BY Here, AtTask DEF TaskSteps, Writes
  <2>2. task' = [task EXCEPT ![r] = Watched(At(task[r], "stream"))]
    BY DEF AcquireSlot, Watched
  <2> QED
    BY <2>1, <2>2, WatchedTask DEF Alike
<1>2. /\ task[r].pc = "slot" /\ task[r].host \in Procs /\ UNCHANGED run
      /\ slots[task[r].host] < MaxSlots
      /\ slots' = [slots EXCEPT ![task[r].host] = slots[task[r].host] + 1]
  BY Here DEF AcquireSlot, Resumes, TaskOK, TaskSteps
<1>3. TaskOK(t)
  BY <1>1, <1>2, Here DEF Alike, TaskOK, Claimless, Before, Notices
<1>4. Exists(r) => Agree(run[r], t)
  BY <1>1, <1>2, Here DEF Alike, Agree, Ownership, Settled, Recorded, Asked, ToldOK,
     Before, Notices, Past
<1>5. slots' \in [Procs -> Nat] /\ SlotInv'
  BY <1>1, <1>2, SlotTaken DEF Alike
<1>6. run' = IF Exists(r) THEN [run EXCEPT ![r] = run[r]] ELSE run
  BY <1>2 DEF IInv, TypeOK
<1> QED
  BY <1>1, <1>3, <1>4, <1>5, <1>6, CallStep DEF Elsewhere

LEMMA EndStreamStep ==
  ASSUME IInv, NEW r \in Runs, EndStream(r), Elsewhere
  PROVE  IInv'
<1>1. PICK t \in Task :
        /\ t.pc = "reply" /\ Alike(task[r], t)
        /\ Return(r, t)
  BY Here, AtTask DEF EndStream, TaskSteps, Writes
<1>2. /\ task[r].pc = "stream" /\ task[r].host \in Procs /\ Exists(r)
      /\ slots' = [slots EXCEPT ![task[r].host] = slots[task[r].host] - 1]
  BY Here DEF EndStream, Release, Resumes, TaskOK, TaskSteps, Writes
<1>3. TaskOK(t)
  BY <1>1, <1>2, Here DEF Alike, TaskOK, Claimless, Before, Notices
<1>4. Agree(Effect(r), t)
  BY <1>1, <1>2, Here, EffectAt, LoggedRow DEF Alike, Agree, Ownership, Settled, OwnEnd,
     Recorded, Asked, ToldOK, Before, Notices, Past, EndEvents
<1>5. slots' \in [Procs -> Nat] /\ SlotInv'
  BY <1>1, <1>2, SlotReturned DEF Return
<1> QED
  BY <1>1, <1>3, <1>4, <1>5, CallStep DEF Elsewhere, Return

\* What follows from a call that the task waits for outside the stream.
LEMMA WaitStep ==
  ASSUME IInv, NEW r \in Runs, NEW t \in Task, TaskOK(t), t.pc \notin {"none", "stream"},
         task[r].pc # "stream", Return(r, t), UNCHANGED slots,
         Exists(r) => Agree(Effect(r), t), Elsewhere
  PROVE  IInv'
BY QuietStep DEF Return, Elsewhere

LEMMA SaveReplyStep ==
  ASSUME IInv, NEW r \in Runs, SaveReply(r), Elsewhere
  PROVE  IInv'
<1>1. PICK t \in Task :
        /\ t.pc = "succeed" /\ Alike(task[r], t)
        /\ Return(r, t) /\ UNCHANGED slots /\ task[r].pc = "reply" /\ Exists(r)
  BY Here, AtTask DEF SaveReply, Write, Resumes, TaskSteps, Writes
<1>2. TaskOK(t)
  BY <1>1, Here DEF Alike, TaskOK, Claimless, Before, Notices, TaskSteps, Writes
<1>3. Agree(Effect(r), t)
  <2>1. /\ Agree(run[r], task[r])
        /\ Effect(r).owned = run[r].owned /\ Effect(r).status = run[r].status
        /\ Effect(r).cancel = run[r].cancel /\ Effect(r).log = run[r].log
        /\ Effect(r).said = run[r].said \cup {"answer"}
    BY <1>1, Here, EffectAt, SaidRow DEF Replies
  <2> QED
    BY <1>1, <2>1 DEF Alike, Agree, Ownership, Settled, OwnEnd, Recorded, Asked,
       ToldOK, Before, Notices, Past
<1> QED
  BY <1>1, <1>2, <1>3, WaitStep

\* get_run in front of a notice.
LEMMA LookStep ==
  ASSUME IInv, NEW r \in Runs, NEW at \in {"unclaimed", "cancelling", "failing"},
         NEW o, Look(r, at, o), Elsewhere,
         ~Has(r, Noticed) =>
           /\ o \in Task /\ TaskOK(o) /\ o.pc \notin {"none", "stream"}
           /\ Exists(r) => Agree(run[r], o)
  PROVE  IInv'
<1>1. task[r].pc = at /\ UNCHANGED slots
  BY DEF Look, Read, Resumes
<1>2. Effect(r) = run[r]
  BY <1>1, EffectAt DEF Writes
<1>3. CASE Has(r, Noticed)
  <2>1. PICK e \in {"cancelled", "interrupted"} :
           Return(r, Ending(At(task[r], "events"), e))
    BY <1>3 DEF Look, Read, Ending
  <2>2. /\ At(task[r], "events") \in Task /\ At(task[r], "events").pc = "events"
        /\ Alike(task[r], At(task[r], "events"))
    BY Here, AtTask DEF TaskSteps, Reads
  <2>3. PICK t \in Task : t.pc = "events" /\ Alike(task[r], t) /\ Return(r, t)
    BY <2>1, <2>2, EndingTask DEF Alike
  <2>4. TaskOK(t)
    BY <1>1, <2>3, Here DEF TaskOK, Claimless, Before, Notices, Alike, TaskSteps, Reads
  <2>5. ~OwnEnd(run[r]) /\ run[r].status \in {"cancelled", "interrupted"} /\ Exists(r)
    BY <1>1, <1>3, Here
       DEF Agree, Settled, Ownership, OwnEnd, Past, Before, Has, Noticed
  <2>6. Agree(Effect(r), t)
    BY <1>1, <1>2, <2>3, <2>5, Here DEF Agree, Ownership, Settled, Recorded, Asked,
       ToldOK, Alike, Before, Notices, Past, TaskOK, Claimless, Active
  <2> QED
    BY <1>1, <2>3, <2>4, <2>6, WaitStep
<1>4. CASE ~Has(r, Noticed)
  <2>1. Return(r, o)
    BY <1>4 DEF Look, Read
  <2> QED
    BY <1>1, <1>2, <1>4, <2>1, WaitStep
<1> QED
  BY <1>3, <1>4

\* What holds of a row wherever its task stands.
Honest(d, t) ==
  /\ t.claimed => d.owned
  /\ d.status = "queued" => ~d.owned
  /\ d.status \in {"running", "succeeded"} => d.owned
  /\ d.status = "succeeded" => "RUN_FINISHED" \in d.log /\ d.said # {}
  /\ d.status = "interrupted" => "RUN_INTERRUPTED" \in d.log
  /\ d.status = "cancelled" /\ d.owned => "RUN_CANCELLED" \in d.log
  /\ d.status = "cancelled" => d.cancel
  /\ t.reason = "user" => d.cancel \/ d.status \notin Active
  /\ "finished" \in t.told => d.status = "succeeded"
  /\ "error" \in t.told => d.status # "succeeded"

LEMMA RowHonest ==
  ASSUME IInv, NEW r \in Runs, Exists(r)
  PROVE  Honest(run[r], task[r])
BY Here DEF Agree, Ownership, Recorded, Asked, ToldOK, Honest

LEMMA EffectHonest ==
  ASSUME IInv, NEW r \in Runs, Exists(r)
  PROVE  Honest(Effect(r), task[r])
<1>1. /\ run[r] \in Row /\ task[r] \in Task /\ TaskOK(task[r])
      /\ Agree(run[r], task[r]) /\ Honest(run[r], task[r])
  BY Here, RowHonest
<1>2. CASE task[r].pc \in {"stream", "recoverEvent", "reply", "cancelEvent", "mark",
                           "failMessage", "failEvent"}
  <2>1. PICK e \in EndEvents, m \in Replies :
           Effect(r) = Logged(run[r], e) \/ Effect(r) = Said(run[r], m)
    BY <1>2, EffectAt DEF EventOf, EndEvents, Replies
  <2> QED
    BY <1>1, <2>1, LoggedRow, SaidRow DEF Honest
<1>3. CASE task[r].pc = "claim"
  <2>1. CASE Claimable(run[r])
    BY <1>1, <1>3, <2>1, EffectAt, ClaimedRow DEF Honest, Claimable, Active
  <2>2. CASE ~Claimable(run[r])
    BY <1>1, <1>3, <2>2, EffectAt
  <2> QED
    BY <2>1, <2>2
<1>4. ASSUME task[r].pc \in {"succeed", "recoverStatus", "cancelStatus",
                             "failStatus", "failShort"}
      PROVE  /\ run[r].owned /\ "finished" \notin task[r].told
             /\ "error" \in task[r].told => task[r].pc = "failStatus"
  BY <1>1, <1>4 DEF Agree, Settled, OwnEnd, Ownership, ToldOK, Past, TaskOK,
     Claimless, Before, Notices
<1>5. CASE task[r].pc \in {"succeed", "recoverStatus"}
  BY <1>1, <1>4, <1>5, EffectAt, EndedRow
     DEF Honest, Agree, Recorded, Ends, Active
<1>6. CASE task[r].pc = "cancelStatus"
  <2>1. /\ task[r].end \in {"cancelled", "interrupted"}
        /\ EventOf(task[r].end) \in run[r].log
        /\ task[r].end = "cancelled" => run[r].cancel
    BY <1>1, <1>6 DEF Agree, Recorded, Asked, TaskOK
  <2> QED
    BY <1>1, <1>4, <1>6, <2>1, EffectAt, EndedRow
       DEF Honest, Ends, Active, EventOf
<1>7. CASE task[r].pc \in {"failStatus", "failShort"}
  BY <1>1, <1>4, <1>7, EffectAt, EndedRow DEF Honest, Ends, Active
<1>8. CASE task[r].pc \notin {"claim"} \cup (Writes \ {"notify"})
  BY <1>1, <1>8, EffectAt
<1> QED
  BY <1>2, <1>3, <1>5, <1>6, <1>7, <1>8 DEF Writes

\* Ways to go on that need no more of the row than this.
LEMMA ToClosing ==
  ASSUME IInv, NEW r \in Runs, task[r].claimed, task[r].pc \in TaskSteps, NEW d,
         Exists(r) => Honest(d, task[r])
  PROVE  LET t == At(task[r], "closing")
         IN  /\ t \in Task /\ TaskOK(t) /\ t.pc = "closing" /\ Alike(task[r], t)
             /\ Exists(r) => Agree(d, t)
<1>1. PICK t \in Task :
        /\ t = At(task[r], "closing") /\ t.pc = "closing" /\ Alike(task[r], t)
  BY Here, AtTask DEF TaskSteps
<1>2. TaskOK(t)
  BY <1>1, Here DEF TaskOK, Alike, Claimless, Before, Notices
<1>3. Exists(r) => Agree(d, t)
  BY <1>1 DEF Agree, Ownership, Settled, Recorded, Asked, ToldOK, Alike, Before,
     Notices, Past, Honest
<1> QED
  BY <1>1, <1>2, <1>3

LEMMA ToHandler ==
  ASSUME IInv, NEW r \in Runs, task[r].claimed, task[r].pc \in TaskSteps, NEW d,
         NEW n \in {"failing", "cancelling"},
         Exists(r) => /\ Honest(d, task[r])
                      /\ OwnEnd(d) => d.status = "succeeded"
                      /\ "error" \notin task[r].told
  PROVE  LET t == At(task[r], n)
         IN  /\ t \in Task /\ TaskOK(t) /\ t.pc = n /\ Alike(task[r], t)
             /\ Exists(r) => Agree(d, t)
<1>1. PICK t \in Task :
        /\ t = At(task[r], n) /\ t.pc = n /\ Alike(task[r], t)
  BY Here, AtTask DEF TaskSteps, Reads
<1>2. TaskOK(t)
  BY <1>1, Here DEF TaskOK, Alike, Claimless, Before, Notices
<1>3. Exists(r) => Agree(d, t)
  BY <1>1 DEF Agree, Ownership, Settled, Recorded, Asked, ToldOK, Alike, Before,
     Notices, Past, Honest
<1> QED
  BY <1>1, <1>2, <1>3

LEMMA ToDeath ==
  ASSUME IInv, NEW r \in Runs, NEW d,
         Exists(r) => /\ Honest(d, task[r]) /\ ~OwnEnd(d)
                      /\ "error" \notin task[r].told
  PROVE  LET t == At(task[r], "dead")
         IN  /\ t \in Task /\ TaskOK(t) /\ t.pc = "dead" /\ Alike(task[r], t)
             /\ Exists(r) => Agree(d, t)
<1>1. PICK t \in Task :
        /\ t = At(task[r], "dead") /\ t.pc = "dead" /\ Alike(task[r], t)
  BY Here, AtTask DEF Over
<1>2. TaskOK(t)
  BY <1>1, Here DEF TaskOK, Alike, Claimless, Before, TaskSteps, Reads, Writes
<1>3. Exists(r) => Agree(d, t)
  BY <1>1 DEF Agree, Ownership, Settled, Recorded, Asked, ToldOK, Alike, Before,
     Notices, Past, Honest
<1> QED
  BY <1>1, <1>2, <1>3

LEMMA UnclaimedStep ==
  ASSUME IInv, NEW r \in Runs, Unclaimed(r), Elsewhere
  PROVE  IInv'
<1>1. task[r].pc = "unclaimed"
  BY DEF Unclaimed, Look, Read, Resumes
<1>2. PICK t \in Task :
        /\ t = Finished(task[r]) /\ t.pc = "done" /\ ~t.claimed
        /\ t.reason = None /\ t.told = task[r].told
  BY Here, FinishedTask
<1>3. TaskOK(t)
  BY <1>2 DEF TaskOK, Claimless, Before, TaskSteps, Reads, Writes
<1>4. Exists(r) => Agree(run[r], t)
  BY <1>1, <1>2, Here, NoneAssumption
     DEF Agree, Ownership, Settled, Recorded, Asked, ToldOK, Before, Notices, Past
<1> QED
  BY <1>2, <1>3, <1>4, LookStep DEF Unclaimed

LEMMA OnFailureStep ==
  ASSUME IInv, NEW r \in Runs, OnFailure(r), Elsewhere
  PROVE  IInv'
<1> DEFINE o == At(task[r], IF Has(r, Active) THEN "failMessage" ELSE "closing")
<1>1. task[r].pc = "failing" /\ task[r].claimed
  BY Here DEF OnFailure, Look, Read, Resumes, TaskOK, Claimless, Before, Notices
<1>2. ASSUME ~Has(r, Noticed)
      PROVE  /\ o \in Task /\ TaskOK(o) /\ o.pc \notin {"none", "stream"}
             /\ Exists(r) => Agree(run[r], o)
  <2>1. CASE Has(r, Active)
    <3>1. PICK t \in Task : t = o /\ t.pc = "failMessage" /\ Alike(task[r], t)
      BY <2>1, Here, AtTask DEF TaskSteps, Writes
    <3>2. TaskOK(t)
      BY <1>1, <3>1, Here DEF TaskOK, Alike, TaskSteps, Reads, Before
    <3>3. Exists(r) => Agree(run[r], t)
      BY <1>1, <2>1, <3>1, Here DEF Agree, Ownership, Settled, OwnEnd, Recorded,
         Asked, ToldOK, Alike, Before, Notices, Past, Has, Active
    <3> QED
      BY <3>1, <3>2, <3>3
  <2>2. CASE ~Has(r, Active)
    <3>1. o = At(task[r], "closing")
      BY <2>2
    <3>2. /\ At(task[r], "closing") \in Task /\ TaskOK(At(task[r], "closing"))
          /\ At(task[r], "closing").pc = "closing"
          /\ Exists(r) => Agree(run[r], At(task[r], "closing"))
      BY <1>1, RowHonest, ToClosing DEF TaskSteps, Reads
    <3> QED
      BY <3>1, <3>2
  <2> QED
    BY <2>1, <2>2
<1> QED
  BY <1>2, LookStep DEF OnFailure

LEMMA OnCancelledStep ==
  ASSUME IInv, NEW r \in Runs, OnCancelled(r), Elsewhere
  PROVE  IInv'
<1> DEFINE e == IF UserCancelled(r) THEN "cancelled" ELSE "interrupted"
           o == IF Has(r, Active) THEN Ending(At(task[r], "cancelEvent"), e)
                                  ELSE At(task[r], "closing")
<1>1. task[r].pc = "cancelling" /\ task[r].claimed
  BY Here DEF OnCancelled, Look, Read, Resumes, TaskOK, Claimless, Before, Notices
<1>2. Look(r, "cancelling", o)
  BY DEF OnCancelled, Ending
<1>3. ASSUME ~Has(r, Noticed)
      PROVE  /\ o \in Task /\ TaskOK(o) /\ o.pc \notin {"none", "stream"}
             /\ Exists(r) => Agree(run[r], o)
  <2>1. CASE Has(r, Active)
    <3>1. e \in {"cancelled", "interrupted"} /\ (e = "cancelled" => UserCancelled(r))
      OBVIOUS
    <3> HIDE DEF e
    <3>2. /\ At(task[r], "cancelEvent") \in Task
          /\ At(task[r], "cancelEvent").pc = "cancelEvent"
          /\ Alike(task[r], At(task[r], "cancelEvent"))
      BY Here, AtTask DEF TaskSteps, Writes
    <3>3. PICK t \in Task :
            t = o /\ t.pc = "cancelEvent" /\ t.end = e /\ Alike(task[r], t)
      BY <2>1, <3>1, <3>2, EndingTask DEF Alike
    <3>4. TaskOK(t)
      BY <1>1, <3>1, <3>3, Here DEF TaskOK, Alike, TaskSteps, Reads, Before
    <3>5. Agree(run[r], t)
      BY <1>1, <2>1, <3>1, <3>3, Here DEF Agree, Ownership, Settled, OwnEnd, Recorded,
         Asked, ToldOK, Alike, Before, Notices, Past, Has, Active, UserCancelled
    <3> QED
      BY <3>3, <3>4, <3>5
  <2>2. CASE ~Has(r, Active)
    <3>1. o = At(task[r], "closing")
      BY <2>2
    <3>2. /\ At(task[r], "closing") \in Task /\ TaskOK(At(task[r], "closing"))
          /\ At(task[r], "closing").pc = "closing"
          /\ Exists(r) => Agree(run[r], At(task[r], "closing"))
      BY <1>1, RowHonest, ToClosing DEF TaskSteps, Reads
    <3> QED
      BY <3>1, <3>2
  <2> QED
    BY <2>1, <2>2
<1> QED
  BY <1>2, <1>3, LookStep

\* A write of the task outside the stream, after which it closes.
LEMMA LastWriteStep ==
  ASSUME IInv, NEW r \in Runs, Elsewhere,
         NEW at \in {"cancelStatus", "failStatus", "failShort"},
         Write(r, at, At(task[r], "closing"))
  PROVE  IInv'
<1>1. task[r].pc = at /\ Exists(r) /\ UNCHANGED slots /\ Return(r, At(task[r], "closing"))
  BY DEF Write, Resumes
<1>2. task[r].claimed /\ task[r].pc \in TaskSteps
  BY <1>1, Here DEF TaskOK, Claimless, Before, Notices, TaskSteps, Writes
<1>3. PICK t \in Task :
        t = At(task[r], "closing") /\ TaskOK(t) /\ t.pc = "closing" /\ Agree(Effect(r), t)
  BY <1>1, <1>2, EffectHonest, ToClosing
<1> QED
  BY <1>1, <1>3, WaitStep

LEMMA CancelStatusSteps ==
  ASSUME IInv, NEW r \in Runs, LogCancelled(r) \/ EndCancelled(r), Elsewhere
  PROVE  IInv'
<1>1. CASE LogCancelled(r)
  <2>1. PICK t \in Task :
          /\ t.pc = "cancelStatus" /\ t.end = task[r].end /\ Alike(task[r], t)
          /\ Return(r, t) /\ UNCHANGED slots
          /\ task[r].pc = "cancelEvent" /\ Exists(r)
    BY <1>1, Here, AtTask DEF LogCancelled, Write, Resumes, TaskSteps, Writes
  <2>2. TaskOK(t)
    BY <2>1, Here DEF TaskOK, Alike, Claimless, Before, Notices, TaskSteps, Writes
  <2>3. Effect(r) = Logged(run[r], EventOf(task[r].end)) /\ EventOf(task[r].end) \in EndEvents
    BY <2>1, EffectAt DEF EventOf, EndEvents
  <2>4. Agree(Effect(r), t)
    BY <2>1, <2>3, Here, LoggedRow DEF Agree, Ownership, Settled, OwnEnd, Recorded,
       Asked, ToldOK, Alike, Before, Notices, Past
  <2> QED
    BY <2>1, <2>2, <2>4, WaitStep
<1>2. CASE EndCancelled(r)
  BY <1>2, LastWriteStep DEF EndCancelled
<1> QED
  BY <1>1, <1>2

LEMMA SaveFailureStep ==
  ASSUME IInv, NEW r \in Runs, SaveFailure(r), Elsewhere
  PROVE  IInv'
<1>1. task[r].pc = "failMessage" /\ Exists(r) /\ UNCHANGED slots
  BY DEF SaveFailure, Write, Resumes
<1>2. LET d == Effect(r)
      IN  /\ d.status = run[r].status /\ d.owned = run[r].owned
          /\ d.cancel = run[r].cancel /\ d.log = run[r].log
          /\ d.said = run[r].said \cup {"failure"}
  BY <1>1, Here, EffectAt, SaidRow DEF Replies
<1>5. run[r].status # "succeeded" /\ ~OwnEnd(run[r])
  BY <1>1, Here DEF Agree, Settled, Ownership, OwnEnd, Past
<1>3. CASE task[r].artifact
  <2>1. PICK t \in Task :
          t.pc = "recoverEvent" /\ Alike(task[r], t) /\ Return(r, t)
    BY <1>3, Here, AtTask DEF SaveFailure, Write, TaskSteps, Writes
  <2>2. TaskOK(t)
    BY <1>1, <2>1, Here DEF TaskOK, Alike, Claimless, Before, Notices, TaskSteps, Writes
  <2>3. Agree(Effect(r), t)
    BY <1>1, <1>2, <1>5, <2>1, Here DEF Agree, Ownership, Settled, OwnEnd, Recorded,
       Asked, ToldOK, Alike, Before, Notices, Past
  <2> QED
    BY <1>1, <2>1, <2>2, <2>3, WaitStep
<1>4. CASE ~task[r].artifact
  <2>1. /\ At(task[r], "failEvent") \in Task /\ At(task[r], "failEvent").pc = "failEvent"
        /\ Alike(task[r], At(task[r], "failEvent"))
    BY Here, AtTask DEF TaskSteps, Writes
  <2>2. PICK t \in Task :
          /\ t.pc = "failEvent" /\ t.host = task[r].host /\ t.claimed = task[r].claimed
          /\ t.reason = task[r].reason /\ t.told = task[r].told \cup {"error"}
          /\ Return(r, t)
    BY <1>4, <2>1, ToldTask DEF SaveFailure, Write, Alike
  <2>3. TaskOK(t)
    BY <1>1, <2>2, Here DEF TaskOK, Claimless, Before, Notices, TaskSteps, Writes
  <2>4. Agree(Effect(r), t)
    BY <1>1, <1>2, <1>5, <2>2, Here DEF Agree, Ownership, Settled, OwnEnd,
       Recorded, Asked, ToldOK, Before, Notices, Past
  <2> QED
    BY <1>1, <2>2, <2>3, <2>4, WaitStep
<1> QED
  BY <1>3, <1>4

LEMMA FailureSteps ==
  ASSUME IInv, NEW r \in Runs, LogFailed(r) \/ EndFailed(r) \/ EndUnsaved(r), Elsewhere
  PROVE  IInv'
<1>1. CASE LogFailed(r)
  <2>1. PICK t \in Task :
          /\ t.pc = "failStatus" /\ Alike(task[r], t)
          /\ Return(r, t) /\ UNCHANGED slots
          /\ task[r].pc = "failEvent" /\ Exists(r)
    BY <1>1, Here, AtTask DEF LogFailed, Write, Resumes, TaskSteps, Writes
  <2>2. TaskOK(t)
    BY <2>1, Here DEF TaskOK, Alike, Claimless, Before, Notices, TaskSteps, Writes
  <2>3. Agree(Effect(r), t)
    BY <2>1, Here, EffectAt, LoggedRow DEF Agree, Ownership, Settled, OwnEnd, Recorded,
       Asked, ToldOK, Alike, Before, Notices, Past, EndEvents
  <2> QED
    BY <2>1, <2>2, <2>3, WaitStep
<1>2. CASE EndFailed(r)
  BY <1>2, LastWriteStep DEF EndFailed
<1>3. CASE EndUnsaved(r)
  BY <1>3, LastWriteStep DEF EndUnsaved
<1> QED
  BY <1>1, <1>2, <1>3

\* The write of a success, which the stream is told of.
LEMMA SuccessStep ==
  ASSUME IInv, NEW r \in Runs, NEW at \in {"succeed", "recoverStatus"}, Elsewhere,
         Write(r, at, Told(At(task[r], "closing"), "finished"))
  PROVE  IInv'
<1>1. /\ task[r].pc = at /\ Exists(r) /\ UNCHANGED slots
      /\ task[r].claimed /\ task[r].pc \in TaskSteps
      /\ Return(r, Told(At(task[r], "closing"), "finished"))
  BY Here DEF Write, Resumes, TaskOK, Claimless, Before, Notices, TaskSteps, Writes
<1>2. PICK u \in Task :
        /\ u = At(task[r], "closing") /\ TaskOK(u) /\ u.pc = "closing"
        /\ Alike(task[r], u) /\ Agree(Effect(r), u)
  BY <1>1, EffectHonest, ToClosing
<1>3. PICK t \in Task :
        /\ t.pc = "closing" /\ t.host = u.host /\ t.claimed = u.claimed
        /\ t.reason = u.reason /\ t.told = u.told \cup {"finished"}
        /\ Return(r, t)
  BY <1>1, <1>2, ToldTask
<1>4. TaskOK(t)
  BY <1>2, <1>3 DEF TaskOK
<1>5. Effect(r).status = "succeeded"
  BY <1>1, Here, EffectAt, EndedRow DEF Ends
<1>6. Agree(Effect(r), t)
  BY <1>1, <1>2, <1>3, <1>5, Here DEF Agree, Ownership, Settled, Recorded, Asked,
     ToldOK, Past, Before, Notices, Alike
<1> QED
  BY <1>1, <1>3, <1>4, <1>6, WaitStep

LEMMA SucceedStep ==
  ASSUME IInv, NEW r \in Runs, Succeed(r), Elsewhere
  PROVE  IInv'
BY SuccessStep DEF Succeed

LEMMA RecoverySteps ==
  ASSUME IInv, NEW r \in Runs, LogRecovered(r) \/ EndRecovered(r), Elsewhere
  PROVE  IInv'
<1>1. CASE LogRecovered(r)
  <2>1. PICK t \in Task :
          /\ t.pc = "recoverStatus" /\ Alike(task[r], t)
          /\ Return(r, t) /\ UNCHANGED slots
          /\ task[r].pc = "recoverEvent" /\ Exists(r)
    BY <1>1, Here, AtTask DEF LogRecovered, Write, Resumes, TaskSteps, Writes
  <2>2. TaskOK(t)
    BY <2>1, Here DEF TaskOK, Alike, Claimless, Before, Notices, TaskSteps, Writes
  <2>3. Agree(Effect(r), t)
    BY <2>1, Here, EffectAt, LoggedRow DEF Agree, Ownership, Settled, OwnEnd, Recorded,
       Asked, ToldOK, Alike, Before, Notices, Past, EndEvents
  <2> QED
    BY <2>1, <2>2, <2>3, WaitStep
<1>2. CASE EndRecovered(r)
  BY <1>2, SuccessStep DEF EndRecovered
<1> QED
  BY <1>1, <1>2

LEMMA ReadEventsStep ==
  ASSUME IInv, NEW r \in Runs, ReadEvents(r), Elsewhere
  PROVE  IInv'
<1>1. PICK n \in {"notify", "mark"} : Read(r, "events", At(task[r], n))
  BY DEF ReadEvents
<1>2. PICK t \in Task :
        /\ t.pc = n /\ Alike(task[r], t) /\ Return(r, t) /\ UNCHANGED slots
        /\ task[r].pc = "events"
  BY <1>1, Here, AtTask DEF Read, Resumes, TaskSteps, Writes
<1>3. TaskOK(t)
  BY <1>2, Here DEF TaskOK, Alike, Claimless, Before, Notices, TaskSteps, Reads
<1>4. Effect(r) = run[r]
  BY <1>2, EffectAt DEF Writes
<1>5. Exists(r) => Agree(Effect(r), t)
  BY <1>2, <1>4, Here DEF Agree, Ownership, Settled, Recorded,
     Asked, ToldOK, Alike, Before, Notices, Past
<1> QED
  BY <1>2, <1>3, <1>5, WaitStep

LEMMA LogNoticeStep ==
  ASSUME IInv, NEW r \in Runs, LogNotice(r), Elsewhere
  PROVE  IInv'
<1>1. PICK t \in Task :
        /\ t.pc = "notify" /\ Alike(task[r], t) /\ Return(r, t) /\ UNCHANGED slots
        /\ task[r].pc = "mark" /\ Exists(r)
  BY Here, AtTask DEF LogNotice, Write, Resumes, TaskSteps, Writes
<1>2. TaskOK(t)
  BY <1>1, Here DEF TaskOK, Alike, Claimless, Before, Notices, TaskSteps, Writes
<1>3. PICK e \in EndEvents : Effect(r) = Logged(run[r], e)
  BY <1>1, EffectAt DEF EventOf, EndEvents
<1>4. Agree(Effect(r), t)
  BY <1>1, <1>3, Here, LoggedRow DEF Agree, Ownership, Settled, OwnEnd, Recorded,
     Asked, ToldOK, Alike, Before, Notices, Past
<1> QED
  BY <1>1, <1>2, <1>4, WaitStep

LEMMA SaveNoticeStep ==
  ASSUME IInv, NEW r \in Runs, SaveNotice(r), Elsewhere
  PROVE  IInv'
<1>1. task[r].pc = "notify" /\ Exists(r) /\ UNCHANGED slots
  BY DEF SaveNotice, Write, Resumes
<1>2. Effect(r) = run[r] /\ run[r].status # "succeeded" /\ ~OwnEnd(run[r])
  BY <1>1, Here, EffectAt DEF Agree, Settled, Ownership, OwnEnd, Past, Writes
<1>3. CASE task[r].claimed
  <2>1. PICK u \in Task :
          /\ u = At(task[r], "closing") /\ TaskOK(u) /\ u.pc = "closing"
          /\ Alike(task[r], u) /\ Agree(Effect(r), u)
    BY <1>1, <1>3, EffectHonest, ToClosing DEF TaskSteps, Writes
  <2>2. PICK t \in Task :
          /\ t.pc = "closing" /\ t.host = u.host /\ t.claimed = u.claimed
          /\ t.reason = u.reason /\ t.told = u.told \cup {"error"}
          /\ Return(r, t)
    BY <1>3, <2>1, ToldTask DEF SaveNotice, Write
  <2>3. TaskOK(t)
    BY <2>1, <2>2 DEF TaskOK
  <2>4. Agree(Effect(r), t)
    BY <1>1, <1>2, <2>1, <2>2, Here DEF Agree, Ownership, Settled, Recorded, Asked,
       ToldOK, Past, Before, Notices, Alike
  <2> QED
    BY <1>1, <2>2, <2>3, <2>4, WaitStep
<1>4. CASE ~task[r].claimed
  <2>1. PICK t \in Task :
          /\ t.pc = "done" /\ ~t.claimed /\ t.reason = None
          /\ t.told = task[r].told \cup {"error"} /\ Return(r, t)
    BY <1>4, Here, FinishedTask, ToldTask DEF SaveNotice, Write
  <2>2. TaskOK(t)
    BY <2>1 DEF TaskOK, Claimless, Before, TaskSteps, Reads, Writes
  <2>3. Agree(Effect(r), t)
    BY <1>1, <1>2, <2>1, Here, NoneAssumption DEF Agree, Ownership, Settled, Recorded,
       Asked, ToldOK, Past, Before, Notices
  <2> QED
    BY <1>1, <2>1, <2>2, <2>3, WaitStep
<1> QED
  BY <1>3, <1>4

\* The row stays as it is.
LEMMA RowStays ==
  ASSUME IInv, NEW r \in Runs, UNCHANGED run
  PROVE  run' = IF Exists(r) THEN [run EXCEPT ![r] = run[r]] ELSE run
BY DEF IInv, TypeOK

LEMMA CloseStep ==
  ASSUME IInv, NEW r \in Runs, Close(r), Elsewhere
  PROVE  IInv'
<1>1. PICK t \in Task :
        /\ t.pc = "done" /\ ~t.claimed /\ t.reason = None /\ t.told = task[r].told
        /\ task' = [task EXCEPT ![r] = t]
        /\ task[r].pc = "closing" /\ UNCHANGED <<run, slots>>
  BY Here, FinishedTask DEF Close
<1>2. TaskOK(t)
  BY <1>1 DEF TaskOK, Claimless, Before, TaskSteps, Reads, Writes
<1>3. Exists(r) => Agree(run[r], t)
  BY <1>1, Here, NoneAssumption DEF Agree, Ownership, Settled, Recorded,
     Asked, ToldOK, Past, Before, Notices
<1> QED
  BY <1>1, <1>2, <1>3, RowStays, QuietStep DEF Elsewhere

Saving(t) == [t EXCEPT !.artifact = TRUE]

LEMMA SaveArtifactStep ==
  ASSUME IInv, NEW r \in Runs, SaveArtifact(r), Elsewhere
  PROVE  IInv'
<1>1. Saving(task[r]) \in Task /\ Alike(task[r], Saving(task[r]))
      /\ Saving(task[r]).pc = task[r].pc
  BY Here DEF Saving, Task, Alike
<1>2. PICK t \in Task :
        /\ t.pc = "stream" /\ Alike(task[r], t) /\ task' = [task EXCEPT ![r] = t]
        /\ task[r].pc = "stream" /\ UNCHANGED <<run, slots>>
  <2>1. /\ task' = [task EXCEPT ![r] = Saving(task[r])]
        /\ task[r].pc = "stream" /\ UNCHANGED <<run, slots>>
    BY DEF SaveArtifact, Resumes, Saving, IInv, TypeOK
  <2> QED
    BY <1>1, <2>1
<1>3. TaskOK(t)
  BY <1>2, Here DEF TaskOK, Alike
<1>4. Exists(r) => Agree(run[r], t)
  BY <1>2, Here DEF Agree, Ownership, Settled, Recorded,
     Asked, ToldOK, Past, Before, Notices, Alike
<1>5. \A s \in Runs : /\ task'[s].pc = "stream" <=> task[s].pc = "stream"
                      /\ task[s].pc = "stream" => task'[s].host = task[s].host
  BY <1>2 DEF Alike, IInv, TypeOK
<1>6. slots' \in [Procs -> Nat] /\ SlotInv'
  BY <1>2, <1>5, SlotsKept, SlotsTyped
<1> QED
  BY <1>2, <1>3, <1>4, <1>6, RowStays, CallStep DEF Elsewhere

\* Where a task goes when its call raises or is cancelled.
LEMMA WayOut ==
  ASSUME IInv, NEW r \in Runs, task[r].pc \in TaskSteps \ {"closing"},
         NEW d \in {run[r], Effect(r)},
         NEW t \in {OnError(task[r]), OnCancel(task[r])}
  PROVE  /\ t \in Task /\ TaskOK(t) /\ t.pc \notin {"none", "stream"}
         /\ Alike(task[r], t)
         /\ Exists(r) => Agree(d, t)
<1>1. Exists(r) =>
        /\ Honest(d, task[r])
        /\ run[r] \in Row /\ Agree(run[r], task[r])
  BY Here, RowHonest, EffectHonest
<1>2. task[r] \in Task /\ TaskOK(task[r])
  BY Here
<1>3. Exists(r) /\ task[r].pc \notin {"failEvent", "failStatus"} =>
        "error" \notin task[r].told
  BY <1>1 DEF Agree, ToldOK, Past, TaskSteps, Reads, Writes
<1>4. CASE task[r].pc \in Body
  <2>1. PICK n \in {"failing", "cancelling"} : t = At(task[r], n)
    BY <1>4 DEF OnError, OnCancel
  <2>2. task[r].claimed
    BY <1>2, <1>4 DEF TaskOK, Claimless, Before, Notices, Body
  <2>3. Exists(r) => ~OwnEnd(run[r])
    BY <1>1, <1>4 DEF Agree, Settled, Past, Body
  <2>4. ASSUME Exists(r)
        PROVE  OwnEnd(d) => d.status = "succeeded"
    <3>1. CASE task[r].pc = "slot"
      BY <2>3, <2>4, <3>1, EffectAt DEF Writes
    <3>2. CASE task[r].pc = "stream"
      BY <1>1, <2>3, <2>4, <3>2, EffectAt, LoggedRow DEF EndEvents, OwnEnd
    <3>3. CASE task[r].pc = "reply"
      BY <1>1, <2>3, <2>4, <3>3, EffectAt, SaidRow DEF Replies, OwnEnd
    <3>4. CASE task[r].pc = "succeed"
      BY <1>1, <2>3, <2>4, <3>4, EffectAt, EndedRow DEF Ends, OwnEnd
    <3> QED
      BY <1>4, <3>1, <3>2, <3>3, <3>4 DEF Body
  <2> QED
    BY <1>1, <1>3, <1>4, <2>1, <2>2, <2>4, ToHandler DEF Body
<1>5. CASE task[r].pc = "failMessage" /\ t = OnError(task[r])
  <2>1. /\ t \in Task /\ t.pc = "failShort" /\ Alike(task[r], t)
    BY <1>2, <1>5, AtTask DEF OnError, Body, TaskSteps, Writes
  <2>2. TaskOK(t)
    BY <1>2, <1>5, <2>1 DEF TaskOK, Alike, Claimless, Before, Notices, TaskSteps
  <2>3. ASSUME Exists(r)
        PROVE  d.status = run[r].status /\ d.owned = run[r].owned
    BY <1>1, <1>5, <2>3, EffectAt, SaidRow DEF Replies
  <2>4. ASSUME Exists(r)
        PROVE  ~OwnEnd(run[r]) /\ task[r].claimed
    BY <1>1, <1>2, <1>5, <2>4 DEF Agree, Settled, Past, TaskOK, Claimless, Before,
       Notices
  <2>5. Exists(r) => Agree(d, t)
    BY <1>1, <1>3, <1>5, <2>1, <2>3, <2>4 DEF Agree, Ownership, Settled, OwnEnd,
       Recorded, Asked, ToldOK, Honest, Alike, Before, Notices
  <2> QED
    BY <2>1, <2>2, <2>5
<1>6. CASE /\ task[r].pc \notin Body /\ t = Escape(task[r])
           /\ task[r].claimed
  <2>1. t = At(task[r], "closing")
    BY <1>6 DEF Escape
  <2> QED
    BY <1>1, <1>6, <2>1, ToClosing
<1>7. CASE /\ task[r].pc \notin Body /\ t = Escape(task[r])
           /\ ~task[r].claimed
  <2>1. t = At(task[r], "dead")
    BY <1>7 DEF Escape
  <2>2. task[r].pc \in {"claim", "unclaimed"} \cup Notices
    BY <1>2, <1>7 DEF TaskOK, Claimless, Before, TaskSteps, Reads, Writes
  <2>3. ASSUME Exists(r)
        PROVE  ~OwnEnd(d) /\ "error" \notin task[r].told
    <3>1. ~run[r].owned
      BY <1>1, <1>7, <2>2, <2>3 DEF Agree, Ownership, Before, Notices
    <3>2. CASE task[r].pc = "claim"
      <4>1. CASE Claimable(run[r])
        BY <1>1, <1>3, <2>3, <3>1, <3>2, <4>1, EffectAt, ClaimedRow DEF OwnEnd
      <4>2. CASE ~Claimable(run[r])
        BY <1>1, <1>3, <2>3, <3>1, <3>2, <4>2, EffectAt DEF OwnEnd
      <4> QED
        BY <4>1, <4>2
    <3>3. CASE task[r].pc \in {"unclaimed", "events", "notify"}
      BY <1>3, <2>3, <3>1, <3>3, EffectAt DEF OwnEnd, Writes
    <3>4. CASE task[r].pc = "mark"
      <4>1. PICK e \in EndEvents : Effect(r) = Logged(run[r], e)
        BY <3>4, EffectAt DEF EventOf, EndEvents
      <4> QED
        BY <1>1, <1>3, <2>3, <3>1, <3>4, <4>1, LoggedRow DEF OwnEnd
    <3> QED
      BY <2>2, <3>2, <3>3, <3>4 DEF Notices
  <2> QED
    BY <1>1, <2>1, <2>3, ToDeath
<1> QED
  BY <1>4, <1>5, <1>6, <1>7 DEF OnError, OnCancel

LEMMA ReleaseStep ==
  ASSUME IInv, NEW r \in Runs, NEW t, task' = [task EXCEPT ![r] = t], NEW n,
         t.pc \notin {"none", "stream"}, task[r].pc \in TaskSteps,
         Release(r, n)
  PROVE  slots' \in [Procs -> Nat] /\ SlotInv'
<1>1. CASE task[r].pc = "stream"
  <2>1. task[r].host \in Procs
    BY <1>1, Here DEF TaskOK
  <2> QED
    BY <1>1, <2>1, SlotReturned DEF Release
<1>2. CASE task[r].pc # "stream"
  <2>1. UNCHANGED slots
    BY <1>2 DEF Release
  <2>2. \A s \in Runs : /\ task'[s].pc = "stream" <=> task[s].pc = "stream"
                        /\ task[s].pc = "stream" => task'[s].host = task[s].host
    BY <1>2 DEF IInv, TypeOK
  <2> QED
    BY <2>1, <2>2, SlotsKept, SlotsTyped
<1> QED
  BY <1>1, <1>2

LEMMA MaybeEffectIs ==
  ASSUME IInv, NEW r \in Runs, MaybeEffect(r)
  PROVE  \E d \in {run[r], Effect(r)} :
           run' = IF Exists(r) THEN [run EXCEPT ![r] = d] ELSE run
BY RowStays DEF MaybeEffect

LEMMA RaiseStep ==
  ASSUME IInv, NEW r \in Runs, Raise(r), Elsewhere
  PROVE  IInv'
<1> DEFINE t == OnError(task[r])
<1>1. /\ MaybeEffect(r) /\ task[r].pc \in TaskSteps \ {"closing"}
      /\ task' = [task EXCEPT ![r] = t] /\ Release(r, t.pc)
  BY DEF Raise, MaybeEffect, TaskSteps, Reads, Writes
<1>2. PICK d \in {run[r], Effect(r)} :
        run' = IF Exists(r) THEN [run EXCEPT ![r] = d] ELSE run
  BY <1>1, MaybeEffectIs
<1> HIDE DEF t
<1>3. /\ t \in Task /\ TaskOK(t) /\ t.pc \notin {"none", "stream"}
      /\ Exists(r) => Agree(d, t)
  BY <1>1, WayOut DEF t
<1>4. slots' \in [Procs -> Nat] /\ SlotInv'
  BY <1>1, <1>3, ReleaseStep
<1> QED
  BY <1>1, <1>2, <1>3, <1>4, CallStep DEF Elsewhere

Spared(t) == [t EXCEPT !.kill = FALSE]

LEMMA SparedTask ==
  ASSUME NEW t \in Task
  PROVE  /\ Spared(t) \in Task /\ Alike(t, Spared(t))
         /\ Spared(t).pc = t.pc /\ Spared(t).end = t.end
BY DEF Spared, Task, Alike

LEMMA KilledStep ==
  ASSUME IInv, NEW r \in Runs, Killed(r), Elsewhere
  PROVE  IInv'
<1> DEFINE u == OnCancel(task[r])
<1>1. /\ MaybeEffect(r) /\ task[r].pc \in TaskSteps \ {"closing"}
      /\ task' = [task EXCEPT ![r] = Spared(u)] /\ Release(r, u.pc)
  BY DEF Killed, Spared
<1>2. PICK d \in {run[r], Effect(r)} :
        run' = IF Exists(r) THEN [run EXCEPT ![r] = d] ELSE run
  BY <1>1, MaybeEffectIs
<1> HIDE DEF u
<1>3. /\ u \in Task /\ TaskOK(u) /\ u.pc \notin {"none", "stream"}
      /\ Exists(r) => Agree(d, u)
  BY <1>1, WayOut DEF u
<1>4. PICK t \in Task :
        t = Spared(u) /\ t.pc = u.pc /\ Alike(u, t) /\ t.end = u.end
  BY <1>3, SparedTask
<1>5. TaskOK(t) /\ (Exists(r) => Agree(d, t))
  BY <1>3, <1>4 DEF TaskOK, Alike, Agree, Ownership, Settled, Recorded, Asked, ToldOK
<1>6. slots' \in [Procs -> Nat] /\ SlotInv'
  BY <1>1, <1>3, <1>4, ReleaseStep
<1> QED
  BY <1>1, <1>2, <1>3, <1>4, <1>5, <1>6, CallStep DEF Elsewhere

LEMMA RunStep ==
  ASSUME IInv, NEW r \in Runs, Run(r)
  PROVE  IInv'
<1>1. Elsewhere
  BY DEF Run, Elsewhere
<1> QED
  BY <1>1, ClaimStep, AcquireSlotStep, EndStreamStep, SaveReplyStep, SucceedStep,
     UnclaimedStep, OnCancelledStep, CancelStatusSteps, OnFailureStep,
     SaveFailureStep, RecoverySteps, FailureSteps, ReadEventsStep, LogNoticeStep,
     SaveNoticeStep, CloseStep, RaiseStep, KilledStep, SaveArtifactStep
     DEF Run, Execute

-----------------------------------------------------------------------------
(* The request. *)

\* A request that carries out message m of conversation c begins: m is new, or
\* the one of the latest run, which failed.
Begins(r, c, m) ==
  \/ m = r
  \/ latest[c] # None /\ Has(latest[c], {"failed"}) /\ m = run[latest[c]].request

LEMMA CreateStep ==
  ASSUME IInv, NEW r \in Runs, NEW c \in Conversations, NEW p \in Procs, NEW m,
         Create(r, c, p, m), Begins(r, c, m),
         UNCHANGED <<convs, slots, canc, cancels, crashes>>
  PROVE  IInv'
<1>1. task[r] = NoTask /\ ~Exists(r)
  BY Here DEF Create, TaskOK, Agree, Ownership
<1>2. latest[c] # None => latest[c] \in Runs
  BY DEF IInv, TypeOK
<1>3. m \in Runs
  BY <1>2 DEF Begins, Has, Exists, IInv, TypeOK, Row
<1>4. PICK d \in Row :
        /\ run' = [run EXCEPT ![r] = d]
        /\ d.status = "queued" /\ d.conv = c /\ d.request = m /\ ~d.owned
        /\ ~d.cancel /\ d.log = {} /\ d.said = {}
  <2>1. NewRow(c, m) \in Row
    BY <1>3 DEF NewRow, Row, Active
  <2> QED
    BY <2>1 DEF Create, NewRow
<1>5. PICK t \in Task :
        /\ task' = [task EXCEPT ![r] = t]
        /\ t.pc = "created" /\ t.host = p /\ ~t.claimed /\ t.reason = None
        /\ t.told = {}
  <2>1. [NoTask EXCEPT !.pc = "created", !.host = p] \in Task
    BY DEF NoTask, Task, SetupSteps
  <2>2. task' = [task EXCEPT ![r] = [NoTask EXCEPT !.pc = "created", !.host = p]]
    BY <1>1 DEF Create, IInv, TypeOK
  <2> QED
    BY <2>1, <2>2 DEF NoTask
<1>6. /\ \A s \in Runs : run'[s] = IF s = r THEN d ELSE run[s]
      /\ \A s \in Runs : task'[s] = IF s = r THEN t ELSE task[s]
      /\ \A e \in Conversations : latest'[e] = IF e = c THEN r ELSE latest[e]
  BY <1>4, <1>5 DEF Create, IInv, TypeOK
<1>7. TypeOK'
  <2>1. latest' = [latest EXCEPT ![c] = r]
    BY DEF Create
  <2> QED
    BY <1>4, <1>5, <2>1 DEF IInv, TypeOK
<1>8. RunsInv'
  <2>1. TaskOK(t)
    BY <1>5 DEF TaskOK, Claimless, Before, TaskSteps, Reads, Writes
  <2>2. Agree(d, t)
    BY <1>4, <1>5, NoneAssumption DEF Agree, Ownership, Settled, OwnEnd, Recorded,
       Asked, ToldOK, Before, Notices
  <2> QED
    BY <1>6, <2>1, <2>2 DEF IInv, RunsInv, Exists
<1>9. CancelInv'
  <2> SUFFICES ASSUME NEW q \in Procs
               PROVE  CancelOK(canc[q])'
    BY DEF CancelInv
  <2>1. CancelOK(canc[q]) /\ canc'[q] = canc[q]
    BY DEF IInv, CancelInv
  <2>2. canc[q].pc # "idle" => canc[q].run \in Runs \ {r}
    BY <1>1, <2>1 DEF CancelOK, NoTask
  <2> QED
    BY <1>6, <2>1, <2>2 DEF CancelOK, Exists
<1>10. SlotInv'
  <2>1. \A s \in Runs : /\ task'[s].pc = "stream" <=> task[s].pc = "stream"
                        /\ task[s].pc = "stream" => task'[s].host = task[s].host
    BY <1>1, <1>5, <1>6 DEF NoTask
  <2> QED
    BY <2>1, SlotsKept
<1>11. \A s \in Runs : Exists(s) =>
         /\ run[s].request \in Runs /\ run[s].conv \in Conversations
         /\ task[run[s].request].pc # "none" /\ run[s].request # r
         /\ latest[run[s].conv] \in Runs /\ Exists(latest[run[s].conv])
         /\ s # r
  BY <1>1 DEF IInv, RequestInv, TypeOK, Row, Exists, NoTask
<1>12. d # None
  BY NoneAssumption
<1>13. ASSUME NEW s \in Runs, run'[s] # None
       PROVE  /\ task'[run'[s].request].pc # "none"
              /\ latest'[run'[s].conv] \in Runs
              /\ run'[latest'[run'[s].conv]] # None
  <2>1. CASE s = r
    <3>1. m # r => m \in Runs /\ task[m].pc # "none"
      BY <1>2, <1>11 DEF Begins, Has
    <3> QED
      BY <1>3, <1>4, <1>5, <1>6, <1>12, <2>1, <3>1
  <2>2. CASE s # r
    BY <1>5, <1>6, <1>11, <1>12, <1>13, <2>2 DEF Exists
  <2> QED
    BY <2>1, <2>2
<1>14. ASSUME NEW e \in Conversations, latest'[e] # None
       PROVE  /\ latest'[e] \in Runs /\ run'[latest'[e]] # None
              /\ run'[latest'[e]].conv = e
  BY <1>1, <1>4, <1>6, <1>12, <1>14 DEF IInv, RequestInv, Exists
<1>15. ASSUME NEW s \in Runs, NEW u \in Runs, s # u, run'[s] # None, run'[u] # None,
              run'[s].request = run'[u].request
       PROVE  /\ run'[s].conv = run'[u].conv
              /\ Dropped(run'[s]) \/ Dropped(run'[u])
              /\ u = latest'[run'[s].conv] => Dropped(run'[s])
  <2>1. ASSUME NEW v \in Runs, v # r, run[v] # None, run[v].request = m
        PROVE  run[v].conv = c /\ Dropped(run[v])
    <3>1. /\ latest[c] \in Runs /\ Has(latest[c], {"failed"})
          /\ m = run[latest[c]].request
      BY <1>2, <1>11, <2>1 DEF Begins, Exists
    <3>2. run[latest[c]].conv = c
      BY <3>1, ConstantsAssumption DEF IInv, RequestInv, Has
    <3>3. CASE v = latest[c]
      BY <3>1, <3>2, <3>3 DEF Has, Dropped
    <3>4. CASE v # latest[c]
      BY <2>1, <3>1, <3>2, <3>4 DEF IInv, RequestInv, Has, Exists
    <3> QED
      BY <3>3, <3>4
  <2>2. CASE s = r
    BY <1>4, <1>6, <1>15, <2>1, <2>2
  <2>3. CASE u = r
    BY <1>4, <1>6, <1>15, <2>1, <2>3
  <2>4. CASE s # r /\ u # r
    <3>1. run[s].conv = run[u].conv /\ (Dropped(run[s]) \/ Dropped(run[u]))
      BY <1>6, <1>15, <2>4 DEF IInv, RequestInv, Exists
    <3>2. u = latest'[run[s].conv] => u = latest[run[s].conv]
      BY <1>6, <1>11, <1>15, <2>4 DEF Exists
    <3>3. u = latest[run[s].conv] => Dropped(run[s])
      BY <1>6, <1>15, <2>4 DEF IInv, RequestInv, Exists
    <3> QED
      BY <1>6, <2>4, <3>1, <3>2, <3>3
  <2> QED
    BY <2>2, <2>3, <2>4
<1>16. RequestInv'
  BY <1>13, <1>14, <1>15 DEF RequestInv, Exists, Dropped
<1> QED
  BY <1>7, <1>8, <1>9, <1>10, <1>16 DEF IInv

\* The request handler changes its task; the row stays or fails.
LEMMA SetupStep ==
  ASSUME IInv, NEW r \in Runs, NEW t \in Task, TaskOK(t),
         t.pc \notin {"none", "stream"}, task[r].pc \in SetupSteps,
         task' = [task EXCEPT ![r] = t],
         NEW d, run' = IF Exists(r) THEN [run EXCEPT ![r] = d] ELSE run,
         Exists(r) => d \in {run[r], Ended(run[r], "failed")} /\ Agree(d, t),
         UNCHANGED <<convs, latest, slots, canc, cancels, crashes>>
  PROVE  IInv'
<1>1. Exists(r) => ~OwnEnd(run[r])
  BY Here DEF Agree, Ownership, OwnEnd, Before, SetupSteps
<1>2. Exists(r) => d \in Row /\ Goes(run[r], d)
  BY <1>1, Here, EndedRow, GoesStays DEF Goes, Dropped, Active, Ends
<1>3. \A s \in Runs : /\ task'[s].pc = "stream" <=> task[s].pc = "stream"
                      /\ task[s].pc = "stream" => task'[s].host = task[s].host
  BY DEF IInv, TypeOK, SetupSteps
<1>4. SlotInv' /\ slots' \in [Procs -> Nat]
  BY <1>3, SlotsKept, SlotsTyped
<1> QED
  BY <1>2, <1>4, RunPut DEF IInv

Set(t, pc, active) == [t EXCEPT !.pc = pc, !.active = active]
Attached(t, pc) == [t EXCEPT !.pc = pc, !.stream = "open"]
Broken(t) == [t EXCEPT !.pc = "broken"]

LEMMA SetupTask ==
  ASSUME NEW t \in Task, NEW a \in BOOLEAN,
         NEW n \in {"setup", "claim", "dead", "refused", "broken"}
  PROVE  /\ Set(t, n, a) \in Task /\ Set(t, n, a).pc = n
         /\ Alike(t, Set(t, n, a))
BY DEF Set, Alike, Task, SetupSteps, TaskSteps, Reads, Over

LEMMA AttachedTask ==
  ASSUME NEW t \in Task, NEW n \in {"claim", "dead"}
  PROVE  /\ Attached(t, n) \in Task /\ Attached(t, n).pc = n
         /\ Alike(t, Attached(t, n))
BY DEF Attached, Alike, Task, TaskSteps, Reads, Over

LEMMA BrokenTask ==
  ASSUME NEW t \in Task
  PROVE  Broken(t) \in Task /\ Broken(t).pc = "broken" /\ Alike(t, Broken(t))
BY DEF Broken, Alike, Task, Over

\* The row may fail before anybody claims it, and the task may end.
LEMMA SetupAgrees ==
  ASSUME IInv, NEW r \in Runs, task[r].pc \in SetupSteps,
         NEW t, Alike(task[r], t),
         t.pc \in {"setup", "claim", "dead", "refused", "broken"},
         NEW d, Exists(r) => d \in {run[r], Ended(run[r], "failed")}
  PROVE  TaskOK(t) /\ (Exists(r) => Agree(d, t))
<1>1. TaskOK(t)
  BY Here DEF TaskOK, Alike, Claimless, Before, SetupSteps, TaskSteps, Reads, Writes
<1>2. ASSUME Exists(r)
      PROVE  Agree(d, t)
  <2>1. ~run[r].owned /\ "error" \notin task[r].told /\ "finished" \notin task[r].told
    BY <1>2, Here DEF Agree, Ownership, ToldOK, Before, SetupSteps, Past
  <2>2. CASE d = run[r]
    BY <1>2, <2>1, <2>2, Here DEF Agree, Ownership, Settled, OwnEnd, Recorded, Asked,
       ToldOK, Alike, Before, Notices, SetupSteps
  <2>3. CASE d = Ended(run[r], "failed")
    BY <1>2, <2>1, <2>3, Here, EndedRow DEF Agree, Ownership, Settled, OwnEnd,
       Recorded, Asked, ToldOK, Alike, Before, Notices, SetupSteps, Ends, Active
  <2> QED
    BY <1>2, <2>2, <2>3
<1> QED
  BY <1>1, <1>2

LEMMA RequestStep ==
  ASSUME IInv, NEW r \in Runs, Request(r)
  PROVE  IInv'
<1> UNCHANGED <<convs, slots, canc, cancels, crashes>>
  BY DEF Request
<1>1. CASE \E c \in Conversations, p \in Procs : Send(r, c, p) \/ Retry(r, c, p)
  <2>1. PICK c \in Conversations, p \in Procs :
          \E m : Create(r, c, p, m) /\ Begins(r, c, m)
    BY <1>1 DEF Send, Retry, Retryable, Begins
  <2> QED
    BY <2>1, CreateStep
<1>2. CASE Begin(r)
  <2>1. PICK t \in Task :
          /\ t.pc = "setup" /\ Alike(task[r], t)
          /\ task' = [task EXCEPT ![r] = t]
    <3>1. task' = [task EXCEPT ![r] = Set(task[r], "setup", TRUE)]
      BY <1>2 DEF Begin, Set, IInv, TypeOK
    <3> QED
      BY <3>1, Here, SetupTask
  <2>2. task[r].pc \in SetupSteps /\ UNCHANGED <<run, latest>>
    BY <1>2 DEF Begin, SetupSteps
  <2>3. TaskOK(t) /\ (Exists(r) => Agree(run[r], t))
    BY <2>1, <2>2, SetupAgrees
  <2> QED
    BY <2>1, <2>2, <2>3, SetupStep, RowStays
<1>3. CASE SetupFails(r)
  <2>1. PICK t \in Task :
          /\ t.pc = "refused" /\ Alike(task[r], t)
          /\ task' = [task EXCEPT ![r] = t]
    <3>1. task' = [task EXCEPT ![r] = Set(task[r], "refused", FALSE)]
      BY <1>3 DEF SetupFails, Set, IInv, TypeOK
    <3> QED
      BY <3>1, Here, SetupTask
  <2>2. /\ task[r].pc \in SetupSteps /\ Exists(r) /\ UNCHANGED latest
        /\ run' = [run EXCEPT ![r] = Ended(run[r], "failed")]
    BY <1>3 DEF SetupFails, SetupSteps
  <2>3. TaskOK(t) /\ Agree(Ended(run[r], "failed"), t)
    BY <2>1, <2>2, SetupAgrees
  <2> QED
    BY <2>1, <2>2, <2>3, SetupStep
<1>4. CASE SetupBreaks(r)
  <2>1. PICK t \in Task :
          /\ t.pc = "broken" /\ Alike(task[r], t)
          /\ task' = [task EXCEPT ![r] = t]
    <3>1. task' = [task EXCEPT ![r] = Broken(task[r])]
      BY <1>4 DEF SetupBreaks, Broken, IInv, TypeOK
    <3> QED
      BY <3>1, Here, BrokenTask
  <2>2. PICK d : /\ Exists(r) => d \in {run[r], Ended(run[r], "failed")}
                 /\ run' = IF Exists(r) THEN [run EXCEPT ![r] = d] ELSE run
    BY <1>4, RowStays DEF SetupBreaks
  <2>3. task[r].pc \in SetupSteps /\ UNCHANGED latest
    BY <1>4 DEF SetupBreaks
  <2>4. TaskOK(t) /\ (Exists(r) => Agree(d, t))
    BY <2>1, <2>2, <2>3, SetupAgrees
  <2> QED
    BY <2>1, <2>2, <2>3, <2>4, SetupStep
<1>5. CASE Attach(r)
  <2>1. PICK t \in Task :
          /\ t.pc \in {"claim", "dead"} /\ Alike(task[r], t)
          /\ task' = [task EXCEPT ![r] = t]
    <3>1. PICK n \in {"claim", "dead"} : task' = [task EXCEPT ![r] = Attached(task[r], n)]
      BY <1>5 DEF Attach, Attached, IInv, TypeOK
    <3>2. /\ Attached(task[r], n) \in Task /\ Attached(task[r], n).pc = n
          /\ Alike(task[r], Attached(task[r], n))
      BY Here, AttachedTask
    <3> QED
      BY <3>1, <3>2
  <2>2. task[r].pc \in SetupSteps /\ UNCHANGED <<run, latest>>
    BY <1>5 DEF Attach, SetupSteps
  <2>3. TaskOK(t) /\ (Exists(r) => Agree(run[r], t))
    BY <2>1, <2>2, SetupAgrees
  <2> QED
    BY <2>1, <2>2, <2>3, SetupStep, RowStays
<1> QED
  BY <1>1, <1>2, <1>3, <1>4, <1>5 DEF Request

-----------------------------------------------------------------------------
(* The watchdog and the cancel endpoint. *)

\* A handle was told to cancel, or not.
Signalled(t, u) ==
  /\ u.pc = t.pc /\ u.host = t.host /\ u.claimed = t.claimed /\ u.end = t.end
  /\ u.told = t.told /\ u.reason \in {t.reason, "user", "lease_lost"}

LEMMA HandleTask ==
  ASSUME NEW t \in Task, NEW reason \in {"user", "lease_lost"}
  PROVE  /\ CancelHandle(t, reason) \in Task
         /\ Signalled(t, CancelHandle(t, reason))
         /\ CancelHandle(t, reason).reason \in {t.reason, reason}
<1> DEFINE k == t.pc \in TaskSteps
           u == [t EXCEPT !.reason = reason, !.kill = k]
<1>1. k \in BOOLEAN
  OBVIOUS
<1> HIDE DEF k
<1>2. u \in Task /\ Signalled(t, u) /\ u.reason = reason
  BY <1>1 DEF Task, Signalled
<1> HIDE DEF u
<1>3. CASE t.active
  BY <1>2, <1>3 DEF CancelHandle, k, u
<1>4. CASE ~t.active
  BY <1>4 DEF CancelHandle, Signalled
<1> QED
  BY <1>3, <1>4

Unwatched(t) == [t EXCEPT !.watch = FALSE]

LEMMA UnwatchedTask ==
  ASSUME NEW t \in Task
  PROVE  /\ Unwatched(t) \in Task /\ Alike(t, Unwatched(t))
         /\ Unwatched(t).pc = t.pc /\ Unwatched(t).end = t.end
BY DEF Task, Unwatched, Alike

\* A signalled run agrees with its row if the row knows of the owner's wish.
LEMMA SignalAgrees ==
  ASSUME IInv, NEW r \in Runs, task[r].pc # "none", NEW t, Signalled(task[r], t),
         Exists(r) /\ t.reason = "user" =>
           \/ task[r].reason = "user"
           \/ run[r].cancel \/ run[r].status \notin Active
  PROVE  TaskOK(t) /\ (Exists(r) => Agree(run[r], t))
BY Here DEF TaskOK, Signalled, Agree, Ownership, Settled, Recorded, Asked, ToldOK

LEMMA SignalPut ==
  ASSUME IInv, NEW r \in Runs, task[r].pc # "none", NEW t \in Task,
         Signalled(task[r], t), task' = [task EXCEPT ![r] = t],
         Exists(r) /\ t.reason = "user" =>
           \/ task[r].reason = "user"
           \/ run[r].cancel \/ run[r].status \notin Active,
         UNCHANGED <<run, latest, slots>>
  PROVE  /\ task' \in [Runs -> Task] /\ RowsGo
         /\ \A s \in Runs : task[s].pc # "none" => task'[s].pc # "none"
         /\ RunsInv' /\ RequestInv' /\ SlotInv'
<1>1. TaskOK(t) /\ (Exists(r) => Agree(run[r], t))
  BY SignalAgrees
<1>2. /\ task' \in [Runs -> Task]
      /\ \A s \in Runs : task'[s] = IF s = r THEN t ELSE task[s]
  BY DEF IInv, TypeOK
<1>3. \A s \in Runs : /\ task'[s].pc = "stream" <=> task[s].pc = "stream"
                      /\ task[s].pc = "stream" => task'[s].host = task[s].host
                      /\ task[s].pc # "none" => task'[s].pc # "none"
  BY <1>2 DEF Signalled
<1>4. RunsInv'
  BY <1>1, <1>2 DEF IInv, RunsInv, Exists
<1>5. RowsGo
  BY GoesStays DEF RowsGo, IInv, TypeOK
<1> QED
  BY <1>2, <1>3, <1>4, <1>5, SlotsKept, RequestsKept

LEMMA SignalStep ==
  ASSUME IInv, NEW r \in Runs, task[r].pc # "none", NEW t \in Task,
         Signalled(task[r], t), task' = [task EXCEPT ![r] = t],
         Exists(r) /\ t.reason = "user" =>
           \/ task[r].reason = "user"
           \/ run[r].cancel \/ run[r].status \notin Active,
         UNCHANGED <<run, convs, latest, slots, canc, cancels, crashes>>
  PROVE  IInv'
<1>1. /\ task' \in [Runs -> Task] /\ RowsGo
      /\ \A s \in Runs : task[s].pc # "none" => task'[s].pc # "none"
      /\ RunsInv' /\ RequestInv' /\ SlotInv'
  BY SignalPut
<1>2. CancelInv'
  BY <1>1, CancelsKept
<1> QED
  BY <1>1, <1>2 DEF IInv, TypeOK

LEMMA WatchdogStep ==
  ASSUME IInv, NEW r \in Runs, Watchdog(r)
  PROVE  IInv'
<1>1. UNCHANGED <<run, convs, latest, slots, canc, cancels, crashes>>
  BY DEF Watchdog
<1>2. task[r].watch /\ task[r].pc # "none"
  BY Here DEF Watchdog, WatchdogSees, TaskOK, NoTask
<1>3. PICK reason \in {"user", "lease_lost"} :
        /\ reason = "user" => Has(r, {"running"}) /\ run[r].cancel
        /\ task' = [task EXCEPT ![r] = Unwatched(CancelHandle(task[r], reason))]
  BY DEF Watchdog, WatchdogSees, Unwatched
<1>4. PICK t \in Task :
        /\ t = CancelHandle(task[r], reason) /\ Signalled(task[r], t)
        /\ t.reason \in {task[r].reason, reason}
  BY Here, HandleTask
<1>5. PICK u \in Task :
        /\ u = Unwatched(t) /\ Signalled(task[r], u)
        /\ u.reason \in {task[r].reason, reason}
  BY <1>4, UnwatchedTask DEF Signalled, Alike
<1> QED
  BY <1>1, <1>2, <1>3, <1>4, <1>5, SignalStep

Pressed(d) == [d EXCEPT !.cancel = TRUE]
Aged(d) == [d EXCEPT !.stale = TRUE]

LEMMA PressedRow ==
  ASSUME NEW d \in Row
  PROVE  /\ Pressed(d) \in Row /\ Pressed(d).cancel
         /\ Pressed(d).status = d.status /\ Pressed(d).conv = d.conv
         /\ Pressed(d).request = d.request /\ Pressed(d).owned = d.owned
         /\ Pressed(d).log = d.log /\ Pressed(d).said = d.said
BY DEF Row, Pressed

LEMMA AgedRow ==
  ASSUME NEW d \in Row
  PROVE  /\ Aged(d) \in Row /\ Aged(d).cancel = d.cancel
         /\ Aged(d).status = d.status /\ Aged(d).conv = d.conv
         /\ Aged(d).request = d.request /\ Aged(d).owned = d.owned
         /\ Aged(d).log = d.log /\ Aged(d).said = d.said
BY DEF Row, Aged

\* A row is written by somebody else than its task.
LEMMA RowPut ==
  ASSUME IInv, NEW r \in Runs, Exists(r), NEW d \in Row,
         run' = [run EXCEPT ![r] = d], Goes(run[r], d), Agree(d, task[r]),
         UNCHANGED <<convs, latest, task, slots>>
  PROVE  /\ run' \in [Runs -> Row \cup {None}] /\ RowsGo
         /\ RunsInv' /\ RequestInv' /\ SlotInv'
<1>1. /\ run' \in [Runs -> Row \cup {None}]
      /\ \A s \in Runs : run'[s] = IF s = r THEN d ELSE run[s]
      /\ run[r] # None /\ d # None
  BY NoneAssumption DEF IInv, TypeOK, Exists
<1>2. RowsGo
  BY <1>1, Here, GoesStays DEF RowsGo, Exists
<1>3. RunsInv'
  BY <1>1 DEF IInv, RunsInv, Exists
<1>4. RequestInv'
  BY <1>2, RequestsKept
<1>5. SlotInv'
  BY SlotsKept
<1> QED
  BY <1>1, <1>2, <1>3, <1>4, <1>5

\* The cancel endpoint of a process goes on as k.
LEMMA CancelPut ==
  ASSUME IInv, RowsGo, NEW p \in Procs, NEW k, CancelOK(k)',
         canc' = [canc EXCEPT ![p] = k],
         \A s \in Runs : task[s].pc # "none" => task'[s].pc # "none"
  PROVE  CancelInv'
<1> SUFFICES ASSUME NEW q \in Procs
             PROVE  CancelOK(canc[q])'
  BY DEF CancelInv
<1>1. CancelOK(canc[q])
  BY DEF IInv, CancelInv
<1>2. CASE q = p
  BY <1>2 DEF CancelOK, IInv, TypeOK, Exists
<1>3. CASE q # p
  <2>1. canc'[q] = canc[q]
    BY <1>3 DEF IInv, TypeOK
  <2> QED
    BY <1>1, <2>1 DEF CancelOK, RowsGo, Exists, Goes
<1> QED
  BY <1>2, <1>3

LEMMA NoRowGoes ==
  ASSUME IInv, UNCHANGED run
  PROVE  RowsGo
BY GoesStays DEF RowsGo, IInv, TypeOK

LEMMA IdleOK == CancelOK(Idle)' /\ Idle \in Canceller
BY DEF CancelOK, Idle, Canceller

LEMMA CancelHere ==
  ASSUME IInv, NEW p \in Procs
  PROVE  canc[p] \in Canceller /\ CancelOK(canc[p])
BY DEF IInv, TypeOK, CancelInv

LEMMA CancelReadsStep ==
  ASSUME IInv, NEW p \in Procs, NEW r \in Runs, CancelReads(p, r),
         UNCHANGED <<convs, latest, slots, crashes>>
  PROVE  IInv'
<1> DEFINE k == [pc |-> "request", run |-> r, queued |-> FALSE]
<1>1. UNCHANGED <<run, task>> /\ Has(r, Active) /\ canc' = [canc EXCEPT ![p] = k]
  BY DEF CancelReads
<1>2. k \in Canceller
  BY DEF Canceller
<1>6. TypeOK'
  <2>1. cancels' \in 0..MaxCancels
    BY ConstantsAssumption DEF CancelReads, IInv, TypeOK
  <2> HIDE DEF k
  <2> QED
    BY <1>1, <1>2, <2>1 DEF IInv, TypeOK
<1>3. CancelOK(k)'
  BY <1>1, Here DEF CancelOK, Has, Agree, Ownership
<1>4. CancelInv'
  BY <1>1, <1>3, NoRowGoes, CancelPut
<1>5. RunsInv' /\ RequestInv' /\ SlotInv'
  BY <1>1, NoRowGoes, RequestsKept, SlotsKept DEF IInv, RunsInv, Exists
<1> QED
  BY <1>4, <1>5, <1>6 DEF IInv

LEMMA CancelRequestsStep ==
  ASSUME IInv, NEW p \in Procs, CancelRequests(p),
         UNCHANGED <<convs, latest, slots, crashes>>
  PROVE  IInv'
<1> DEFINE r == canc[p].run
<1>1. /\ r \in Runs /\ task[r].pc # "none" /\ UNCHANGED <<cancels, task>>
      /\ canc[p].pc = "request"
  BY CancelHere DEF CancelRequests, CancelOK
<1> HIDE DEF r
<1>2. PICK k \in Canceller :
        /\ canc' = [canc EXCEPT ![p] = k]
        /\ Exists(r) => /\ k.pc = "signal" /\ k.run = r
                        /\ k.queued = (run[r].status = "queued")
        /\ ~Exists(r) => k = Idle
  <2>1. CASE Exists(r)
    <3> DEFINE q == run[r].status = "queued"
    <3>1. q \in BOOLEAN
      OBVIOUS
    <3>2. canc' = [canc EXCEPT ![p] = [pc |-> "signal", run |-> r, queued |-> q]]
      BY <2>1 DEF CancelRequests, r
    <3> HIDE DEF q
    <3> QED
      BY <1>1, <2>1, <3>1, <3>2 DEF Canceller, q
  <2>2. CASE ~Exists(r)
    BY <2>2, IdleOK DEF CancelRequests, r
  <2> QED
    BY <2>1, <2>2
<1>3. canc' \in [Procs -> Canceller]
  BY <1>2 DEF IInv, TypeOK
<1>4. CASE Has(r, Active)
  <2>1. run' = [run EXCEPT ![r] = Pressed(run[r])]
    BY <1>4 DEF CancelRequests, Pressed, r
  <2>2. run[r] \in Row /\ Agree(run[r], task[r]) /\ Exists(r)
    BY <1>1, <1>4, Here DEF Has
  <2>3. PICK d \in Row :
          /\ run' = [run EXCEPT ![r] = d] /\ d.cancel
          /\ d.status = run[r].status /\ d.conv = run[r].conv
          /\ d.request = run[r].request /\ d.owned = run[r].owned
          /\ d.log = run[r].log /\ d.said = run[r].said
    BY <2>1, <2>2, PressedRow
  <2>4. Agree(d, task[r])
    BY <2>2, <2>3 DEF Agree, Ownership, Settled, OwnEnd, Recorded, Asked, ToldOK
  <2>5. Goes(run[r], d)
    BY <2>2, <2>3 DEF Goes, Dropped, OwnEnd
  <2>6. /\ run' \in [Runs -> Row \cup {None}] /\ RowsGo
        /\ RunsInv' /\ RequestInv' /\ SlotInv'
    BY <1>1, <2>2, <2>3, <2>4, <2>5, RowPut
  <2>7. CancelOK(k)'
    <3>1. run'[r] = d
      BY <1>1, <2>3 DEF IInv, TypeOK
    <3>2. k.queued => ~d.owned
      BY <1>2, <2>2, <2>3 DEF Agree, Ownership
    <3> QED
      BY <1>1, <1>2, <2>2, <2>3, <3>1, <3>2 DEF CancelOK, Exists
  <2>8. CancelInv'
    BY <1>1, <1>2, <2>6, <2>7, CancelPut
  <2> QED
    BY <1>1, <1>3, <2>6, <2>8 DEF IInv, TypeOK
<1>5. CASE ~Has(r, Active)
  <2>1. UNCHANGED run
    BY <1>5 DEF CancelRequests, r
  <2>2. CancelOK(k)'
    BY <1>1, <1>2, <1>5, <2>1, IdleOK DEF CancelOK, Exists, Has, Active
  <2>3. CancelInv'
    BY <1>1, <1>2, <2>1, <2>2, NoRowGoes, CancelPut
  <2>4. RunsInv' /\ RequestInv' /\ SlotInv'
    BY <1>1, <2>1, NoRowGoes, RequestsKept, SlotsKept DEF IInv, RunsInv, Exists
  <2> QED
    BY <1>1, <1>3, <2>1, <2>3, <2>4 DEF IInv, TypeOK
<1> QED
  BY <1>4, <1>5

\* The endpoint stands elsewhere with what it knows.
Moved(k, pc) == [k EXCEPT !.pc = pc]

LEMMA MovedCanceller ==
  ASSUME NEW k \in Canceller, NEW pc \in {"end", "event"}
  PROVE  /\ Moved(k, pc) \in Canceller /\ Moved(k, pc).pc = pc
         /\ Moved(k, pc).run = k.run /\ Moved(k, pc).queued = k.queued
BY DEF Moved, Canceller

LEMMA CancelSignalsStep ==
  ASSUME IInv, NEW p \in Procs, CancelSignals(p),
         UNCHANGED <<convs, latest, slots, crashes>>
  PROVE  IInv'
<1> DEFINE r == canc[p].run
<1>1. /\ r \in Runs /\ task[r].pc # "none" /\ UNCHANGED <<run, cancels>>
      /\ canc[p].pc = "signal" /\ CancelOK(canc[p]) /\ canc[p] \in Canceller
  BY CancelHere DEF CancelSignals, CancelOK
<1>2. Exists(r) => run[r].cancel \/ run[r].status \notin Active
  BY <1>1 DEF CancelOK
<1>3. PICK t \in Task :
        /\ Signalled(task[r], t) /\ t.reason \in {task[r].reason, "user"}
        /\ task' = [task EXCEPT ![r] = t]
  <2> HIDE DEF r
  <2>1. CASE task[r].host = p
    BY <1>1, <2>1, Here, HandleTask DEF CancelSignals, r
  <2>2. CASE task[r].host # p
    BY <1>1, <2>2, Here DEF CancelSignals, Signalled, r, IInv, TypeOK
  <2> QED
    BY <2>1, <2>2
<1>4. PICK k \in Canceller :
        /\ canc' = [canc EXCEPT ![p] = k]
        /\ \/ k = Idle
           \/ k.pc = "end" /\ k.run = r /\ k.queued /\ canc[p].queued
  <2>1. CASE canc[p].queued
    <3>1. canc' = [canc EXCEPT ![p] = Moved(canc[p], "end")]
      BY <2>1 DEF CancelSignals, Moved
    <3> QED
      BY <1>1, <2>1, <3>1, MovedCanceller
  <2>2. CASE ~canc[p].queued
    BY <2>2, IdleOK DEF CancelSignals
  <2> QED
    BY <2>1, <2>2
<1> HIDE DEF r
<1>5. /\ task' \in [Runs -> Task] /\ RowsGo
      /\ \A s \in Runs : task[s].pc # "none" => task'[s].pc # "none"
      /\ RunsInv' /\ RequestInv' /\ SlotInv'
  BY <1>1, <1>2, <1>3, SignalPut
<1>6. CancelOK(k)'
  <2>1. CASE k = Idle
    BY <2>1, IdleOK DEF CancelOK, Exists
  <2>2. CASE k.pc = "end" /\ k.run = r /\ k.queued /\ canc[p].queued
    <3>1. Exists(r) => run[r].cancel /\ ~run[r].owned
      BY <1>1, <2>2 DEF CancelOK, r
    <3> QED
      BY <1>1, <1>5, <2>2, <3>1 DEF CancelOK, Exists
  <2> QED
    BY <1>4, <2>1, <2>2
<1>7. CancelInv'
  BY <1>4, <1>5, <1>6, CancelPut
<1>8. canc' \in [Procs -> Canceller]
  BY <1>4 DEF IInv, TypeOK
<1> QED
  BY <1>1, <1>5, <1>7, <1>8 DEF IInv, TypeOK

LEMMA CancelEndsStep ==
  ASSUME IInv, NEW p \in Procs, CancelEnds(p),
         UNCHANGED <<convs, latest, slots, crashes>>
  PROVE  IInv'
<1> DEFINE r == canc[p].run
<1>1. /\ r \in Runs /\ task[r].pc # "none" /\ UNCHANGED <<task, cancels>>
      /\ canc[p].pc = "end" /\ canc[p].queued /\ canc[p] \in Canceller
      /\ Exists(r) => run[r].cancel /\ ~run[r].owned
  BY CancelHere DEF CancelEnds, CancelOK
<1>2. CASE Exists(r)
  <2>1. PICK k \in Canceller :
          canc' = [canc EXCEPT ![p] = k] /\ k.pc = "event" /\ k.run = r /\ k.queued
    <3>1. canc' = [canc EXCEPT ![p] = Moved(canc[p], "event")]
      BY <1>2 DEF CancelEnds, Moved
    <3> QED
      BY <1>1, <3>1, MovedCanceller
  <2> HIDE DEF r
  <2>2. run[r] \in Row /\ Agree(run[r], task[r])
    BY <1>1, <1>2, Here
  <2>3. PICK d \in Row :
          /\ run' = [run EXCEPT ![r] = d]
          /\ d.status = "cancelled" /\ d.conv = run[r].conv
          /\ d.request = run[r].request /\ d.owned = run[r].owned
          /\ d.cancel = run[r].cancel
          /\ d.log = run[r].log /\ d.said = run[r].said
    <3>1. run' = [run EXCEPT ![r] = Ended(run[r], "cancelled")]
      BY <1>2 DEF CancelEnds, r
    <3> QED
      BY <2>2, <3>1, EndedRow DEF Ends
  <2>4. Goes(run[r], d)
    BY <1>1, <1>2, <2>2, <2>3 DEF Goes, Dropped, OwnEnd, Active
  <2>5. Agree(d, task[r])
    BY <1>1, <1>2, <2>2, <2>3 DEF Agree, Ownership, Settled, OwnEnd, Recorded, Asked, ToldOK,
       Before, Active
  <2>6. /\ run' \in [Runs -> Row \cup {None}] /\ RowsGo
        /\ RunsInv' /\ RequestInv' /\ SlotInv'
    BY <1>1, <1>2, <2>3, <2>4, <2>5, RowPut
  <2>7. CancelOK(k)'
    <3>1. run'[r] = d
      BY <1>1, <2>3 DEF IInv, TypeOK
    <3> QED
      BY <1>1, <1>2, <2>1, <2>3, <3>1 DEF CancelOK, Exists
  <2>8. CancelInv'
    BY <1>1, <2>1, <2>6, <2>7, CancelPut
  <2>9. canc' \in [Procs -> Canceller]
    BY <2>1 DEF IInv, TypeOK
  <2> QED
    BY <1>1, <2>6, <2>8, <2>9 DEF IInv, TypeOK
<1>3. CASE ~Exists(r)
  <2>1. UNCHANGED run /\ canc' = [canc EXCEPT ![p] = Idle]
    BY <1>3 DEF CancelEnds
  <2>2. RunsInv' /\ RequestInv' /\ SlotInv' /\ RowsGo
    BY <1>1, <2>1, NoRowGoes, RequestsKept, SlotsKept DEF IInv, RunsInv, Exists
  <2>3. CancelInv' /\ canc' \in [Procs -> Canceller]
    BY <1>1, <2>1, <2>2, IdleOK, CancelPut DEF IInv, TypeOK
  <2> QED
    BY <1>1, <2>1, <2>2, <2>3 DEF IInv, TypeOK
<1> QED
  BY <1>2, <1>3

LEMMA CancelLogsStep ==
  ASSUME IInv, NEW p \in Procs, CancelLogs(p) \/ CancelBreaks(p),
         UNCHANGED <<convs, latest, slots, crashes>>
  PROVE  IInv'
<1> DEFINE r == canc[p].run
<1>1. UNCHANGED <<task, cancels>> /\ canc' = [canc EXCEPT ![p] = Idle]
  BY DEF CancelLogs, CancelBreaks
<1>2. /\ run' \in [Runs -> Row \cup {None}] /\ RowsGo
      /\ RunsInv' /\ RequestInv' /\ SlotInv'
  <2>1. CASE CancelLogs(p) /\ Exists(r)
    <3>1. r \in Runs /\ run' = [run EXCEPT ![r] = Logged(run[r], "RUN_CANCELLED")]
      BY <2>1, CancelHere DEF CancelLogs, CancelOK
    <3> HIDE DEF r
    <3>2. run[r] \in Row /\ Agree(run[r], task[r])
      BY <2>1, <3>1, Here
    <3>3. PICK d \in Row :
            /\ run' = [run EXCEPT ![r] = d]
            /\ d.status = run[r].status /\ d.conv = run[r].conv
            /\ d.request = run[r].request /\ d.owned = run[r].owned
            /\ d.cancel = run[r].cancel
            /\ d.log = run[r].log \cup {"RUN_CANCELLED"} /\ d.said = run[r].said
      BY <3>1, <3>2, LoggedRow DEF EndEvents
    <3>4. Goes(run[r], d)
      BY <3>3 DEF Goes, Dropped, OwnEnd
    <3>5. Agree(d, task[r])
      BY <3>2, <3>3 DEF Agree, Ownership, Settled, OwnEnd, Recorded, Asked, ToldOK
    <3> QED
      BY <1>1, <2>1, <3>1, <3>3, <3>4, <3>5, RowPut
  <2>2. CASE ~(CancelLogs(p) /\ Exists(r))
    <3>1. UNCHANGED run
      BY <2>2 DEF CancelLogs, CancelBreaks
    <3> QED
      BY <1>1, <3>1, NoRowGoes, RequestsKept, SlotsKept DEF IInv, RunsInv, Exists, TypeOK
  <2> QED
    BY <2>1, <2>2
<1>3. CancelInv' /\ canc' \in [Procs -> Canceller]
  BY <1>1, <1>2, IdleOK, CancelPut DEF IInv, TypeOK
<1> QED
  BY <1>1, <1>2, <1>3 DEF IInv, TypeOK

LEMMA CancelStep ==
  ASSUME IInv, NEW p \in Procs, Cancel(p)
  PROVE  IInv'
BY CancelReadsStep, CancelRequestsStep, CancelSignalsStep, CancelEndsStep, CancelLogsStep
   DEF Cancel, AnswerCancel

-----------------------------------------------------------------------------
(* Time, the sweep, deletion and crashes. *)

LEMMA LeaseLapsesStep ==
  ASSUME IInv, NEW r \in Runs, LeaseLapses(r)
  PROVE  IInv'
<1>1. /\ run[r] \in Row /\ Agree(run[r], task[r]) /\ Exists(r)
      /\ run' = [run EXCEPT ![r] = Aged(run[r])]
      /\ UNCHANGED <<convs, latest, task, slots, canc, cancels, crashes>>
  BY Here DEF LeaseLapses, Has, Aged
<1>2. PICK d \in Row :
        /\ run' = [run EXCEPT ![r] = d] /\ d.cancel = run[r].cancel
        /\ d.status = run[r].status /\ d.conv = run[r].conv
        /\ d.request = run[r].request /\ d.owned = run[r].owned
        /\ d.log = run[r].log /\ d.said = run[r].said
  BY <1>1, AgedRow
<1>3. Agree(d, task[r])
  BY <1>1, <1>2 DEF Agree, Ownership, Settled, OwnEnd, Recorded, Asked, ToldOK
<1>4. Goes(run[r], d)
  BY <1>2 DEF Goes, Dropped, OwnEnd
<1>5. /\ run' \in [Runs -> Row \cup {None}] /\ RowsGo
      /\ RunsInv' /\ RequestInv' /\ SlotInv'
  BY <1>1, <1>2, <1>3, <1>4, RowPut
<1>6. CancelInv'
  BY <1>1, <1>5, CancelsKept
<1> QED
  BY <1>1, <1>5, <1>6 DEF IInv, TypeOK

\* A swept row: its run was active, so nobody had ended it.
LEMMA SweptOK ==
  ASSUME NEW d \in Row, d.status \in Active, NEW t \in Task, Agree(d, t)
  PROVE  SweptRow(d) \in Row /\ Goes(d, SweptRow(d)) /\ Agree(SweptRow(d), t)
<1>1. PICK e \in Row :
        /\ e = Ended(d, "interrupted")
        /\ e.status = "interrupted" /\ e.conv = d.conv /\ e.request = d.request
        /\ e.owned = d.owned /\ e.cancel = d.cancel /\ e.log = d.log
        /\ e.said = d.said
  BY EndedRow DEF Ends
<1>2. PICK f \in Row :
        /\ f = SweptRow(d)
        /\ f.status = "interrupted" /\ f.conv = d.conv /\ f.request = d.request
        /\ f.owned = d.owned /\ f.cancel = d.cancel
        /\ f.log = d.log \cup {"RUN_INTERRUPTED"} /\ f.said = d.said
  BY <1>1, LoggedRow DEF SweptRow, EndEvents
<1>3. d.status \notin Ends
  BY DEF Active, Ends
<1>4. Goes(d, f)
  BY <1>2, <1>3 DEF Goes, Dropped, OwnEnd, Ends
<1>5. Agree(f, t)
  BY <1>2, <1>3 DEF Agree, Ownership, Settled, OwnEnd, Recorded, Asked, ToldOK, Ends,
     Active
<1> QED
  BY <1>2, <1>4, <1>5

LEMMA SweepStep ==
  ASSUME IInv, Sweep
  PROVE  IInv'
<1>1. /\ UNCHANGED <<convs, latest, task, slots, canc, cancels, crashes>>
      /\ \A r \in Runs : run'[r] = IF Swept(r) THEN SweptRow(run[r]) ELSE run[r]
      /\ run' = [r \in Runs |-> IF Swept(r) THEN SweptRow(run[r]) ELSE run[r]]
  BY DEF Sweep
<1>2. ASSUME NEW r \in Runs
      PROVE  /\ (run[r] = None) = (run'[r] = None)
             /\ run[r] # None => /\ run'[r] \in Row /\ Goes(run[r], run'[r])
                                /\ Agree(run'[r], task[r])
  <2>1. CASE Swept(r)
    <3>1. /\ run[r] \in Row /\ run[r].status \in Active /\ task[r] \in Task
          /\ Agree(run[r], task[r])
      BY <2>1, Here DEF Swept, Has
    <3>2. /\ SweptRow(run[r]) \in Row /\ Goes(run[r], SweptRow(run[r]))
          /\ Agree(SweptRow(run[r]), task[r])
      BY <3>1, SweptOK
    <3> QED
      BY <1>1, <2>1, <3>1, <3>2, NoneAssumption
  <2>2. CASE ~Swept(r)
    BY <1>1, <2>2, Here, GoesStays DEF Exists
  <2> QED
    BY <2>1, <2>2
<1>3. RowsGo
  BY <1>2 DEF RowsGo
<1>4. run' \in [Runs -> Row \cup {None}]
  <2>1. \A r \in Runs : run'[r] \in Row \cup {None}
    BY <1>2
  <2> QED
    BY <1>1, <2>1
<1>5. RunsInv'
  BY <1>1, <1>2 DEF IInv, RunsInv, Exists
<1>6. CancelInv' /\ RequestInv' /\ SlotInv'
  BY <1>1, <1>3, CancelsKept, RequestsKept, SlotsKept
<1> QED
  BY <1>1, <1>4, <1>5, <1>6 DEF IInv, TypeOK

LEMMA DeleteConversationStep ==
  ASSUME IInv, NEW c \in Conversations, DeleteConversation(c)
  PROVE  IInv'
<1>1. /\ UNCHANGED <<task, slots, canc, cancels, crashes>>
      /\ \A r \in Runs : run'[r] = IF Exists(r) /\ run[r].conv = c THEN None ELSE run[r]
      /\ \A e \in Conversations : latest'[e] = IF e = c THEN None ELSE latest[e]
  BY DEF DeleteConversation, IInv, TypeOK
<1>2. \A r \in Runs : run'[r] # None => /\ run'[r] = run[r] /\ Exists(r)
                                        /\ run[r].conv # c
                                        /\ run[r].conv \in Conversations
                                        /\ run[r].request \in Runs
  BY <1>1 DEF Exists, IInv, TypeOK, Row
<1>3. TypeOK'
  <2>1. run' = [r \in Runs |-> IF Exists(r) /\ run[r].conv = c THEN None ELSE run[r]]
    BY DEF DeleteConversation
  <2>2. \A r \in Runs : run'[r] \in Row \cup {None}
    BY <1>1 DEF IInv, TypeOK
  <2>3. run' \in [Runs -> Row \cup {None}]
    BY <2>1, <2>2
  <2>4. latest' \in [Conversations -> Runs \cup {None}]
    BY DEF DeleteConversation, IInv, TypeOK
  <2> QED
    BY <1>1, <2>3, <2>4 DEF DeleteConversation, IInv, TypeOK
<1>4. RunsInv'
  BY <1>1, <1>2 DEF IInv, RunsInv, Exists
<1>5. CancelInv'
  <2> SUFFICES ASSUME NEW p \in Procs
               PROVE  CancelOK(canc[p])'
    BY DEF CancelInv
  <2> QED
    BY <1>1, <1>2, CancelHere DEF CancelOK, Exists
<1>6. SlotInv'
  BY <1>1, SlotsKept
<1>7. RequestInv'
  <2>1. ASSUME NEW r \in Runs, run'[r] # None
        PROVE  /\ task'[run'[r].request].pc # "none"
               /\ latest'[run'[r].conv] \in Runs
               /\ run'[latest'[run'[r].conv]] # None
    <3> DEFINE e == run[r].conv
    <3>1. /\ run'[r] = run[r] /\ Exists(r) /\ e # c /\ e \in Conversations
          /\ task[run[r].request].pc # "none"
          /\ latest[e] \in Runs /\ Exists(latest[e])
      BY <1>2, <2>1 DEF IInv, RequestInv
    <3> HIDE DEF e
    <3>2. run[latest[e]].conv = e
      BY <3>1, ConstantsAssumption DEF IInv, RequestInv
    <3>3. latest'[e] = latest[e] /\ run'[latest[e]] = run[latest[e]]
      BY <1>1, <3>1, <3>2
    <3> QED
      BY <1>1, <3>1, <3>3 DEF e, Exists
  <2>2. ASSUME NEW e \in Conversations, latest'[e] # None
        PROVE  latest'[e] \in Runs /\ run'[latest'[e]] # None /\ run'[latest'[e]].conv = e
    BY <1>1, <2>2 DEF IInv, RequestInv, Exists
  <2>3. ASSUME NEW r \in Runs, NEW s \in Runs, r # s, run'[r] # None, run'[s] # None,
               run'[r].request = run'[s].request
        PROVE  /\ run'[r].conv = run'[s].conv
               /\ Dropped(run'[r]) \/ Dropped(run'[s])
               /\ s = latest'[run'[r].conv] => Dropped(run'[r])
    BY <1>1, <1>2, <2>3 DEF IInv, RequestInv
  <2> QED
    BY <2>1, <2>2, <2>3 DEF RequestInv, Exists, Dropped
<1> QED
  BY <1>3, <1>4, <1>5, <1>6, <1>7 DEF IInv

\* What is left of a task says no more than it did.
LEMMA CrashedTask ==
  ASSUME NEW t \in Task
  PROVE  /\ Crashed(t) \in Task /\ Crashed(t).pc = "crashed" /\ ~Crashed(t).claimed
         /\ Crashed(t).reason = None /\ Crashed(t).told = t.told
         /\ Crashed(t).host = None
<1> DEFINE v == IF t.stream = "open" THEN "closed" ELSE t.stream
<1>1. v \in {"none", "open", "closed"} /\ t.told \in SUBSET {"finished", "error"}
  BY DEF Task
<1>2. Crashed(t) = [NoTask EXCEPT !.pc = "crashed", !.told = t.told, !.stream = v]
  BY DEF Crashed
<1> HIDE DEF v
<1> QED
  BY <1>1, <1>2 DEF Task, NoTask, Over

LEMMA CrashAgrees ==
  ASSUME NEW t \in Task
  PROVE  /\ TaskOK(Crashed(t))
         /\ \A d \in Row : Agree(d, t) => Agree(d, Crashed(t))
<1>1. PICK u \in Task :
        /\ u = Crashed(t) /\ u.pc = "crashed" /\ ~u.claimed /\ u.reason = None
        /\ u.told = t.told
  BY CrashedTask
<1>2. TaskOK(u)
  BY <1>1 DEF TaskOK, Claimless, Before, TaskSteps, Reads, Writes
<1>3. ASSUME NEW d \in Row, Agree(d, t)
      PROVE  Agree(d, u)
  BY <1>1, <1>3, NoneAssumption DEF Agree, Ownership, Settled, Recorded, Asked, ToldOK,
     Before, Notices, Past
<1> QED
  BY <1>1, <1>2, <1>3

LEMMA CrashStep ==
  ASSUME IInv, NEW p \in Procs, Crash(p)
  PROVE  IInv'
<1>1. /\ UNCHANGED <<run, convs, latest, cancels>>
      /\ crashes < MaxCrashes /\ crashes' = crashes + 1
      /\ slots' = [slots EXCEPT ![p] = 0] /\ canc' = [canc EXCEPT ![p] = Idle]
      /\ \A r \in Runs : task'[r] = IF task[r].host = p THEN Crashed(task[r]) ELSE task[r]
  BY DEF Crash
<1>2. \A r \in Runs : task[r] \in Task
  BY DEF IInv, TypeOK
<1>3. TypeOK'
  <2>1. task' = [r \in Runs |-> IF task[r].host = p THEN Crashed(task[r]) ELSE task[r]]
    BY DEF Crash
  <2>2. \A r \in Runs : task'[r] \in Task
    BY <1>1, <1>2, CrashedTask
  <2>3. task' \in [Runs -> Task]
    BY <2>1, <2>2
  <2>4. crashes' \in 0..MaxCrashes
    BY <1>1, ConstantsAssumption DEF IInv, TypeOK
  <2>5. slots' \in [Procs -> Nat] /\ canc' \in [Procs -> Canceller]
    BY <1>1, IdleOK DEF IInv, TypeOK
  <2> QED
    BY <1>1, <2>3, <2>4, <2>5 DEF IInv, TypeOK
<1>4. \A r \in Runs : task[r].pc # "none" => task'[r].pc # "none"
  BY <1>1, <1>2, CrashedTask
<1>5. RunsInv'
  <2> SUFFICES ASSUME NEW r \in Runs
               PROVE  TaskOK(task'[r]) /\ (Exists(r) => Agree(run[r], task'[r]))
    BY <1>1 DEF RunsInv, Exists
  <2> QED
    BY <1>1, Here, CrashAgrees
<1>6. CancelInv'
  BY <1>1, <1>4, NoRowGoes, IdleOK, CancelPut
<1>7. RequestInv'
  BY <1>1, <1>4, NoRowGoes, RequestsKept
<1>8. SlotInv'
  <2> SUFFICES ASSUME NEW q \in Procs
               PROVE  /\ IsFiniteSet(Streaming(q)') /\ slots'[q] = Cardinality(Streaming(q)')
                      /\ slots'[q] <= MaxSlots
    BY DEF SlotInv
  <2>1. CASE q = p
    <3>1. \A r \in Runs : task'[r].pc = "stream" => task'[r].host # p
      BY <1>1, <1>2, CrashedTask
    <3>2. Streaming(q)' = {}
      BY <2>1, <3>1 DEF Streaming
    <3>3. slots'[q] = 0
      BY <1>1, <2>1 DEF IInv, TypeOK
    <3> QED
      BY <3>2, <3>3, FS_EmptySet, ConstantsAssumption
  <2>2. CASE q # p
    <3>1. Streaming(q)' = Streaming(q)
      BY <1>1, <1>2, <2>2, CrashedTask DEF Streaming
    <3>2. slots'[q] = slots[q]
      BY <1>1, <2>2 DEF IInv, TypeOK
    <3> QED
      BY <3>1, <3>2 DEF IInv, SlotInv
  <2> QED
    BY <2>1, <2>2
<1> QED
  BY <1>3, <1>5, <1>6, <1>7, <1>8 DEF IInv

-----------------------------------------------------------------------------
(* The invariant. *)

LEMMA InitOK == Init => IInv
<1> SUFFICES ASSUME Init PROVE IInv
  OBVIOUS
<1>1. /\ \A r \in Runs : run[r] = None /\ task[r] = NoTask
      /\ \A c \in Conversations : latest[c] = None
      /\ \A p \in Procs : slots[p] = 0 /\ canc[p] = Idle
  BY DEF Init, NoRow
<1>2. NoTask \in Task
  BY DEF NoTask, Task
<1>3. TypeOK
  BY <1>2, IdleOK, ConstantsAssumption DEF Init, NoRow, TypeOK
<1>4. TaskOK(NoTask)
  BY DEF NoTask, TaskOK, Claimless, Before, TaskSteps, Reads, Writes
<1>5. RunsInv
  BY <1>1, <1>4 DEF RunsInv, Exists
<1>6. CancelInv /\ RequestInv
  BY <1>1 DEF CancelInv, CancelOK, Idle, RequestInv, Exists
<1>7. SlotInv
  <2>1. ASSUME NEW p \in Procs
        PROVE  Streaming(p) = {}
    BY <1>1 DEF Streaming, NoTask
  <2> QED
    BY <1>1, <2>1, FS_EmptySet, ConstantsAssumption DEF SlotInv
<1> QED
  BY <1>3, <1>5, <1>6, <1>7 DEF IInv

LEMMA StutterOK ==
  ASSUME IInv, UNCHANGED vars
  PROVE  IInv'
<1>1. UNCHANGED <<run, convs, latest, task, slots, canc, cancels, crashes>>
  BY DEF vars
<1>2. TypeOK' /\ RunsInv'
  BY <1>1 DEF IInv, TypeOK, RunsInv, Exists
<1>3. CancelInv' /\ RequestInv' /\ SlotInv'
  BY <1>1, NoRowGoes, CancelsKept, RequestsKept, SlotsKept
<1> QED
  BY <1>2, <1>3 DEF IInv

LEMMA NextOK == IInv /\ [Next]_vars => IInv'
<1> SUFFICES ASSUME IInv, [Next]_vars PROVE IInv'
  OBVIOUS
<1>1. ASSUME NEW r \in Runs, Request(r) \/ Run(r) \/ Watchdog(r) \/ LeaseLapses(r)
      PROVE  IInv'
  BY <1>1, RequestStep, RunStep, WatchdogStep, LeaseLapsesStep
<1>2. ASSUME NEW p \in Procs, Cancel(p) \/ Crash(p)
      PROVE  IInv'
  BY <1>2, CancelStep, CrashStep
<1>3. ASSUME NEW c \in Conversations, DeleteConversation(c)
      PROVE  IInv'
  BY <1>3, DeleteConversationStep
<1>4. CASE Sweep
  BY <1>4, SweepStep
<1>5. CASE UNCHANGED vars
  BY <1>5, StutterOK
<1> QED
  BY <1>1, <1>2, <1>3, <1>4, <1>5 DEF Next

LEMMA Invariant == Spec => []IInv
BY InitOK, NextOK, PTL DEF Spec

-----------------------------------------------------------------------------
(* What follows from it. *)

\* Rows, tasks, slots and cancel requests keep their types.
THEOREM Typed == Spec => []TypeOK
<1>1. IInv => TypeOK
  BY DEF IInv
<1> QED
  BY <1>1, Invariant, PTL

\* However requests are sent, retried, swept and deleted, of the runs that carry
\* out one user message at most one is active or succeeded
\* (append_user_message_and_create_run, set_run_status).
THEOREM OneAnswer == Spec => []OneAnswerPerRequest
<1>1. IInv => OneAnswerPerRequest
  BY DEF IInv, RequestInv, OneAnswerPerRequest, Has, Dropped, Active
<1> QED
  BY <1>1, Invariant, PTL

\* Whichever call fails or is cancelled on the way, a run that ended has the
\* events and the reply that say how (execute_run, mark_stale_runs_interrupted).
THEOREM EndRecorded == Spec => []EndIsRecorded
<1>1. IInv => EndIsRecorded
  <2> SUFFICES ASSUME IInv, NEW r \in Runs, Exists(r)
               PROVE  /\ run[r].status = "succeeded" =>
                           /\ "RUN_FINISHED" \in run[r].log
                           /\ run[r].said \cap {"answer", "failure"} # {}
                      /\ run[r].status = "interrupted" => "RUN_INTERRUPTED" \in run[r].log
                      /\ run[r].status = "cancelled" /\ run[r].owned =>
                           "RUN_CANCELLED" \in run[r].log
    BY DEF EndIsRecorded
  <2>1. Recorded(run[r], task[r]) /\ run[r].said \subseteq {"answer", "failure"}
    BY Here DEF Agree, Row, Replies
  <2> QED
    BY <2>1 DEF Recorded
<1> QED
  BY <1>1, Invariant, PTL

\* No watchdog, sweep or shutdown makes a run look as if its owner had cancelled
\* it (execute_run, service.cancel).
THEOREM CancelledByOwner == Spec => []CancelledWasAsked
<1>1. IInv => CancelledWasAsked
  BY Here DEF CancelledWasAsked, Has, Agree, Asked
<1> QED
  BY <1>1, Invariant, PTL

\* The final event put into the stream agrees with the table: "finished" only
\* for a success, an error only for what is not and will not be one.
ToldIsTrue ==
  \A r \in Runs : Exists(r) =>
    /\ "finished" \in task[r].told => run[r].status = "succeeded"
    /\ "error" \in task[r].told => run[r].status # "succeeded"

\* The last event a client is sent agrees with the row of its run from then on
\* (execute_run, emit_terminal_notice).
THEOREM ToldTruth == Spec => []ToldIsTrue
<1>1. IInv => ToldIsTrue
  BY Here DEF ToldIsTrue, Agree, ToldOK
<1> QED
  BY <1>1, Invariant, PTL

\* On every way out of a stream its slot is given back, and none is given out
\* twice (RunCoordinator.slot).
THEOREM SlotsReturned == Spec => []SlotsAreReturned
<1>1. IInv => SlotsAreReturned
  BY DEF IInv, SlotInv, SlotsAreReturned, Streaming
<1> QED
  BY <1>1, Invariant, PTL

-----------------------------------------------------------------------------
(* The runs keep what Studio promises. *)

\* What the owner sees of a run stays as it is.
Same(r) ==
  /\ task'[r].told = task[r].told
  /\ run'[r] = None <=> run[r] = None
  /\ run[r] = None => (task'[r].pc = "none" <=> task[r].pc = "none")
  /\ run[r] # None =>
       /\ run'[r].status = run[r].status /\ run'[r].conv = run[r].conv
       /\ run'[r].request = run[r].request /\ run'[r].owned = run[r].owned
       /\ run'[r].cancel = run[r].cancel

\* An end of the run can still follow.
OpenRow(d) ==
  \/ d.status \in Active \cup {"interrupted"}
  \/ Dropped(d) /\ ~d.owned

\* What the owner may see a run do, its row going from d to e and what its stream
\* told from a to b.
Turn(d, e, a, b) ==
  /\ e.conv = d.conv /\ e.request = d.request
  /\ \/ /\ e.status = d.status /\ e.owned = d.owned /\ e.cancel = d.cancel
        /\ \/ b = a
           \/ /\ d.status \in {"failed", "cancelled", "interrupted", "running"}
              /\ "finished" \notin a /\ b = {"error"}
     \/ /\ d.status \in Active /\ e.status = d.status /\ e.owned = d.owned
        /\ e.cancel /\ b = a
     \/ /\ d.status = "queued" /\ ~d.cancel /\ e.status = "running" /\ e.owned
        /\ ~e.cancel /\ b = a
     \/ /\ e.owned = d.owned /\ e.cancel = d.cancel /\ OpenRow(d)
        /\ \/ /\ d.owned /\ e.status = "succeeded" /\ a = {}
              /\ b \in {a, {"finished"}}
           \/ e.status = "failed" /\ b = a
           \/ d.cancel /\ e.status = "cancelled" /\ b = a
     \/ /\ e.owned = d.owned /\ e.cancel = d.cancel /\ d.status \in Active
        /\ e.status = "interrupted" /\ b = a

LEMMA NothingShown ==
  ASSUME \A r \in Runs : Same(r)
  PROVE  UNCHANGED Promise!vars
<1>1. UNCHANGED <<Statuses, Places, Wishes>>
  BY DEF Statuses, Places, Wishes, Exists, Same
<1>2. UNCHANGED <<Begun, Stops, Reports>>
  BY DEF Begun, Stops, Reports, Exists, Same
<1> QED
  BY <1>1, <1>2 DEF Promise!vars

\* One run takes its turn and the owner sees nothing else.
LEMMA TurnShown ==
  ASSUME NEW s \in Runs, run[s] # None, run'[s] # None,
         \A r \in Runs \ {s} : Same(r),
         Turn(run[s], run'[s], task[s].told, task'[s].told)
  PROVE  [Promise!Next]_(Promise!vars)
<1> DEFINE d == run[s]
           e == run'[s]
           a == task[s].told
           b == task'[s].told
<1>1. Statuses' = [Statuses EXCEPT ![s] = e.status] /\ Statuses[s] = d.status
  BY DEF Statuses, Exists, Same
<1>2. UNCHANGED <<Places, Wishes>>
  BY DEF Places, Wishes, Exists, Same, Turn
<1>3. /\ Begun' = IF e.owned THEN Begun \cup {s} ELSE Begun \ {s}
      /\ s \in Begun <=> d.owned
  BY DEF Begun, Exists, Same
<1>4. /\ Stops' = IF e.cancel THEN Stops \cup {s} ELSE Stops \ {s}
      /\ s \in Stops <=> d.cancel
  BY DEF Stops, Exists, Same
<1>5. Reports' = [Reports EXCEPT ![s] = b] /\ Reports[s] = a
  BY DEF Reports, Same
<1>0. /\ Statuses = [Statuses EXCEPT ![s] = d.status]
      /\ Statuses = [r \in Runs |-> Statuses[r]]
      /\ Reports = [Reports EXCEPT ![s] = a]
  BY DEF Statuses, Reports, Exists
<1> HIDE DEF d, e, a, b
<1> USE DEF Promise!Active, Promise!Dropped
<1>6. Promise!Open(s) <=> OpenRow(d)
  BY <1>1, <1>3 DEF Promise!Open, OpenRow, Dropped, Active
<1>7. CASE /\ e.status = d.status /\ e.owned = d.owned /\ e.cancel = d.cancel
           /\ b = a
  <2>1. Same(s)
    BY <1>7 DEF Same, Turn, a, b, d, e
  <2> QED
    BY <2>1, NothingShown
<1>8. CASE /\ e.status = d.status /\ e.owned = d.owned /\ e.cancel = d.cancel
           /\ d.status \in {"failed", "cancelled", "interrupted", "running"}
           /\ "finished" \notin a /\ b = {"error"}
  <2>1. Promise!Report(s)
    BY <1>0, <1>1, <1>2, <1>3, <1>4, <1>5, <1>8 DEF Promise!Report
  <2> QED
    BY <2>1 DEF Promise!Next
<1>9. CASE /\ d.status \in Active /\ e.status = d.status /\ e.owned = d.owned
           /\ e.cancel /\ b = a
  <2>1. Promise!Ask(s)
    BY <1>0, <1>1, <1>2, <1>3, <1>4, <1>5, <1>9 DEF Promise!Ask, Active
  <2> QED
    BY <2>1 DEF Promise!Next
<1>10. CASE /\ d.status = "queued" /\ ~d.cancel /\ e.status = "running" /\ e.owned
            /\ ~e.cancel /\ b = a
  <2>1. Promise!Start(s)
    BY <1>0, <1>1, <1>2, <1>3, <1>4, <1>5, <1>10 DEF Promise!Start, Promise!Shows
  <2> QED
    BY <2>1 DEF Promise!Next
<1>11. CASE /\ e.owned = d.owned /\ e.cancel = d.cancel /\ OpenRow(d)
            /\ d.owned /\ e.status = "succeeded" /\ a = {}
            /\ b \in {a, {"finished"}}
  <2>1. Promise!Succeed(s)
    BY <1>0, <1>1, <1>2, <1>3, <1>4, <1>5, <1>6, <1>11 DEF Promise!Succeed, Promise!Shows
  <2> QED
    BY <2>1 DEF Promise!Next
<1>12. CASE /\ e.owned = d.owned /\ e.cancel = d.cancel /\ OpenRow(d)
            /\ e.status = "failed" /\ b = a
  <2>1. Promise!Fail(s)
    BY <1>0, <1>1, <1>2, <1>3, <1>4, <1>5, <1>6, <1>12 DEF Promise!Fail, Promise!Shows
  <2> QED
    BY <2>1 DEF Promise!Next
<1>13. CASE /\ e.owned = d.owned /\ e.cancel = d.cancel /\ OpenRow(d)
            /\ d.cancel /\ e.status = "cancelled" /\ b = a
  <2>1. Promise!Cancel(s)
    BY <1>0, <1>1, <1>2, <1>3, <1>4, <1>5, <1>6, <1>13 DEF Promise!Cancel, Promise!Shows
  <2> QED
    BY <2>1 DEF Promise!Next
<1>14. CASE /\ e.owned = d.owned /\ e.cancel = d.cancel /\ d.status \in Active
            /\ e.status = "interrupted" /\ b = a
  <2>1. Promise!Interrupt({s})
    BY <1>0, <1>1, <1>2, <1>3, <1>4, <1>5, <1>14 DEF Promise!Interrupt, Active
  <2> QED
    BY <2>1 DEF Promise!Next
<1> QED
  BY <1>7, <1>8, <1>9, <1>10, <1>11, <1>12, <1>13, <1>14 DEF Turn, a, b, d, e

-----------------------------------------------------------------------------
(* The turns of a task. *)

LEMMA RunWrites ==
  ASSUME NEW s \in Runs, Run(s)
  PROVE  UNCHANGED run \/ (Exists(s) /\ run' = [run EXCEPT ![s] = Effect(s)])
<1>1. CASE Raise(s) \/ Killed(s)
  BY <1>1 DEF Raise, Killed, MaybeEffect
<1>2. CASE AcquireSlot(s) \/ Close(s) \/ SaveArtifact(s)
  BY <1>2 DEF AcquireSlot, Close, SaveArtifact
<1>3. CASE ~(Raise(s) \/ Killed(s) \/ AcquireSlot(s) \/ Close(s) \/ SaveArtifact(s))
  <2>1. \E t : Return(s, t)
    BY <1>3 DEF Run, Execute, Claim, EndStream, SaveReply, Succeed, Unclaimed, OnCancelled,
       LogCancelled, EndCancelled, OnFailure, SaveFailure, LogRecovered, EndRecovered,
       LogFailed, EndFailed, EndUnsaved, ReadEvents, LogNotice, SaveNotice, Look, Read,
       Write
  <2> QED
    BY <2>1 DEF Return
<1> QED
  BY <1>1, <1>2, <1>3

\* Every call of a task is a turn of its run by what it does to the row alone.
LEMMA EffectTurns ==
  ASSUME IInv, NEW r \in Runs, Exists(r), NEW a
  PROVE  \/ Turn(run[r], Effect(r), a, a)
         \/ /\ task[r].pc \in {"succeed", "recoverStatus"}
            /\ task[r].told = {} /\ run[r].owned /\ OpenRow(run[r])
            /\ Effect(r) = Ended(run[r], "succeeded")
<1>1. run[r] \in Row /\ task[r] \in Task /\ Agree(run[r], task[r]) /\ TaskOK(task[r])
  BY Here
<1>2. CASE task[r].pc \in {"stream", "recoverEvent", "reply", "cancelEvent", "mark",
                           "failMessage", "failEvent"}
  <2>1. PICK e \in EndEvents, m \in Replies :
           Effect(r) = Logged(run[r], e) \/ Effect(r) = Said(run[r], m)
    BY <1>2, EffectAt DEF EventOf, EndEvents, Replies
  <2> QED
    BY <1>1, <2>1, LoggedRow, SaidRow DEF Turn
<1>3. CASE task[r].pc = "claim"
  <2>1. CASE Claimable(run[r])
    BY <1>1, <1>3, <2>1, EffectAt, ClaimedRow DEF Turn, Claimable
  <2>2. CASE ~Claimable(run[r])
    BY <1>1, <1>3, <2>2, EffectAt DEF Turn
  <2> QED
    BY <2>1, <2>2
<1>4. ASSUME task[r].pc \in {"succeed", "recoverStatus", "cancelStatus", "failStatus",
                             "failShort"}
      PROVE  /\ OpenRow(run[r]) /\ run[r].owned
             /\ run[r].status \in {"running", "interrupted"}
  BY <1>1, <1>4 DEF Agree, Settled, Ownership, Past, TaskOK, Claimless, Before, Notices,
     OwnEnd, OpenRow, Active, Row, Ends
<1>5. CASE task[r].pc \in {"succeed", "recoverStatus"}
  <2>1. task[r].told = {}
    BY <1>1, <1>4, <1>5 DEF Agree, ToldOK, Past, Task
  <2> QED
    BY <1>4, <1>5, <2>1, EffectAt
<1>6. CASE task[r].pc = "cancelStatus"
  <2>1. /\ task[r].end \in {"cancelled", "interrupted"}
        /\ task[r].end = "cancelled" => run[r].cancel
    BY <1>1, <1>6 DEF Agree, Asked, TaskOK
  <2>2. PICK s \in {"cancelled", "interrupted"} :
          Effect(r) = Ended(run[r], s) /\ (s = "cancelled" => run[r].cancel)
    BY <1>6, <2>1, EffectAt
  <2>3. PICK e : e = Effect(r) /\ e.status = s /\ e.conv = run[r].conv
                 /\ e.request = run[r].request /\ e.owned = run[r].owned
                 /\ e.cancel = run[r].cancel
    BY <1>1, <2>2, EndedRow DEF Ends
  <2> QED
    BY <1>4, <1>6, <2>2, <2>3 DEF Turn, Active
<1>7. CASE task[r].pc \in {"failStatus", "failShort"}
  BY <1>1, <1>4, <1>7, EffectAt, EndedRow DEF Turn, Ends
<1>8. CASE task[r].pc \notin {"claim"} \cup (Writes \ {"notify"})
  BY <1>1, <1>8, EffectAt DEF Turn
<1> QED
  BY <1>2, <1>3, <1>5, <1>6, <1>7, <1>8 DEF Writes

LEMMA SuccessTurns ==
  ASSUME IInv, NEW r \in Runs, Exists(r), run[r].owned, OpenRow(run[r]),
         Effect(r) = Ended(run[r], "succeeded"), NEW b \in {{}, {"finished"}}
  PROVE  Turn(run[r], Effect(r), {}, b)
<1>1. run[r] \in Row /\ "succeeded" \in Active \cup Ends
  BY Here DEF Ends
<1>2. /\ Effect(r).status = "succeeded" /\ Effect(r).conv = run[r].conv
      /\ Effect(r).request = run[r].request /\ Effect(r).owned = run[r].owned
      /\ Effect(r).cancel = run[r].cancel
  BY <1>1 DEF Ended, Row
<1> QED
  BY <1>2 DEF Turn

\* What a step of a task does to the task: it goes on, and the stream is told
\* something in four of them.
LEMMA TaskGoes ==
  ASSUME IInv, NEW s \in Runs, Run(s)
  PROVE  /\ \A r \in Runs \ {s} : task'[r] = task[r]
         /\ task[s].pc # "none" /\ task'[s].pc # "none"
         /\ \/ task'[s].told = task[s].told
            \/ /\ Succeed(s) \/ EndRecovered(s)
               /\ task'[s].told = task[s].told \cup {"finished"}
            \/ /\ (SaveFailure(s) /\ ~task[s].artifact) \/ SaveNotice(s)
               /\ task'[s].told = task[s].told \cup {"error"}
<1>1. task[s] \in Task /\ task \in [Runs -> Task]
  BY DEF IInv, TypeOK
<1>2. \A n \in TaskSteps \cup Over :
        /\ At(task[s], n) \in Task /\ At(task[s], n).pc = n
        /\ At(task[s], n).told = task[s].told
  BY <1>1, AtTask DEF Alike
<1>3. /\ Finished(task[s]) \in Task /\ Finished(task[s]).pc = "done"
      /\ Finished(task[s]).told = task[s].told
  BY <1>1, FinishedTask
<1>4. \A n \in TaskSteps \cup Over : n # "none"
  BY DEF TaskSteps, Reads, Writes, Over
<1>5. CASE Succeed(s) \/ EndRecovered(s)
  <2>1. /\ task[s].pc \in {"succeed", "recoverStatus"}
        /\ task' = [task EXCEPT ![s] = Told(At(task[s], "closing"), "finished")]
    BY <1>5 DEF Succeed, EndRecovered, Write, Resumes, Return
  <2> QED
    BY <1>1, <1>2, <1>5, <2>1, ToldTask DEF TaskSteps
<1>6. CASE SaveFailure(s)
  <2>1. /\ task[s].pc = "failMessage"
        /\ task' = [task EXCEPT ![s] =
             IF task[s].artifact THEN At(task[s], "recoverEvent")
                                 ELSE Told(At(task[s], "failEvent"), "error")]
    BY <1>6 DEF SaveFailure, Write, Resumes, Return
  <2> QED
    BY <1>1, <1>2, <1>6, <2>1, ToldTask DEF TaskSteps, Writes
<1>7. CASE SaveNotice(s)
  <2>1. /\ task[s].pc = "notify"
        /\ task' = [task EXCEPT ![s] =
             IF task[s].claimed THEN Told(At(task[s], "closing"), "error")
                                ELSE Told(Finished(task[s]), "error")]
    BY <1>7 DEF SaveNotice, Write, Resumes, Return
  <2> QED
    BY <1>1, <1>2, <1>3, <1>7, <2>1, ToldTask DEF TaskSteps, Writes
<1>8. ASSUME NEW n \in TaskSteps \cup Over, task[s].pc # "none",
             task' = [task EXCEPT ![s] = At(task[s], n)]
      PROVE  /\ \A r \in Runs \ {s} : task'[r] = task[r]
             /\ task[s].pc # "none" /\ task'[s].pc # "none"
             /\ task'[s].told = task[s].told
  BY <1>1, <1>2, <1>4, <1>8
<1>9. CASE \/ EndStream(s) \/ SaveReply(s) \/ LogCancelled(s) \/ EndCancelled(s)
           \/ LogRecovered(s) \/ LogFailed(s) \/ EndFailed(s) \/ EndUnsaved(s)
           \/ ReadEvents(s) \/ LogNotice(s)
  <2>1. PICK n \in TaskSteps : task' = [task EXCEPT ![s] = At(task[s], n)]
    BY <1>9 DEF EndStream, SaveReply, LogCancelled, EndCancelled, LogRecovered, LogFailed,
       EndFailed, EndUnsaved, ReadEvents, LogNotice, Read, Write, Return, TaskSteps,
       Writes, Reads
  <2>2. task[s].pc # "none"
    BY <1>9 DEF EndStream, SaveReply, LogCancelled, EndCancelled, LogRecovered, LogFailed,
       EndFailed, EndUnsaved, ReadEvents, LogNotice, Read, Write, Resumes
  <2> QED
    BY <1>8, <2>1, <2>2
<1>10. CASE Claim(s)
  <2>1. PICK w \in BOOLEAN, n \in TaskSteps :
           task' = [task EXCEPT ![s] = Tried(At(task[s], n), w)] /\ task[s].pc = "claim"
    <3>1. (Exists(s) /\ Claimable(run[s])) \in BOOLEAN
      BY DEF Exists, Claimable
    <3> QED
      BY <1>10, <3>1 DEF Claim, Read, Resumes, Return, Tried, TaskSteps, Reads
  <2> QED
    BY <1>1, <1>2, <1>4, <2>1, TriedTask
<1>11. CASE AcquireSlot(s)
  <2>1. /\ task' = [task EXCEPT ![s] = Watched(At(task[s], "stream"))]
        /\ task[s].pc = "slot"
    BY <1>11 DEF AcquireSlot, Resumes, Watched
  <2> QED
    BY <1>1, <1>2, <2>1, WatchedTask DEF TaskSteps, Writes, Alike
<1>12. CASE SaveArtifact(s)
  <2>1. task' = [task EXCEPT ![s].artifact = TRUE] /\ task[s].pc = "stream"
    BY <1>12 DEF SaveArtifact, Resumes
  <2> QED
    BY <1>1, <2>1 DEF Task
<1>13. CASE Close(s)
  BY <1>1, <1>3, <1>13 DEF Close
<1>14. ASSUME NEW at, NEW o, Look(s, at, o), at # "none", o.pc # "none",
              o.told = task[s].told
       PROVE  /\ \A r \in Runs \ {s} : task'[r] = task[r]
              /\ task[s].pc # "none" /\ task'[s].pc # "none"
              /\ task'[s].told = task[s].told
  <2>1. task[s].pc = at
    BY <1>14 DEF Look, Read, Resumes
  <2>2. CASE Has(s, Noticed)
    <3>1. PICK e \in {"cancelled", "interrupted"} :
             task' = [task EXCEPT ![s] = Ending(At(task[s], "events"), e)]
      BY <1>14, <2>2 DEF Look, Read, Return, Ending
    <3> QED
      BY <1>1, <1>2, <1>14, <2>1, <3>1, EndingTask DEF TaskSteps, Reads, Alike
  <2>3. CASE ~Has(s, Noticed)
    <3>1. task' = [task EXCEPT ![s] = o]
      BY <1>14, <2>3 DEF Look, Read, Return
    <3> QED
      BY <1>1, <1>14, <2>1, <3>1
  <2> QED
    BY <2>2, <2>3
<1>15. CASE Unclaimed(s)
  BY <1>3, <1>14, <1>15 DEF Unclaimed
<1>16. CASE OnFailure(s)
  <2>1. PICK n \in TaskSteps : Look(s, "failing", At(task[s], n))
    BY <1>16 DEF OnFailure, TaskSteps, Writes
  <2> QED
    BY <1>2, <1>4, <1>14, <2>1
<1>17. CASE OnCancelled(s)
  <2>1. PICK o : /\ Look(s, "cancelling", o) /\ o.told = task[s].told
                 /\ o.pc # "none"
    <3>1. CASE Has(s, Active)
      <4>1. PICK e \in {"cancelled", "interrupted"} :
               Look(s, "cancelling", Ending(At(task[s], "cancelEvent"), e))
        BY <1>17, <3>1 DEF OnCancelled, Ending
      <4> QED
        BY <1>2, <4>1, EndingTask DEF TaskSteps, Writes, Alike
    <3>2. CASE ~Has(s, Active)
      BY <1>2, <1>17, <3>2 DEF OnCancelled, TaskSteps
    <3> QED
      BY <3>1, <3>2
  <2> QED
    BY <1>14, <2>1
<1>18. CASE Raise(s) \/ Killed(s)
  <2>1. task[s].pc \in TaskSteps
    BY <1>18 DEF Raise, Killed, TaskSteps
  <2>2. /\ \E n \in TaskSteps \cup Over : OnError(task[s]) = At(task[s], n)
        /\ \E n \in TaskSteps \cup Over : OnCancel(task[s]) = At(task[s], n)
    BY DEF OnError, OnCancel, Escape, TaskSteps, Reads, Writes, Over
  <2>3. PICK n \in TaskSteps \cup Over :
          \/ task' = [task EXCEPT ![s] = At(task[s], n)]
          \/ task' = [task EXCEPT ![s] = Spared(At(task[s], n))]
    BY <1>18, <2>2 DEF Raise, Killed, Spared
  <2> QED
    BY <1>1, <1>2, <1>4, <2>1, <2>3, SparedTask DEF Alike
<1> QED
  BY <1>5, <1>6, <1>7, <1>9, <1>10, <1>11, <1>12, <1>13, <1>15, <1>16, <1>17, <1>18
     DEF Run, Execute

LEMMA RunShown ==
  ASSUME IInv, NEW s \in Runs, Run(s)
  PROVE  [Promise!Next]_(Promise!vars)
<1>1. /\ \A r \in Runs \ {s} : task'[r] = task[r]
      /\ task[s].pc # "none" /\ task'[s].pc # "none"
  BY TaskGoes
<1>2. run \in [Runs -> Row \cup {None}]
  BY DEF IInv, TypeOK
<1>3. \A r \in Runs \ {s} : run'[r] = run[r]
  BY <1>2, RunWrites
<1>4. \A r \in Runs \ {s} : Same(r)
  BY <1>1, <1>3 DEF Same
<1>5. CASE ~Exists(s)
  <2>1. UNCHANGED run
    BY <1>5, RunWrites
  <2>2. task'[s].told = task[s].told
    BY <1>5, TaskGoes DEF Succeed, EndRecovered, SaveFailure, SaveNotice, Write
  <2>3. Same(s)
    BY <1>1, <1>5, <2>1, <2>2 DEF Same, Exists
  <2> QED
    BY <1>4, <2>3, NothingShown
<1>6. CASE Exists(s)
  <2>1. /\ run[s] # None /\ run'[s] # None /\ run'[s] \in {run[s], Effect(s)}
        /\ run[s] \in Row /\ task[s] \in Task
        /\ Agree(run[s], task[s]) /\ TaskOK(task[s])
    <3>1. Effect(s) \in Row /\ run[s] \in Row
      BY <1>6, EffectGoes, Here
    <3> QED
      BY <1>2, <1>6, <3>1, RunWrites, NoneAssumption, Here DEF Exists
  <2>2. Turn(run[s], run[s], task[s].told, task[s].told)
    BY DEF Turn
  <2>3. CASE task'[s].told = task[s].told
    <3>1. Turn(run[s], run'[s], task[s].told, task'[s].told)
      BY <1>6, <2>1, <2>2, <2>3, EffectTurns, SuccessTurns
    <3> QED
      BY <1>4, <2>1, <3>1, TurnShown
  <2>4. CASE /\ Succeed(s) \/ EndRecovered(s)
             /\ task'[s].told = task[s].told \cup {"finished"}
    <3>1. task[s].pc \in {"succeed", "recoverStatus"} /\ run'[s] = Effect(s)
      BY <1>2, <1>6, <2>4 DEF Succeed, EndRecovered, Write, Resumes, Return
    <3>2. Effect(s) = Ended(run[s], "succeeded") /\ ~OwnEnd(run[s]) /\ run[s].owned
      BY <2>1, <3>1, EffectAt DEF Agree, Settled, Ownership, Past, TaskOK, Claimless,
         Before, Notices
    <3>3. OpenRow(run[s])
      BY <2>1, <3>2 DEF OwnEnd, OpenRow, Row, Active, Ends
    <3>4. task[s].told = {}
      BY <2>1, <3>1, <3>2 DEF Agree, ToldOK, Past, Task, OwnEnd
    <3>5. Turn(run[s], run'[s], task[s].told, task'[s].told)
      BY <1>6, <2>4, <3>1, <3>2, <3>3, <3>4, SuccessTurns
    <3> QED
      BY <1>4, <2>1, <3>5, TurnShown
  <2>5. CASE /\ (SaveFailure(s) /\ ~task[s].artifact) \/ SaveNotice(s)
             /\ task'[s].told = task[s].told \cup {"error"}
    <3>1. task[s].pc \in {"failMessage", "notify"} /\ run'[s] = Effect(s)
      BY <1>2, <1>6, <2>5 DEF SaveFailure, SaveNotice, Write, Resumes, Return
    <3>2. /\ Effect(s).status = run[s].status /\ Effect(s).owned = run[s].owned
          /\ Effect(s).cancel = run[s].cancel /\ Effect(s).conv = run[s].conv
          /\ Effect(s).request = run[s].request
      BY <2>1, <3>1, EffectAt, SaidRow DEF Replies, Writes
    <3>3. run[s].status \notin {"queued", "succeeded"}
      BY <2>1, <3>1 DEF Agree, Settled, Ownership, Past, TaskOK, Claimless, Before,
         Notices, OwnEnd, Active
    <3>4. "finished" \notin task[s].told /\ task'[s].told = {"error"}
      BY <2>1, <2>5, <3>3 DEF Agree, ToldOK, Task
    <3>5. Turn(run[s], run'[s], task[s].told, task'[s].told)
      BY <2>1, <3>1, <3>2, <3>3, <3>4 DEF Turn, Row, Active, Ends
    <3> QED
      BY <1>4, <2>1, <3>5, TurnShown
  <2> QED
    BY <2>3, <2>4, <2>5, TaskGoes
<1> QED
  BY <1>5, <1>6

-----------------------------------------------------------------------------
(* The turns of the others. *)

LEMMA CreateShown ==
  ASSUME IInv, NEW r \in Runs, NEW c \in Conversations, NEW p \in Procs, NEW m,
         Create(r, c, p, m), Begins(r, c, m)
  PROVE  [Promise!Next]_(Promise!vars)
<1>1. task[r] = NoTask /\ ~Exists(r)
  BY Here DEF Create, TaskOK, Agree, Ownership
<1>2. m \in Runs
  BY ConstantsAssumption DEF Begins, Has, Exists, IInv, TypeOK, Row
<1>3. /\ run' = [run EXCEPT ![r] = NewRow(c, m)]
      /\ task' = [task EXCEPT ![r].pc = "created", ![r].host = p]
      /\ run \in [Runs -> Row \cup {None}] /\ task \in [Runs -> Task]
  BY DEF Create, IInv, TypeOK
<1>4. /\ NewRow(c, m) # None /\ NewRow(c, m).status = "queued"
      /\ NewRow(c, m).conv = c /\ NewRow(c, m).request = m
      /\ ~NewRow(c, m).owned /\ ~NewRow(c, m).cancel
  <2>1. NewRow(c, m) \in Row
    BY <1>2 DEF NewRow, Row, Active
  <2> QED
    BY <2>1, NoneAssumption DEF NewRow
<1>5. task'[r].told = task[r].told
  BY <1>1, <1>3 DEF Task
<1>6. \A s \in Runs : run'[s] = IF s = r THEN NewRow(c, m) ELSE run[s]
  BY <1>3
<1>7. \A s \in Runs : s # r => task'[s] = task[s]
  BY <1>3
<1>8. Statuses[r] = "new" /\ Statuses' = [Statuses EXCEPT ![r] = "queued"]
  <2> DEFINE d == NewRow(c, m)
  <2>1. \A s \in Runs : run'[s] = IF s = r THEN d ELSE run[s]
    BY <1>6
  <2>2. d # None /\ d.status = "queued" /\ task[r].pc = "none" /\ run[r] = None
    BY <1>1, <1>4 DEF NoTask, Exists
  <2> HIDE DEF d
  <2>3. \A s \in Runs : Statuses'[s] = IF s = r THEN "queued" ELSE Statuses[s]
    BY <1>7, <2>1, <2>2 DEF Statuses, Exists
  <2> QED
    BY <2>2, <2>3 DEF Statuses, Exists
<1>9. Places' = [Places EXCEPT ![r] = c] /\ Wishes' = [Wishes EXCEPT ![r] = m]
  <2> DEFINE d == NewRow(c, m)
  <2>1. \A s \in Runs : run'[s] = IF s = r THEN d ELSE run[s]
    BY <1>6
  <2>2. d # None /\ d.conv = c /\ d.request = m
    BY <1>4
  <2> HIDE DEF d
  <2> QED
    BY <2>1, <2>2 DEF Places, Wishes, Exists
<1>10. UNCHANGED <<Begun, Stops, Reports>>
  <2>1. Begun' = Begun /\ Stops' = Stops
    BY <1>1, <1>4, <1>6 DEF Begun, Stops, Exists
  <2>2. Reports' = Reports
    BY <1>5, <1>7 DEF Reports
  <2> QED
    BY <2>1, <2>2
<1>11. \A s \in Runs : Exists(s) =>
         /\ run[s].conv \in Conversations /\ run[s].request # r
         /\ run[s].conv = c => run[s].status \notin Active
  BY <1>1 DEF Create, Busy, Has, IInv, RequestInv, TypeOK, Row, Exists, NoTask
<1>12. ASSUME NEW s \in Runs
       PROVE  /\ Places[s] = c => Statuses[s] \notin Active
              /\ Wishes[s] = m => Places[s] = c /\ Statuses[s] \in {"failed", "cancelled"}
  <2>1. CASE ~Exists(s)
    BY <1>2, <2>1, ConstantsAssumption DEF Places, Wishes
  <2>2. CASE Exists(s)
    <3>1. /\ Places[s] = run[s].conv /\ Wishes[s] = run[s].request
          /\ Statuses[s] = run[s].status
      BY <2>2 DEF Places, Wishes, Statuses
    <3>2. ASSUME run[s].request = m
          PROVE  run[s].conv = c /\ Dropped(run[s])
      <4>1. /\ latest[c] \in Runs /\ Has(latest[c], {"failed"})
            /\ m = run[latest[c]].request
        BY <1>11, <2>2, <3>2 DEF Begins, Has, IInv, TypeOK
      <4>2. run[latest[c]].conv = c
        BY <4>1, ConstantsAssumption DEF IInv, RequestInv, Has
      <4>3. CASE s = latest[c]
        BY <4>1, <4>2, <4>3 DEF Has, Dropped
      <4>4. CASE s # latest[c]
        BY <2>2, <3>2, <4>1, <4>2, <4>4 DEF IInv, RequestInv, Has, Exists
      <4> QED
        BY <4>3, <4>4
    <3> QED
      BY <1>11, <2>2, <3>1, <3>2 DEF Dropped
  <2> QED
    BY <2>1, <2>2
<1>13. m = r \/ \E s \in Runs : Wishes[s] = m /\ Statuses[s] = "failed"
  BY DEF Begins, Has, Wishes, Statuses, IInv, TypeOK, Exists
<1>14. Promise!Accept(r, c, m)
  BY <1>8, <1>9, <1>10, <1>12, <1>13
     DEF Promise!Accept, Promise!Shows, Promise!Active, Promise!Dropped, Active
<1> QED
  BY <1>2, <1>14 DEF Promise!Next

LEMMA RequestShown ==
  ASSUME IInv, NEW s \in Runs, Request(s)
  PROVE  [Promise!Next]_(Promise!vars)
<1>1. run \in [Runs -> Row \cup {None}] /\ task \in [Runs -> Task]
  BY DEF IInv, TypeOK
<1>2. ASSUME NEW c \in Conversations, NEW p \in Procs, Send(s, c, p) \/ Retry(s, c, p)
      PROVE  [Promise!Next]_(Promise!vars)
  BY <1>2, CreateShown DEF Send, Retry, Retryable, Begins
<1>3. CASE Begin(s) \/ SetupFails(s) \/ SetupBreaks(s) \/ Attach(s)
  <2>1. /\ task[s].pc \in SetupSteps /\ task'[s].pc # "none"
        /\ task'[s].told = task[s].told
        /\ \A r \in Runs \ {s} : task'[r] = task[r]
    BY <1>1, <1>3 DEF Begin, SetupFails, SetupBreaks, Attach, SetupSteps, Task
  <2>2. \/ UNCHANGED run
        \/ Exists(s) /\ run' = [run EXCEPT ![s] = Ended(run[s], "failed")]
    BY <1>3 DEF Begin, SetupFails, SetupBreaks, Attach
  <2>3. \A r \in Runs \ {s} : Same(r)
    BY <1>1, <2>1, <2>2 DEF Same
  <2>4. CASE UNCHANGED run
    <3>1. Same(s)
      BY <2>1, <2>4 DEF Same, SetupSteps
    <3> QED
      BY <2>3, <3>1, NothingShown
  <2>5. CASE Exists(s) /\ run' = [run EXCEPT ![s] = Ended(run[s], "failed")]
    <3>1. run[s] \in Row /\ Agree(run[s], task[s])
      BY <2>5, Here
    <3>2. run'[s] = Ended(run[s], "failed")
      BY <1>1, <2>5
    <3>3. /\ run'[s] \in Row /\ run'[s].status = "failed"
          /\ run'[s].conv = run[s].conv /\ run'[s].request = run[s].request
          /\ run'[s].owned = run[s].owned /\ run'[s].cancel = run[s].cancel
      BY <3>1, <3>2, EndedRow DEF Ends
    <3>4. ~run[s].owned
      BY <2>1, <3>1 DEF Agree, Ownership, Before, SetupSteps
    <3>5. OpenRow(run[s])
      BY <3>1, <3>4 DEF Agree, Ownership, OpenRow, Dropped, Row, Active, Ends
    <3>6. Turn(run[s], run'[s], task[s].told, task'[s].told)
      BY <2>1, <3>3, <3>5 DEF Turn
    <3> QED
      BY <2>3, <2>5, <3>3, <3>6, TurnShown, NoneAssumption DEF Exists
  <2> QED
    BY <2>2, <2>4, <2>5
<1> QED
  BY <1>2, <1>3 DEF Request

\* The endpoint writes the wish to cancel, and ends only a run that nobody took.
LEMMA CancelShown ==
  ASSUME IInv, NEW p \in Procs, Cancel(p)
  PROVE  [Promise!Next]_(Promise!vars)
<1> DEFINE s == canc[p].run
<1>1. run \in [Runs -> Row \cup {None}] /\ task \in [Runs -> Task]
  BY DEF IInv, TypeOK
<1>2. \A r \in Runs : /\ task'[r].told = task[r].told
                       /\ task'[r].pc = task[r].pc
  <2>1. CASE CancelSignals(p)
    <3>1. s \in Runs
      BY <2>1, CancelHere DEF CancelSignals, CancelOK
    <3> HIDE DEF s
    <3>2. CancelHandle(task[s], "user").told = task[s].told /\
          CancelHandle(task[s], "user").pc = task[s].pc
      BY <1>1, <3>1 DEF CancelHandle, Task
    <3>3. task' = [task EXCEPT ![s] = CancelHandle(task[s], "user")] \/ task' = task
      BY <2>1 DEF CancelSignals, s
    <3> QED
      BY <1>1, <3>2, <3>3
  <2>2. CASE ~CancelSignals(p)
    BY <2>2 DEF Cancel, AnswerCancel, CancelReads, CancelRequests, CancelEnds, CancelLogs,
       CancelBreaks
  <2> QED
    BY <2>1, <2>2
<1>3. ASSUME NEW d \in Row, s \in Runs, Exists(s), run' = [run EXCEPT ![s] = d],
             Turn(run[s], d, task[s].told, task[s].told)
      PROVE  [Promise!Next]_(Promise!vars)
  <2> HIDE DEF s
  <2>1. /\ \A r \in Runs \ {s} : run'[r] = run[r]
        /\ run'[s] = d /\ run'[s] # None /\ run[s] # None
    BY <1>1, <1>3, NoneAssumption DEF Exists
  <2>2. \A r \in Runs \ {s} : Same(r)
    BY <1>2, <2>1 DEF Same
  <2> QED
    BY <1>2, <1>3, <2>1, <2>2, TurnShown
<1>4. CASE CancelRequests(p) /\ Has(s, Active)
  <2>1. run' = [run EXCEPT ![s].cancel = TRUE] /\ s \in Runs
    BY <1>4, CancelHere DEF CancelRequests, CancelOK
  <2>2. run' = [run EXCEPT ![s] = Pressed(run[s])] /\ run[s] \in Row /\ Exists(s)
    BY <1>4, <2>1, Here DEF Pressed, Has
  <2>3. Pressed(run[s]) \in Row /\ Turn(run[s], Pressed(run[s]), task[s].told, task[s].told)
    <3> HIDE DEF s
    <3> QED
      BY <1>4, <2>2, PressedRow DEF Turn, Has
  <2> QED
    BY <1>3, <2>1, <2>2, <2>3
<1>5. CASE CancelEnds(p) /\ Exists(s)
  <2>1. /\ s \in Runs /\ run' = [run EXCEPT ![s] = Ended(run[s], "cancelled")]
        /\ run[s].cancel /\ ~run[s].owned
    BY <1>5, CancelHere DEF CancelEnds, CancelOK
  <2> HIDE DEF s
  <2>2. run[s] \in Row /\ Agree(run[s], task[s])
    BY <1>5, <2>1, Here
  <2>3. OpenRow(run[s])
    BY <2>1, <2>2 DEF Agree, Ownership, OpenRow, Dropped, Row, Active, Ends
  <2>4. PICK d \in Row :
          /\ run' = [run EXCEPT ![s] = d] /\ d.status = "cancelled"
          /\ d.conv = run[s].conv /\ d.request = run[s].request
          /\ d.owned = run[s].owned /\ d.cancel = run[s].cancel
    BY <2>1, <2>2, EndedRow DEF Ends
  <2>5. Turn(run[s], d, task[s].told, task[s].told)
    BY <2>1, <2>3, <2>4 DEF Turn
  <2> QED
    BY <1>3, <1>5, <2>1, <2>4, <2>5
<1>6. CASE CancelLogs(p) /\ Exists(s)
  <2>1. s \in Runs /\ run' = [run EXCEPT ![s] = Logged(run[s], "RUN_CANCELLED")]
    BY <1>6, CancelHere DEF CancelLogs, CancelOK
  <2>2. run[s] \in Row
    BY <1>6, <2>1, Here
  <2>3. /\ Logged(run[s], "RUN_CANCELLED") \in Row
        /\ Turn(run[s], Logged(run[s], "RUN_CANCELLED"), task[s].told, task[s].told)
    BY <2>2, LoggedRow DEF Turn, EndEvents
  <2> QED
    BY <1>3, <1>6, <2>1, <2>3
<1>7. CASE UNCHANGED run
  <2>1. \A r \in Runs : Same(r)
    BY <1>2, <1>7 DEF Same
  <2> QED
    BY <2>1, NothingShown
<1> QED
  BY <1>4, <1>5, <1>6, <1>7 DEF Cancel, AnswerCancel, CancelReads, CancelRequests,
     CancelSignals, CancelEnds, CancelLogs, CancelBreaks

LEMMA QuietShown ==
  ASSUME IInv,
         \/ \E s \in Runs : Watchdog(s) \/ LeaseLapses(s)
         \/ \E p \in Procs : Crash(p)
         \/ UNCHANGED vars
  PROVE  UNCHANGED Promise!vars
<1>1. run \in [Runs -> Row \cup {None}] /\ task \in [Runs -> Task]
  BY DEF IInv, TypeOK
<1>2. ASSUME NEW s \in Runs, Watchdog(s), NEW r \in Runs
      PROVE  Same(r)
  <2>1. PICK reason \in {"user", "lease_lost"} :
          /\ task' = [task EXCEPT ![s] = [CancelHandle(task[s], reason) EXCEPT !.watch = FALSE]]
          /\ UNCHANGED run
    BY <1>2 DEF Watchdog, WatchdogSees
  <2>2. LET t == [CancelHandle(task[s], reason) EXCEPT !.watch = FALSE]
        IN  t.told = task[s].told /\ t.pc = task[s].pc
    BY <1>1 DEF CancelHandle, Task
  <2> QED
    BY <1>1, <2>1, <2>2 DEF Same
<1>3. ASSUME NEW s \in Runs, LeaseLapses(s), NEW r \in Runs
      PROVE  Same(r)
  <2>1. /\ run' = [run EXCEPT ![s] = Aged(run[s])] /\ run[s] \in Row /\ Exists(s)
        /\ UNCHANGED task
    BY <1>3, Here DEF LeaseLapses, Aged, Has
  <2>2. PICK d \in Row :
          /\ run' = [run EXCEPT ![s] = d] /\ d.status = run[s].status
          /\ d.conv = run[s].conv /\ d.request = run[s].request
          /\ d.owned = run[s].owned /\ d.cancel = run[s].cancel
    BY <2>1, AgedRow
  <2> QED
    BY <1>1, <2>1, <2>2, NoneAssumption DEF Same, Exists
<1>4. ASSUME NEW p \in Procs, Crash(p), NEW r \in Runs
      PROVE  Same(r)
  <2>1. task[r].host = p => task[r].pc # "none"
    BY Here, ConstantsAssumption DEF TaskOK, NoTask
  <2>2. Crashed(task[r]).told = task[r].told /\ Crashed(task[r]).pc = "crashed"
    BY <1>1 DEF Crashed, NoTask, Task
  <2>3. task'[r] = IF task[r].host = p THEN Crashed(task[r]) ELSE task[r]
    BY <1>4 DEF Crash
  <2>4. UNCHANGED run
    BY <1>4 DEF Crash
  <2> QED
    BY <2>1, <2>2, <2>3, <2>4 DEF Same
<1>5. ASSUME UNCHANGED vars, NEW r \in Runs
      PROVE  Same(r)
  BY <1>5 DEF vars, Same
<1> QED
  BY <1>2, <1>3, <1>4, <1>5, NothingShown

LEMMA SweepShown ==
  ASSUME IInv, Sweep
  PROVE  [Promise!Next]_(Promise!vars)
<1> DEFINE S == {r \in Runs : Swept(r)}
<1>1. \A r \in Runs : /\ run'[r] = (IF r \in S THEN SweptRow(run[r]) ELSE run[r])
                       /\ task'[r] = task[r]
  BY DEF Sweep
<1>0. S \subseteq Runs
  OBVIOUS
<1>2. ASSUME NEW r \in S
      PROVE  /\ Exists(r) /\ run[r].status \in Active /\ run'[r] # None
             /\ run'[r].status = "interrupted"
             /\ run'[r].conv = run[r].conv /\ run'[r].request = run[r].request
             /\ run'[r].owned = run[r].owned /\ run'[r].cancel = run[r].cancel
  <2>1. /\ Exists(r) /\ run[r].status \in Active /\ run[r] \in Row
        /\ run'[r] = SweptRow(run[r])
    BY <1>1, <1>2, Here DEF Swept, Has
  <2>2. PICK d \in Row :
          /\ d = Ended(run[r], "interrupted") /\ d.status = "interrupted"
          /\ d.conv = run[r].conv /\ d.request = run[r].request
          /\ d.owned = run[r].owned /\ d.cancel = run[r].cancel
    BY <2>1, EndedRow DEF Ends
  <2>3. run'[r] = Logged(d, "RUN_INTERRUPTED")
    BY <2>1, <2>2 DEF SweptRow
  <2> QED
    BY <2>1, <2>2, <2>3, LoggedRow, NoneAssumption DEF EndEvents
<1> HIDE DEF S
<1>3. Statuses' = [r \in Runs |-> IF r \in S THEN "interrupted" ELSE Statuses[r]]
  BY <1>1, <1>2 DEF Statuses, Exists
<1>4. UNCHANGED <<Places, Wishes>>
  BY <1>1, <1>2 DEF Places, Wishes, Exists
<1>5. UNCHANGED <<Begun, Stops, Reports>>
  BY <1>1, <1>2 DEF Begun, Stops, Reports, Exists
<1>6. S \in SUBSET Runs /\ \A r \in S : Statuses[r] \in Active
  BY <1>2 DEF Statuses, S
<1>7. Promise!Interrupt(S)
  BY <1>3, <1>4, <1>5, <1>6 DEF Promise!Interrupt, Promise!Active, Active
<1> QED
  BY <1>6, <1>7 DEF Promise!Next

LEMMA DeletionShown ==
  ASSUME IInv, NEW c \in Conversations, DeleteConversation(c)
  PROVE  [Promise!Next]_(Promise!vars)
<1> DEFINE S == {r \in Runs : Places[r] = c}
<1>1. \A r \in Runs : r \in S <=> Exists(r) /\ run[r].conv = c
  BY ConstantsAssumption DEF Places
<1>2. \A r \in Runs : run'[r] = (IF r \in S THEN None ELSE run[r]) /\ task'[r] = task[r]
  BY <1>1 DEF DeleteConversation
<1>3. \A r \in S : Statuses[r] \notin Active /\ task[r].pc # "none"
  BY <1>1, Here DEF DeleteConversation, Busy, Has, Statuses, Agree, Ownership, S
<1> HIDE DEF S
<1>4. Statuses' = [r \in Runs |-> IF r \in S THEN "gone" ELSE Statuses[r]]
  BY <1>2, <1>3 DEF Statuses, Exists
<1>5. /\ Places' = [r \in Runs |-> IF r \in S THEN None ELSE Places[r]]
      /\ Wishes' = [r \in Runs |-> IF r \in S THEN None ELSE Wishes[r]]
  BY <1>2 DEF Places, Wishes, Exists
<1>6. Begun' = Begun \ S /\ Stops' = Stops \ S /\ Reports' = Reports
  <2>1. Begun' = Begun \ S
    BY <1>2 DEF Begun, Exists
  <2>2. Stops' = Stops \ S
    BY <1>2 DEF Stops, Exists
  <2>3. Reports' = Reports
    BY <1>2 DEF Reports
  <2> QED
    BY <2>1, <2>2, <2>3
<1>7. Promise!Forget(c)
  BY <1>3, <1>4, <1>5, <1>6 DEF Promise!Forget, Promise!Active, Active, S
<1> QED
  BY <1>7 DEF Promise!Next

LEMMA StepShown == IInv /\ [Next]_vars => [Promise!Next]_(Promise!vars)
<1> SUFFICES ASSUME IInv, [Next]_vars PROVE [Promise!Next]_(Promise!vars)
  OBVIOUS
<1>1. ASSUME NEW r \in Runs, Request(r) \/ Run(r)
      PROVE  [Promise!Next]_(Promise!vars)
  BY <1>1, RequestShown, RunShown
<1>2. ASSUME NEW p \in Procs, Cancel(p)
      PROVE  [Promise!Next]_(Promise!vars)
  BY <1>2, CancelShown
<1>3. ASSUME NEW c \in Conversations, DeleteConversation(c)
      PROVE  [Promise!Next]_(Promise!vars)
  BY <1>3, DeletionShown
<1>4. CASE Sweep
  BY <1>4, SweepShown
<1>5. CASE \/ \E s \in Runs : Watchdog(s) \/ LeaseLapses(s)
           \/ \E p \in Procs : Crash(p)
           \/ UNCHANGED vars
  BY <1>5, QuietShown
<1> QED
  BY <1>1, <1>2, <1>3, <1>4, <1>5 DEF Next

\* Whatever requests, tasks, watchdogs, cancellations, sweeps and crashes do in
\* whatever order, for the owner who looks at the runs each step is one that
\* RunPromise allows, or changes nothing that is shown
\* (append_user_message_and_create_run, execute_run, service.cancel,
\* mark_stale_runs_interrupted, delete_conversation).
THEOREM RunPromiseKept == Spec => KeepsRunPromise
<1>1. Init => Promise!Init
  <2> SUFFICES ASSUME Init PROVE Promise!Init
    OBVIOUS
  <2>1. \A r \in Runs : run[r] = None /\ task[r].pc = "none" /\ task[r].told = {}
    BY DEF Init, NoRow, NoTask
  <2>2. Statuses = [r \in Runs |-> "new"] /\ Reports = [r \in Runs |-> {}]
    BY <2>1 DEF Statuses, Reports, Exists
  <2>3. Places = [r \in Runs |-> None] /\ Wishes = [r \in Runs |-> None]
    BY <2>1 DEF Places, Wishes, Exists
  <2>4. Begun = {} /\ Stops = {}
    BY <2>1 DEF Begun, Stops, Exists
  <2> QED
    BY <2>2, <2>3, <2>4 DEF Promise!Init
<1> QED
  BY <1>1, StepShown, Invariant, PTL DEF Spec, KeepsRunPromise, Promise!Spec

\* Once the worker that claimed a run has written how it ended, no sweep, no
\* cancel request and no second handler writes another end
\* (set_run_status, which does not look at the current status).
THEOREM OwnEndLasts == Spec =>
  [][\A r \in Runs :
       /\ Has(r, {"succeeded", "failed", "cancelled"}) /\ run[r].owned /\ run'[r] # None
       => run'[r].status = run[r].status]_vars
<1>1. ASSUME IInv, [Next]_vars, NEW r \in Runs,
             Has(r, {"succeeded", "failed", "cancelled"}), run[r].owned, run'[r] # None
      PROVE  run'[r].status = run[r].status
  <2>1. /\ Statuses[r] = run[r].status /\ Statuses'[r] = run'[r].status
        /\ r \in Begun
    BY <1>1 DEF Has, Exists, Statuses, Begun
  <2>2. run'[r] \in Row
    BY <1>1, NextOK DEF IInv, TypeOK
  <2>3. Statuses'[r] # "gone"
    BY <2>1, <2>2 DEF Row, Active, Ends
  <2>4. ~Promise!Open(r) /\ Statuses[r] \notin {"new", "queued", "running"}
    BY <1>1, <2>1 DEF Has, Promise!Open, Promise!Active
  <2>5. CASE UNCHANGED Promise!vars
    BY <2>1, <2>5 DEF Promise!vars
  <2>6. CASE Promise!Next
    BY <2>1, <2>3, <2>4, <2>6
       DEF Promise!Next, Promise!Accept, Promise!Ask, Promise!Start, Promise!Succeed,
           Promise!Fail, Promise!Cancel, Promise!Report, Promise!Forget,
           Promise!Interrupt, Promise!Shows, Promise!Active, Statuses
  <2> QED
    BY <1>1, <2>5, <2>6, StepShown
<1>2. IInv /\ [Next]_vars =>
        [\A r \in Runs :
          /\ Has(r, {"succeeded", "failed", "cancelled"}) /\ run[r].owned /\ run'[r] # None
          => run'[r].status = run[r].status]_vars
  BY <1>1
<1> QED
  BY <1>2, Invariant, PTL DEF Spec

\* A conversation has one run at work at a time, so that what a run reads of it is
\* not written by another one meanwhile. The promise alone gives it: a run that left
\* the active statuses never returns to them
\* (append_user_message_and_create_run, set_run_status).
OneAtWork == \A r, s \in Runs :
  /\ Has(r, Active) /\ Has(s, Active) /\ run[r].conv = run[s].conv
  => r = s

\* The same, of what the promise shows.
AtWork(r) == Statuses[r] \in Active
Apart == \A r, s \in Runs : AtWork(r) /\ AtWork(s) /\ Places[r] = Places[s] => r = s

LEMMA ApartIs ==
  /\ (OneAtWork <=> Apart)
  /\ (OneAtWork' <=> Apart')
<1>1. \A r \in Runs : /\ (AtWork(r) <=> Has(r, Active))
                       /\ (Has(r, Active) => Places[r] = run[r].conv)
  BY DEF AtWork, Has, Exists, Statuses, Places, Active
<1>2. \A r \in Runs : /\ (AtWork(r)' <=> Has(r, Active)')
                       /\ (Has(r, Active)' => Places'[r] = run'[r].conv)
  BY DEF AtWork, Has, Exists, Statuses, Places, Active
<1>3. OneAtWork <=> Apart
  BY <1>1 DEF OneAtWork, Apart
<1>4. OneAtWork' <=> Apart'
  BY <1>2 DEF OneAtWork, Apart
<1> QED
  BY <1>3, <1>4

THEOREM OneRunAtATime == Spec => []OneAtWork
<1>1. Init => OneAtWork
  BY DEF Init, NoRow, OneAtWork, Has, Exists
<1>2. IInv /\ OneAtWork /\ [Next]_vars => OneAtWork'
  <2> SUFFICES ASSUME IInv, OneAtWork, [Next]_vars PROVE OneAtWork'
    OBVIOUS
  <2>2. Apart
    BY ApartIs
  <2>3. \/ UNCHANGED <<Statuses, Places>>
        \/ \E r \in Runs :
             /\ \E c \in Conversations :
                  /\ \A s \in Runs : Places[s] = c => Statuses[s] \notin Active
                  /\ Places' = [Places EXCEPT ![r] = c]
             /\ Statuses' = [Statuses EXCEPT ![r] = "queued"]
        \/ \A r \in Runs : Statuses'[r] \in Active =>
             Statuses[r] \in Active /\ Places'[r] = Places[r]
    <3>1. CASE \E r, m \in Runs, c \in Conversations : Promise!Accept(r, c, m)
      BY <3>1 DEF Promise!Accept, Promise!Shows, Promise!Active, Active
    <3>2. CASE \E r \in Runs : Promise!Ask(r) \/ Promise!Report(r)
      BY <3>2 DEF Promise!Ask, Promise!Report
    <3>3. CASE \E r \in Runs : \/ Promise!Start(r) \/ Promise!Succeed(r)
                              \/ Promise!Fail(r) \/ Promise!Cancel(r)
      BY <3>3 DEF Promise!Start, Promise!Succeed, Promise!Fail, Promise!Cancel,
         Promise!Shows, Active, Statuses
    <3>4. CASE \E c \in Conversations : Promise!Forget(c)
      BY <3>4 DEF Promise!Forget, Active
    <3>5. CASE \E S \in SUBSET Runs : Promise!Interrupt(S)
      BY <3>5 DEF Promise!Interrupt, Active
    <3>6. CASE UNCHANGED Promise!vars
      BY <3>6 DEF Promise!vars
    <3> QED
      BY <3>1, <3>2, <3>3, <3>4, <3>5, <3>6, StepShown DEF Promise!Next
  <2>4. Apart'
    <3>1. DOMAIN Statuses = Runs /\ DOMAIN Places = Runs
      BY DEF Statuses, Places
    <3> QED
      BY <2>2, <2>3, <3>1 DEF Apart, AtWork, Active
  <2> QED
    BY <2>4, ApartIs
<1> QED
  BY <1>1, <1>2, Invariant, PTL DEF Spec
=============================================================================
