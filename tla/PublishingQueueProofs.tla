------------------------ MODULE PublishingQueueProofs ------------------------
(***************************************************************************)
(* The types, the inductive invariant of PublishingQueue and what follows   *)
(* from it, for every set of posts, parts, versions, workers and accounts:  *)
(* nothing is handed to Telegram twice, what is shown as failed may be      *)
(* retried, what is shown as published was published, the steps are those   *)
(* that SchedulePromise allows, and what is shown of a post is true of      *)
(* Telegram.                                                                *)
(*                                                                         *)
(* The argument. A worker that transfers a post is the only one, and its    *)
(* post's status says so (SendInv); a lapsed lease never makes the row      *)
(* claimable again, it ends the command. So what a sender has not sent was  *)
(* never sent by anyone. Lemmas after the types say how the parts of the    *)
(* invariant that speak of one row, one worker or the network survive a     *)
(* step that leaves most of the state alone; each action then has to        *)
(* account only for what it changes.                                        *)
(***************************************************************************)
EXTENDS PublishingQueue, TLAPS

-----------------------------------------------------------------------------
(* Types. One lemma per group of actions; the lemmas on rows and locals say *)
(* what the shared updates return.                                          *)

(* The initial values of the worker's local variables have their types. *)
LEMMA EmptyTypes ==
  /\ AnyContent \in [Parts -> Contents]
  /\ EmptyHistory \in History
  /\ NoNotice \in Notice
BY ConstantsAssumption DEF AnyContent, EmptyHistory, History, NoNotice, Notice

(* A row before its insertion is typed. *)
LEMMA NewRowType == NewRow \in Row
BY EmptyTypes DEF NewRow, Row, Statuses, Actions

(* A worker that just started, was stopped or released the lock is typed. *)
LEMMA AtType ==
  ASSUME NEW s \in Accounts \cup {None}, NEW a \in Accounts \cup {None},
         NEW pc \in {"idle", "down", "check"}
  PROVE  At(pc, s, a) \in Local
BY EmptyTypes DEF At, Local, ProcessSteps, BatchSteps

(* A revision bump keeps the locals typed. *)
LEMMA BumpType ==
  ASSUME NEW f \in [Workers -> Local], NEW S
  PROVE  Bump(f, S) \in [Workers -> Local]
<1> SUFFICES ASSUME NEW w \in Workers
             PROVE  [f[w] EXCEPT !.todo = @ \ S] \in Local
  BY DEF Bump
<1> QED BY DEF Local

(* save_parts and finish return rows. *)
LEMMA SavePartsType ==
  ASSUME NEW r \in Row, NEW w \in Workers, NEW have \in SUBSET Parts,
         NEW seen \in [Parts -> Contents \cup {None}]
  PROVE  SaveParts(r, w, have, seen) \in Row
BY DEF SaveParts, Row

LEMMA FinishType ==
  ASSUME NEW r \in Row, NEW w \in Workers, NEW s \in Statuses,
         NEW snap \in [Parts -> Contents]
  PROVE  Finish(r, w, s, snap) \in Row
BY DEF Finish, Row

(* The worker moves to another step of process. *)
LEMMA StepType ==
  ASSUME TypeOK, NEW w \in Workers, NEW pc \in ProcessSteps, Step(w, pc)
  PROVE  wk' \in [Workers -> Local]
<1>1. [wk[w] EXCEPT !.pc = pc] \in Local
  BY DEF TypeOK, Local
<1>2. QED BY <1>1 DEF TypeOK, Step

LEMMA FailsType ==
  ASSUME TypeOK, NEW w \in Workers, Fails(w) \/ FailsAtRisk(w)
  PROVE  row' \in [Posts -> Row] /\ wk' \in [Workers -> Local] /\ net' = net /\ asks' = asks
<1>1. CASE Fails(w)
  BY <1>1, StepType DEF Fails, TypeOK, ProcessSteps
<1>2. CASE FailsAtRisk(w)
  <2>1. [wk[w] EXCEPT !.pc = "fail", !.risky = TRUE] \in Local
    BY DEF TypeOK, Local, ProcessSteps
  <2>2. QED BY <1>2, <2>1 DEF FailsAtRisk, TypeOK
<1>3. QED BY <1>1, <1>2

(* After finish the worker is idle and the batches forgot the post. *)
LEMMA FinishedType ==
  ASSUME TypeOK, NEW w \in Workers, NEW p
  PROVE  Finished(wk, w, p) \in [Workers -> Local]
<1>1. At("idle", wk[w].session, wk[w].account) \in Local
  BY AtType DEF TypeOK, Local
<1>2. [wk EXCEPT ![w] = At("idle", @.session, @.account)] \in [Workers -> Local]
  BY <1>1 DEF TypeOK
<1>3. QED BY <1>2, BumpType DEF Finished

(* Requests the worker stopped waiting for are requests. *)
LEMMA OrphanedType ==
  ASSUME TypeOK, NEW w \in Workers
  PROVE  Orphaned(w) \subseteq Request
BY DEF TypeOK, Orphaned, Request

-----------------------------------------------------------------------------
(* The owner's commands *)

LEMMA CommandType ==
  ASSUME TypeOK, NEW p \in Posts, Command(p), row' \in [Posts -> Row],
         resolved' \subseteq Posts
  PROVE  TypeOK'
<1>1. wk' \in [Workers -> Local]
  BY BumpType DEF TypeOK, Command
<1>2. commands' \in Nat
  BY DEF TypeOK, Command
<1>3. QED BY <1>1, <1>2 DEF TypeOK, Command, telegram

LEMMA OwnerType == ASSUME TypeOK, Owner PROVE TypeOK'
<1> SUFFICES ASSUME NEW p \in Posts, NEW c \in Contents,
                    \/ CommandCancelQueued(p) \/ CommandCancel(p) \/ Resolve(p)
                    \/ Create(p, c) \/ Retry(p, c) \/ CommandUpdate(p, c)
             PROVE  TypeOK'
  BY ConstantsAssumption DEF Owner
<1>1. CASE CommandCancelQueued(p)
  <2>1. [row[p] EXCEPT !.status = "cancelled", !.action = None] \in Row
    BY DEF TypeOK, Row, Statuses
  <2>2. QED BY <1>1, <2>1, CommandType DEF CommandCancelQueued, TypeOK
<1>2. CASE CommandCancel(p)
  <2>1. [row[p] EXCEPT !.status = "cancelling", !.action = "cancel",
                       !.pend = None] \in Row
    BY DEF TypeOK, Row, Statuses, Actions
  <2>2. QED BY <1>2, <2>1, CommandType DEF CommandCancel, TypeOK
<1>3. CASE Resolve(p)
  <2>1. [row[p] EXCEPT !.status = "cancelled"] \in Row
    BY DEF TypeOK, Row, Statuses
  <2>2. QED BY <1>3, <2>1, CommandType DEF Resolve, TypeOK
<1>4. CASE Create(p, c)
  <2>1. permission \in Accounts \cup {None} /\ [x \in Parts |-> c] \in [Parts -> Contents]
    BY DEF TypeOK
  <2>2. [NewRow EXCEPT !.status = "queued", !.action = "schedule",
                       !.snap = [x \in Parts |-> c], !.account = permission] \in Row
    BY <2>1, NewRowType DEF Row, Statuses, Actions
  <2>3. QED BY <1>4, <2>2 DEF Create, TypeOK, telegram, owner
<1>5. CASE Retry(p, c)
  <2>1. [row[p] EXCEPT !.status = "queued", !.action = "schedule",
                       !.snap = [x \in Parts |-> c]] \in Row
    BY DEF TypeOK, Row, Statuses, Actions
  <2>2. QED BY <1>5, <2>1, CommandType DEF Retry, TypeOK
<1>6. CASE CommandUpdate(p, c)
  <2>1. [row[p] EXCEPT !.status = "updating", !.action = "update", !.pend = c] \in Row
    BY DEF TypeOK, Row, Statuses, Actions
  <2>2. QED BY <1>6, <2>1, CommandType DEF CommandUpdate, TypeOK
<1>7. QED BY <1>1, <1>2, <1>3, <1>4, <1>5, <1>6

-----------------------------------------------------------------------------
(* Start, crash, permissions, leases *)

LEMMA EnvironmentType == ASSUME TypeOK, Environment PROVE TypeOK'
<1>1. CASE PermissionAges
  BY <1>1 DEF PermissionAges, TypeOK, telegram, owner
<1>2. ASSUME NEW p \in Posts, LeaseLapses(p) PROVE TypeOK'
  <2>1. [row[p] EXCEPT !.lapsed = TRUE] \in Row
    BY DEF TypeOK, Row
  <2>2. QED BY <1>2, <2>1 DEF LeaseLapses, TypeOK, telegram, owner
<1>3. ASSUME NEW w \in Workers, Start(w) PROVE TypeOK'
  <2>1. PICK s \in Accounts : \E a \in {s, None} :
               wk' = [wk EXCEPT ![w] = At("idle", s, a)]
    BY <1>3 DEF Start
  <2>2. PICK a \in {s, None} : wk' = [wk EXCEPT ![w] = At("idle", s, a)]
    BY <2>1
  <2>3. At("idle", s, a) \in Local
    BY AtType
  <2>4. QED BY <1>3, <2>2, <2>3 DEF Start, TypeOK, telegram, owner
<1>4. ASSUME NEW w \in Workers, Crash(w) PROVE TypeOK'
  <2>1. At("down", None, None) \in Local
    BY AtType
  <2>2. net' \subseteq Request
    BY <1>4, OrphanedType DEF Crash
  <2>3. QED BY <1>4, <2>1, <2>2 DEF Crash, TypeOK, telegram, owner
<1>5. QED BY <1>1, <1>2, <1>3, <1>4 DEF Environment

(* What claim hands to process is typed: a pending update has a value. *)
LEMMA ClaimedType ==
  ASSUME TypeOK, PendingInv, NEW w \in Workers, NEW p \in Posts,
         row[p].action # None
  PROVE  Claimed(w, p) \in Local
<1> DEFINE act == row[p].action
           goal == IF act = "update" THEN [x \in Parts |-> row[p].pend]
                                     ELSE row[p].snap
           left == IF act = "update" THEN PartsOf(p) ELSE {}
           risky == row[p].ids # {} \/ act # "schedule"
<1>1. At("check", wk[w].session, wk[w].account) \in Local
  BY AtType DEF TypeOK, Local
<1>2. row[p] \in Row
  BY DEF TypeOK
<1>3. goal \in [Parts -> Contents]
  BY <1>2 DEF Row, PendingInv
<1>4. left \in SUBSET Parts /\ risky \in BOOLEAN /\ act \in Actions \cup {None}
        /\ row[p].ids \in SUBSET Parts
  BY <1>2 DEF Row, PartsOf
<1> HIDE DEF act, goal, left, risky
<1>5. [At("check", wk[w].session, wk[w].account) EXCEPT
         !.job = p, !.act = act, !.have = row[p].ids, !.goal = goal,
         !.risky = risky, !.left = left] \in Local
  BY <1>1, <1>3, <1>4 DEF Local
<1>6. QED BY <1>5 DEF Claimed, act, goal, left, risky

(* Expiry and claim return rows. *)
LEMMA ExpiredRowType ==
  ASSUME NEW r \in Row
  PROVE  ExpiredRow(r) \in Row
BY DEF ExpiredRow, Row, Statuses

LEMMA ClaimedRowType ==
  ASSUME NEW r \in Row, NEW w \in Workers
  PROVE  ClaimedRow(r, w) \in Row
<1> DEFINE s == IF r.action = "schedule" THEN "transferring" ELSE r.status
<1>1. s \in Statuses \cup {"absent"}
  BY DEF Row, Statuses
<1> HIDE DEF s
<1>2. [r EXCEPT !.lease = w, !.lapsed = FALSE, !.status = s] \in Row
  BY <1>1 DEF Row
<1>3. QED BY <1>2 DEF ClaimedRow, s

LEMMA ClaimType == ASSUME TypeOK, PendingInv, NEW w \in Workers, Claim(w) PROVE TypeOK'
<1>1. \A p \in Posts : ExpiredRow(row[p]) \in Row
  BY ExpiredRowType DEF TypeOK
<1>2. \A p \in Posts : ClaimedRow(row[p], w) \in Row
  BY ClaimedRowType DEF TypeOK
<1>3. row' \in [Posts -> Row]
  <2>1. \A p \in Posts : row[p] \in Row
    BY DEF TypeOK
  <2>2. Oldest(Claimable) \subseteq Posts
    BY DEF Oldest, Claimable
  <2>3. \/ row' = [p \in Posts |-> IF p \in Expired THEN ExpiredRow(row[p]) ELSE row[p]]
        \/ \E q \in Posts : row' = [p \in Posts |-> IF p \in Expired THEN ExpiredRow(row[p])
                                               ELSE IF p = q THEN ClaimedRow(row[p], w)
                                               ELSE row[p]]
    BY <2>2 DEF Claim
  <2>4. QED BY <1>1, <1>2, <2>1, <2>3
<1>4. CASE wk' = Bump(wk, Expired)
  BY <1>3, <1>4, BumpType DEF Claim, TypeOK, telegram, owner
<1>5. ASSUME NEW q \in Oldest(Claimable), wk' = Bump([wk EXCEPT ![w] = Claimed(w, q)], Expired)
      PROVE  TypeOK'
  <2>1. q \in Posts /\ row[q].action # None
    BY DEF Oldest, Claimable
  <2>2. [wk EXCEPT ![w] = Claimed(w, q)] \in [Workers -> Local]
    BY <2>1, ClaimedType DEF TypeOK
  <2>3. wk' \in [Workers -> Local]
    BY <1>5, <2>2, BumpType
  <2>4. QED BY <1>3, <2>3 DEF Claim, TypeOK, telegram, owner
<1>6. QED BY <1>4, <1>5 DEF Claim

-----------------------------------------------------------------------------
(* The steps of process *)

(* A step that changes only row and wk, both within their types. *)
LEMMA ProcessStepType ==
  ASSUME TypeOK, row' \in [Posts -> Row], wk' \in [Workers -> Local],
         net' \subseteq Request, asks' \in [Parts -> Nat], OnlyRows
  PROVE  TypeOK'
BY DEF TypeOK, OnlyRows, telegram, owner

LEMMA UnitType ==
  ASSUME NEW w \in Workers
  PROVE  Unit(w) \subseteq Parts
BY DEF Unit, PartsOf, Oldest

LEMMA AskType ==
  ASSUME TypeOK, NEW w \in Workers, NEW op \in {"send", "edit", "delete"},
         NEW parts \in SUBSET Parts, Ask(w, op, parts)
  PROVE  row' \in [Posts -> Row] /\ wk' \in [Workers -> Local] /\ net' \subseteq Request
<1>1. [wk[w] EXCEPT !.pc = "await", !.risky = TRUE] \in Local
  BY DEF TypeOK, Local, ProcessSteps
<1>2. wk[w].goal \in [Parts -> Contents]
  BY DEF TypeOK, Local
<1>3. [op |-> op, parts |-> parts, text |-> wk[w].goal, by |-> w] \in Request
  BY <1>2 DEF Request
<1>4. QED BY <1>1, <1>3 DEF Ask, TypeOK

(* Saving the ids and texts of a unit keeps the rows typed. *)
LEMMA SeenType ==
  ASSUME TypeOK, NEW w \in Workers, NEW p \in Posts, NEW S
  PROVE  [x \in Parts |-> IF x \in S THEN wk[w].goal[x] ELSE row[p].seen[x]]
           \in [Parts -> Contents \cup {None}]
<1>1. row[p].seen \in [Parts -> Contents \cup {None}] /\ wk[w].goal \in [Parts -> Contents]
  BY DEF TypeOK, Row, Local
<1>2. QED BY <1>1

LEMMA SaveUnitType ==
  ASSUME TypeOK, NEW w \in Workers, NEW p, NEW have \in SUBSET Parts, NEW seen,
         p \in Posts => seen \in [Parts -> Contents \cup {None}],
         row' = [row EXCEPT ![p] = SaveParts(@, w, have, seen)]
  PROVE  row' \in [Posts -> Row]
<1>1. CASE p \in Posts
  <2>1. SaveParts(row[p], w, have, seen) \in Row
    BY <1>1, SavePartsType DEF TypeOK
  <2>2. QED BY <2>1 DEF TypeOK
<1>2. CASE p \notin Posts
  BY <1>2 DEF TypeOK
<1>3. QED BY <1>1, <1>2

LEMMA FinishJobType ==
  ASSUME TypeOK, NEW w \in Workers, NEW s \in Statuses, NEW snap,
         wk[w].job \in Posts => snap \in [Parts -> Contents],
         FinishJob(w, s, snap)
  PROVE  row' \in [Posts -> Row] /\ wk' \in [Workers -> Local]
<1>1. wk' \in [Workers -> Local]
  BY FinishedType DEF FinishJob
<1>2. CASE wk[w].job \in Posts
  <2>1. Finish(row[wk[w].job], w, s, snap) \in Row
    BY <1>2, FinishType DEF TypeOK
  <2>2. QED BY <1>1, <2>1 DEF FinishJob, TypeOK
<1>3. CASE wk[w].job \notin Posts
  BY <1>1, <1>3 DEF FinishJob, TypeOK
<1>4. QED BY <1>2, <1>3

LEMMA PreflightType == ASSUME TypeOK, NEW w \in Workers, Preflight(w) PROVE TypeOK'
<1>1. permission' \in Accounts \cup {None}
  BY DEF Preflight, TypeOK, Local
<1>2. CASE Fails(w)
  BY <1>1, <1>2, FailsType DEF Preflight, TypeOK, telegram, owner
<1>3. CASE Step(w, FirstStep(wk[w].act)) /\ UNCHANGED <<row, net, asks>>
  <2>1. FirstStep(wk[w].act) \in ProcessSteps
    BY DEF FirstStep, ProcessSteps
  <2>2. wk' \in [Workers -> Local]
    BY <1>3, <2>1, StepType
  <2>3. QED BY <1>1, <1>3, <2>2 DEF Preflight, TypeOK, telegram, owner
<1>4. QED BY <1>2, <1>3 DEF Preflight

LEMMA SendType == ASSUME TypeOK, NEW w \in Workers, Send(w) PROVE TypeOK'
<1>1. CASE FailsAtRisk(w)
  BY <1>1, FailsType, ProcessStepType DEF Send, TypeOK
<1>2. CASE Ask(w, "send", Unit(w)) /\ asks' = [x \in Parts |->
                                      IF x \in Unit(w) THEN asks[x] + 1 ELSE asks[x]]
  <2>1. asks' \in [Parts -> Nat]
    BY <1>2 DEF TypeOK
  <2>2. QED BY <1>2, <2>1, AskType, UnitType, ProcessStepType DEF Send
<1>3. QED BY <1>1, <1>2 DEF Send

LEMMA AcceptedType == ASSUME TypeOK, NEW w \in Workers, Accepted(w) PROVE TypeOK'
<1> DEFINE p == wk[w].job
           have == wk[w].have \cup Unit(w)
           seen == [x \in Parts |-> IF x \in Unit(w) THEN wk[w].goal[x] ELSE row[p].seen[x]]
           pc == IF PartsOf(p) \subseteq have THEN "confirm" ELSE "send"
<1>1. have \in SUBSET Parts /\ pc \in ProcessSteps
  BY UnitType DEF TypeOK, Local, ProcessSteps
<1>2. p \in Posts => seen \in [Parts -> Contents \cup {None}]
  BY SeenType
<1>3. /\ row' = [row EXCEPT ![p] = SaveParts(@, w, have, seen)]
      /\ wk' = [wk EXCEPT ![w] = [@ EXCEPT !.have = have, !.pc = pc]]
  BY DEF Accepted
<1> HIDE DEF p, have, seen, pc
<1>4. row' \in [Posts -> Row]
  BY <1>1, <1>2, <1>3, SaveUnitType
<1>5. [wk[w] EXCEPT !.have = have, !.pc = pc] \in Local
  BY <1>1 DEF TypeOK, Local
<1>6. wk' \in [Workers -> Local]
  BY <1>3, <1>5 DEF TypeOK
<1>7. QED BY <1>4, <1>6, ProcessStepType DEF Accepted, TypeOK

LEMMA EditType == ASSUME TypeOK, NEW w \in Workers, Edit(w) PROVE TypeOK'
<1>1. CASE FailsAtRisk(w)
  BY <1>1, FailsType, ProcessStepType DEF Edit, TypeOK
<1>2. CASE Ask(w, "edit", Oldest(wk[w].left)) /\ UNCHANGED asks
  <2>1. Oldest(wk[w].left) \in SUBSET Parts
    BY DEF Oldest, TypeOK, Local
  <2>2. QED BY <1>2, <2>1, AskType, ProcessStepType DEF Edit, TypeOK
<1>3. QED BY <1>1, <1>2 DEF Edit

LEMMA VerifyType == ASSUME TypeOK, NEW w \in Workers, Verify(w) PROVE TypeOK'
<1> DEFINE p == wk[w].job
           unit == Oldest(wk[w].left)
           left == wk[w].left \ unit
           seen == [x \in Parts |-> IF x \in unit THEN wk[w].goal[x] ELSE row[p].seen[x]]
           pc == IF left = {} THEN "confirm" ELSE "edit"
<1>1. CASE Fails(w)
  BY <1>1, FailsType, ProcessStepType DEF Verify, TypeOK
<1>2. CASE /\ row' = [row EXCEPT ![p] = SaveParts(@, w, wk[w].have, seen)]
           /\ wk' = [wk EXCEPT ![w] = [@ EXCEPT !.left = left, !.pc = pc]]
           /\ UNCHANGED <<net, asks>>
  <2>1. left \in SUBSET Parts /\ pc \in ProcessSteps /\ wk[w].have \in SUBSET Parts
    BY DEF TypeOK, Local, ProcessSteps
  <2>2. p \in Posts => seen \in [Parts -> Contents \cup {None}]
    BY SeenType
  <2> HIDE DEF p, left, pc, seen
  <2>3. row' \in [Posts -> Row]
    BY <1>2, <2>1, <2>2, SaveUnitType
  <2>4. [wk[w] EXCEPT !.left = left, !.pc = pc] \in Local
    BY <2>1 DEF TypeOK, Local
  <2>5. wk' \in [Workers -> Local]
    BY <1>2, <2>4 DEF TypeOK
  <2>6. QED BY <1>2, <2>3, <2>5, ProcessStepType DEF Verify, TypeOK
<1>3. QED BY <1>1, <1>2 DEF Verify

LEMMA CancelType == ASSUME TypeOK, NEW w \in Workers, Cancel(w) PROVE TypeOK'
<1>1. CASE FailsAtRisk(w)
  BY <1>1, FailsType, ProcessStepType DEF Cancel, TypeOK
<1>2. CASE Ask(w, "delete", PartsOf(wk[w].job)) /\ UNCHANGED asks
  <2>1. PartsOf(wk[w].job) \in SUBSET Parts
    BY DEF PartsOf
  <2>2. QED BY <1>2, <2>1, AskType, ProcessStepType DEF Cancel, TypeOK
<1>3. QED BY <1>1, <1>2 DEF Cancel

LEMMA EndType ==
  ASSUME TypeOK, NEW w \in Workers, Gone(w) \/ Confirm(w) \/ Timeout(w) \/ Fail(w)
  PROVE  TypeOK'
<1>1. CASE Fails(w) /\ OnlyRows
  BY <1>1, FailsType, ProcessStepType DEF TypeOK
<1>2. CASE FinishJob(w, "cancelled", row[wk[w].job].snap) /\ OnlyRows
  <2>1. wk[w].job \in Posts => row[wk[w].job].snap \in [Parts -> Contents]
    BY DEF TypeOK, Row
  <2>2. row' \in [Posts -> Row] /\ wk' \in [Workers -> Local]
    BY <1>2, <2>1, FinishJobType DEF Statuses
  <2>3. QED BY <1>2, <2>2, ProcessStepType DEF FinishJob, TypeOK
<1>3. CASE FinishJob(w, "scheduled", wk[w].goal) /\ OnlyRows
  <2>1. wk[w].goal \in [Parts -> Contents]
    BY DEF TypeOK, Local
  <2>2. row' \in [Posts -> Row] /\ wk' \in [Workers -> Local]
    BY <1>3, <2>1, FinishJobType DEF Statuses
  <2>3. QED BY <1>3, <2>2, ProcessStepType DEF FinishJob, TypeOK
<1>4. CASE Timeout(w)
  <2>1. wk' \in [Workers -> Local]
    BY <1>4, StepType DEF Timeout, ProcessSteps
  <2>2. net' \subseteq Request
    BY <1>4, OrphanedType DEF Timeout
  <2>3. QED BY <1>4, <2>1, <2>2, ProcessStepType DEF Timeout, TypeOK
<1>5. CASE Fail(w)
  <2> DEFINE p == wk[w].job
             s == IF wk[w].risky THEN "needs_review" ELSE "failed"
             saved == SaveParts(row[p], w, wk[w].have, row[p].seen)
  <2>1. wk' \in [Workers -> Local]
    BY <1>5, FinishedType DEF Fail
  <2>2. row' = [row EXCEPT ![p] = Finish(saved, w, s, row[p].snap)]
    BY <1>5 DEF Fail
  <2>3. CASE p \in Posts
    <3>1. saved \in Row
      BY <2>3, SavePartsType DEF TypeOK, Row, Local
    <3>2. s \in Statuses /\ row[p].snap \in [Parts -> Contents]
      BY <2>3 DEF Statuses, TypeOK, Row
    <3> HIDE DEF saved, s, p
    <3>3. Finish(saved, w, s, row[p].snap) \in Row
      BY <3>1, <3>2, FinishType
    <3>4. row' \in [Posts -> Row]
      BY <2>2, <3>3 DEF TypeOK
    <3>5. QED BY <1>5, <2>1, <3>4, ProcessStepType DEF Fail, TypeOK
  <2>4. CASE p \notin Posts
    BY <1>5, <2>1, <2>2, <2>4, ProcessStepType DEF Fail, TypeOK
  <2>5. QED BY <2>3, <2>4
<1>6. QED BY <1>1, <1>2, <1>3, <1>4, <1>5 DEF Gone, Confirm

LEMMA ProcessType == ASSUME TypeOK, NEW w \in Workers, Process(w) PROVE TypeOK'
BY PreflightType, SendType, AcceptedType, EditType, VerifyType, CancelType, EndType
   DEF Process

-----------------------------------------------------------------------------
(* Telegram *)

LEMMA ReplyType ==
  ASSUME TypeOK, NEW r \in net, NEW pc \in ProcessSteps, Reply(r, pc)
  PROVE  wk' \in [Workers -> Local] /\ net' \subseteq Request
<1>1. net' \subseteq Request
  BY DEF Reply, TypeOK
<1>2. CASE r.by = None
  BY <1>1, <1>2 DEF Reply, TypeOK
<1>3. CASE r.by # None
  <2>1. r.by \in Workers
    BY <1>3 DEF TypeOK, Request
  <2>2. [wk[r.by] EXCEPT !.pc = pc] \in Local
    BY <2>1 DEF TypeOK, Local
  <2>3. QED BY <1>1, <1>3, <2>1, <2>2 DEF Reply, TypeOK
<1>4. QED BY <1>2, <1>3

(* Any of the answers to a request keeps the workers and the network typed. *)
LEMMA AnswerType ==
  ASSUME TypeOK, NEW r \in net, \E pc \in Answers(r) : Reply(r, pc)
  PROVE  wk' \in [Workers -> Local] /\ net' \subseteq Request
<1>1. PICK pc \in Answers(r) : Reply(r, pc)
  OBVIOUS
<1>2. r.op \in {"send", "edit", "delete"}
  BY DEF TypeOK, Request
<1>3. pc \in ProcessSteps
  BY <1>2 DEF Answers, NextAfter, ProcessSteps
<1>4. QED BY <1>1, <1>3, ReplyType

LEMMA TelegramStepType ==
  ASSUME TypeOK, wk' \in [Workers -> Local], net' \subseteq Request,
         queue' \in History, published' \subseteq Parts, deleted' \subseteq Parts,
         notices' \subseteq Notice, edits' \in Nat, OnlyTelegram
  PROVE  TypeOK'
BY DEF TypeOK, OnlyTelegram, owner

(* Removing messages and telling about it. *)
LEMMA RemoveType ==
  ASSUME TypeOK, NEW S \in SUBSET Parts, Remove(S)
  PROVE  queue' \in History
BY DEF TypeOK, Remove, History

LEMMA NotifyType ==
  ASSUME TypeOK, NEW S \in SUBSET Parts, NEW sent \in BOOLEAN, Notify(S, sent)
  PROVE  notices' \subseteq Notice
BY DEF TypeOK, Notify, Notice

LEMMA ServeType ==
  ASSUME TypeOK, NEW r \in net,
         ServeSend(r) \/ ServeEdit(r) \/ ServeDelete(r) \/ Refuse(r)
  PROVE  TypeOK'
<1>1. r \in Request
  BY DEF TypeOK
<1>2. CASE ServeSend(r)
  <2>1. \A x \in Parts : [text |-> r.text[x], original |-> TRUE] \in Message
    BY <1>1 DEF Request, Message
  <2>2. queue' \in History
    BY <1>2, <2>1 DEF ServeSend, History, TypeOK
  <2>3. QED BY <1>2, <2>2, AnswerType, TelegramStepType DEF ServeSend, TypeOK
<1>3. CASE ServeEdit(r)
  <2>1. \A x \in r.parts : queue[x] \in Message /\ r.text[x] \in Contents
    BY <1>1, <1>3 DEF ServeEdit, Queued, Request, TypeOK, History
  <2>2. ASSUME NEW m \in Message, NEW c \in Contents
        PROVE  [m EXCEPT !.text = c] \in Message
    BY DEF Message
  <2>3. queue' \in History
    BY <1>3, <2>1, <2>2 DEF ServeEdit, History, TypeOK
  <2>4. QED BY <1>3, <2>3, AnswerType, TelegramStepType DEF ServeEdit, TypeOK
<1>4. CASE ServeDelete(r)
  <2>1. r.parts \cap Queued(queue) \in SUBSET Parts
    BY <1>1 DEF Request
  <2>2. queue' \in History /\ notices' \subseteq Notice
    BY <1>4, <2>1, RemoveType, NotifyType DEF ServeDelete
  <2>3. deleted' \subseteq Parts
    BY <1>4, <2>1 DEF ServeDelete, TypeOK
  <2>4. QED BY <1>4, <2>2, <2>3, AnswerType, TelegramStepType DEF ServeDelete, TypeOK
<1>5. CASE Refuse(r)
  BY <1>5, ReplyType, TelegramStepType DEF Refuse, TypeOK, ProcessSteps, telegram
<1>6. QED BY <1>2, <1>3, <1>4, <1>5

LEMMA PublishType == ASSUME TypeOK, NEW x \in Parts, Publish(x) PROVE TypeOK'
<1> DEFINE unit == IF x \in Photos THEN PartsOf(PostOf[x]) \cap Photos \cap Queued(queue)
                                   ELSE {x}
<1>1. unit \in SUBSET Parts
  BY DEF PartsOf
<1>2. /\ Remove(unit) /\ Notify(unit, TRUE) /\ published' = published \cup unit
      /\ UNCHANGED <<wk, net, deleted, edits>> /\ OnlyTelegram
  BY DEF Publish
<1> HIDE DEF unit
<1>3. queue' \in History /\ notices' \subseteq Notice
  BY <1>1, <1>2, RemoveType, NotifyType
<1>4. QED BY <1>1, <1>2, <1>3, TelegramStepType DEF TypeOK

LEMMA OutsideType ==
  ASSUME TypeOK, NEW x \in Parts,
         ExternalDelete(x) \/ \E m \in Message : ExternalEdit(x, m)
  PROVE  TypeOK'
<1>1. CASE ExternalDelete(x)
  <2>1. queue' \in History /\ notices' \subseteq Notice
    BY <1>1, RemoveType, NotifyType DEF ExternalDelete
  <2>2. deleted' \subseteq Parts /\ edits' \in Nat
    BY <1>1 DEF ExternalDelete, Outside, TypeOK
  <2>3. QED BY <1>1, <2>1, <2>2, TelegramStepType DEF ExternalDelete, TypeOK
<1>2. ASSUME NEW m \in Message, ExternalEdit(x, m) PROVE TypeOK'
  <2>1. queue' \in History /\ edits' \in Nat
    BY <1>2 DEF ExternalEdit, Outside, TypeOK, History
  <2>2. QED BY <1>2, <2>1, TelegramStepType DEF ExternalEdit, TypeOK
<1>3. QED BY <1>1, <1>2

LEMMA TelegramType == ASSUME TypeOK, Telegram PROVE TypeOK'
<1>1. ASSUME NEW n \in notices, LoseNotice(n) PROVE TypeOK'
  BY <1>1, TelegramStepType DEF LoseNotice, TypeOK
<1>2. QED BY <1>1, ServeType, PublishType, OutsideType DEF Telegram

-----------------------------------------------------------------------------
(* Reconciliation *)

LEMMA ReconcileStepType ==
  ASSUME TypeOK, row' \in [Posts -> Row], wk' \in [Workers -> Local],
         notices' \subseteq Notice, OnlyReconcile
  PROVE  TypeOK'
BY DEF TypeOK, OnlyReconcile, owner

LEMMA ConfirmedUpdateType ==
  ASSUME TypeOK, NEW w \in Workers, NEW p \in Posts, NEW r \in Row,
         ConfirmedUpdate(w, p, r)
  PROVE  row' \in [Posts -> Row] /\ wk' \in [Workers -> Local] /\ notices' = notices
BY BumpType DEF ConfirmedUpdate, TypeOK

LEMMA PassType ==
  ASSUME TypeOK, NEW w \in Workers, NEW p, Pass(w, p)
  PROVE  row' \in [Posts -> Row] /\ wk' \in [Workers -> Local] /\ notices' = notices
<1> DEFINE rest == wk[w].todo \ {p}
<1>1. rest \in SUBSET Posts
  BY DEF TypeOK, Local
<1>2. wk' = [wk EXCEPT ![w].todo = rest] /\ UNCHANGED <<row, notices>>
  BY DEF Pass
<1> HIDE DEF rest
<1>3. [wk[w] EXCEPT !.todo = rest] \in Local
  BY <1>1 DEF TypeOK, Local
<1>4. QED BY <1>2, <1>3 DEF TypeOK

LEMMA NeedsReviewType ==
  ASSUME TypeOK, NEW w \in Workers, NEW p \in Posts, NeedsReview(w, p)
  PROVE  row' \in [Posts -> Row] /\ wk' \in [Workers -> Local] /\ notices' = notices
<1>1. CASE Pass(w, p)
  BY <1>1, PassType
<1>2. CASE ConfirmedUpdate(w, p, [row[p] EXCEPT !.status = "needs_review"])
  <2>1. [row[p] EXCEPT !.status = "needs_review"] \in Row
    BY DEF TypeOK, Row, Statuses
  <2>2. QED BY <1>2, <2>1, ConfirmedUpdateType
<1>3. QED BY <1>1, <1>2 DEF NeedsReview

(* What an update and an intact history make of a row are rows. *)
LEMMA UpdatedRowType ==
  ASSUME TypeOK, NEW p \in Posts, NEW n \in Notice
  PROVE  UpdatedRow(p, n) \in Row
<1> DEFINE hit == n.parts \cap row[p].ids
           pubs == IF n.sent THEN row[p].pubs \cup hit ELSE row[p].pubs
           cans == IF n.sent THEN row[p].cans ELSE row[p].cans \cup hit
           s == IF PartsOf(p) \subseteq pubs THEN "published"
                ELSE IF PartsOf(p) \subseteq cans THEN "cancelled" ELSE "needs_review"
<1>1. row[p] \in Row
  BY DEF TypeOK
<1>2. pubs \in SUBSET Parts /\ cans \in SUBSET Parts /\ s \in Statuses
  BY <1>1 DEF Row, Notice, Statuses
<1>3. UpdatedRow(p, n) = [row[p] EXCEPT !.pubs = pubs, !.cans = cans, !.status = s]
  BY DEF UpdatedRow
<1> HIDE DEF hit, pubs, cans, s
<1>4. QED BY <1>1, <1>2, <1>3 DEF Row

LEMMA AdoptedRowType ==
  ASSUME TypeOK, NEW p \in Posts, NEW h \in History, PartsOf(p) \subseteq Queued(h)
  PROVE  AdoptedRow(p, h) \in Row
<1> DEFINE seen == [x \in Parts |-> IF x \in PartsOf(p) THEN h[x].text ELSE row[p].seen[x]]
           s == IF Coherent(p, h) THEN "scheduled" ELSE "needs_review"
<1>1. row[p] \in Row
  BY DEF TypeOK
<1>2. \A x \in PartsOf(p) : h[x].text \in Contents
  BY DEF Queued, History, PartsOf, Message
<1>3. seen \in [Parts -> Contents \cup {None}]
  BY <1>1, <1>2 DEF Row
<1>4. Texts(p, h) \in [Parts -> Contents]
  BY <1>1, <1>2 DEF Row, Texts
<1>5. s \in Statuses
  BY DEF Statuses
<1>6. AdoptedRow(p, h) = [row[p] EXCEPT !.seen = seen, !.snap = Texts(p, h), !.status = s]
  BY DEF AdoptedRow
<1> HIDE DEF seen, s
<1>7. QED BY <1>1, <1>3, <1>4, <1>5, <1>6 DEF Row

LEMMA ReconcileRowType ==
  ASSUME TypeOK, NEW w \in Workers, NEW p \in Posts, UpdateRow(w, p) \/ ReconcileRow(w, p)
  PROVE  row' \in [Posts -> Row] /\ wk' \in [Workers -> Local] /\ notices' \subseteq Notice
<1> notices \subseteq Notice
  BY DEF TypeOK
<1>1. CASE Pass(w, p)
  BY <1>1, PassType
<1>2. CASE NeedsReview(w, p)
  BY <1>2, NeedsReviewType
<1>3. CASE ConfirmedUpdate(w, p, UpdatedRow(p, wk[w].note))
  <2>1. wk[w].note \in Notice
    BY DEF TypeOK, Local
  <2>2. UpdatedRow(p, wk[w].note) \in Row
    BY <2>1, UpdatedRowType
  <2>3. QED BY <1>3, <2>2, ConfirmedUpdateType
<1>4. CASE ReadHistory(w, p)
  <2>1. [wk[w] EXCEPT !.pc = "compare", !.hist = queue] \in Local
    BY DEF TypeOK, Local, BatchSteps
  <2>2. QED BY <1>4, <2>1 DEF ReadHistory, TypeOK
<1>5. CASE /\ PartsOf(p) \ Queued(wk[w].hist) = {}
           /\ ConfirmedUpdate(w, p, AdoptedRow(p, wk[w].hist))
  <2>1. wk[w].hist \in History
    BY DEF TypeOK, Local
  <2>2. AdoptedRow(p, wk[w].hist) \in Row
    BY <1>5, <2>1, AdoptedRowType
  <2>3. QED BY <1>5, <2>2, ConfirmedUpdateType
<1>6. QED BY <1>1, <1>2, <1>3, <1>4, <1>5
         DEF UpdateRow, ReconcileRow, OtherAccount, LeaveAlone, CompareRow

LEMMA ReconcileType == ASSUME TypeOK, NEW w \in Workers, Reconcile(w) PROVE TypeOK'
<1>1. CASE ReconcileRead(w)
  <2>1. [wk[w] EXCEPT !.pc = "reconcile", !.todo = ReconcileRows] \in Local
    BY DEF TypeOK, Local, BatchSteps, ReconcileRows
  <2>2. wk' \in [Workers -> Local]
    BY <1>1, <2>1 DEF ReconcileRead, TypeOK
  <2>3. QED BY <1>1, <2>2, ReconcileStepType DEF ReconcileRead, Reconcile, TypeOK
<1>2. ASSUME NEW n \in notices, UpdateRead(w, n) PROVE TypeOK'
  <2> DEFINE mine == {p \in ReconcileRows : row[p].account = wk[w].account}
  <2>1. n \in Notice /\ mine \in SUBSET Posts
    BY DEF TypeOK, ReconcileRows
  <2> HIDE DEF mine
  <2>2. [wk[w] EXCEPT !.pc = "handle", !.note = n, !.todo = mine] \in Local
    BY <2>1 DEF TypeOK, Local, BatchSteps
  <2>3. wk' = [wk EXCEPT ![w] = [@ EXCEPT !.pc = "handle", !.note = n, !.todo = mine]]
    BY <1>2 DEF UpdateRead, mine
  <2>4. wk' \in [Workers -> Local]
    BY <2>2, <2>3 DEF TypeOK
  <2>5. QED BY <1>2, <2>4, ReconcileStepType DEF UpdateRead, Reconcile, TypeOK
<1>3. ASSUME NEW p \in Posts, UpdateRow(w, p) \/ ReconcileRow(w, p) PROVE TypeOK'
  BY <1>3, ReconcileRowType, ReconcileStepType DEF Reconcile
<1>4. CASE BatchDone(w)
  <2>1. At("idle", wk[w].session, wk[w].account) \in Local
    BY AtType DEF TypeOK, Local
  <2>2. wk' \in [Workers -> Local]
    BY <1>4, <2>1 DEF BatchDone, TypeOK
  <2>3. QED BY <1>4, <2>2, ReconcileStepType DEF BatchDone, Reconcile, TypeOK
<1>5. QED BY <1>1, <1>2, <1>3, <1>4 DEF Reconcile

LEMMA RefreshPermissionsType ==
  ASSUME TypeOK, NEW w \in Workers, RefreshPermissions(w)
  PROVE  TypeOK'
<1>1. permission' \in Accounts \cup {None}
  BY DEF RefreshPermissions, TypeOK, Local
<1>2. QED BY <1>1 DEF RefreshPermissions, TypeOK, telegram, owner

-----------------------------------------------------------------------------
(* A pending update has a value: without it the goal of a claimed row would *)
(* not be a content, so the type invariant alone is not inductive.          *)

(* What the shared row updates do to the command and its value. *)
LEMMA RowUpdatesKeepPending ==
  ASSUME NEW r \in Row, NEW w \in Workers, NEW have, NEW seen, NEW s, NEW snap
  PROVE  /\ SaveParts(r, w, have, seen).action = r.action
         /\ SaveParts(r, w, have, seen).pend = r.pend
         /\ \/ Finish(r, w, s, snap) = r
            \/ Finish(r, w, s, snap).action = None
         /\ ExpiredRow(r).action = None
         /\ ClaimedRow(r, w).action = r.action
         /\ ClaimedRow(r, w).pend = r.pend
BY DEF SaveParts, Finish, ExpiredRow, ClaimedRow, Row

LEMMA BatchRowsKeepPending ==
  ASSUME TypeOK, NEW p \in Posts, NEW n, NEW h
  PROVE  /\ UpdatedRow(p, n).action = row[p].action
         /\ UpdatedRow(p, n).pend = row[p].pend
         /\ AdoptedRow(p, h).action = row[p].action
         /\ AdoptedRow(p, h).pend = row[p].pend
         /\ [row[p] EXCEPT !.status = "needs_review"].action = row[p].action
         /\ [row[p] EXCEPT !.status = "needs_review"].pend = row[p].pend
BY DEF UpdatedRow, AdoptedRow, TypeOK, Row

LEMMA PendingStep == ASSUME TypeOK, PendingInv, [Next]_vars PROVE PendingInv'
<1> SUFFICES ASSUME NEW p \in Posts
             PROVE  \/ row'[p].action # "update"
                    \/ row'[p].action = row[p].action /\ row'[p].pend = row[p].pend
                    \/ row'[p].pend # None
  BY DEF PendingInv
<1>0. row[p] \in Row /\ row \in [Posts -> Row] /\ None \notin Contents
        /\ None # "update"
  BY NoneAssumption DEF TypeOK, Actions
<1>1. CASE row' = row
  BY <1>1
<1>2. CASE Owner
  <2> SUFFICES ASSUME NEW q \in Posts, NEW c \in Contents,
                      \/ CommandCancelQueued(q) \/ CommandCancel(q) \/ Resolve(q)
                      \/ Create(q, c) \/ Retry(q, c) \/ CommandUpdate(q, c)
               PROVE  \/ row'[p].action # "update"
                      \/ row'[p].action = row[p].action /\ row'[p].pend = row[p].pend
                      \/ row'[p].pend # None
    BY <1>2, ConstantsAssumption DEF Owner
  <2>1. CASE CommandCancelQueued(q)
    BY <1>0, <2>1 DEF CommandCancelQueued, Row
  <2>2. CASE CommandCancel(q)
    BY <1>0, <2>2 DEF CommandCancel, Row
  <2>3. CASE Resolve(q)
    BY <1>0, <2>3 DEF Resolve, Row
  <2>4. CASE Create(q, c)
    BY <1>0, <2>4, NewRowType DEF Create, Row
  <2>5. CASE Retry(q, c)
    BY <1>0, <2>5 DEF Retry, Row
  <2>6. CASE CommandUpdate(q, c)
    BY <1>0, <2>6 DEF CommandUpdate, Row
  <2>7. QED BY <2>1, <2>2, <2>3, <2>4, <2>5, <2>6
<1>3. CASE Environment
  <2>1. CASE PermissionAges \/ \E w \in Workers : Start(w) \/ Crash(w)
    BY <1>1, <2>1 DEF PermissionAges, Start, Crash
  <2>2. ASSUME NEW q \in Posts, LeaseLapses(q)
        PROVE  row'[p].action = row[p].action /\ row'[p].pend = row[p].pend
    BY <1>0, <2>2 DEF LeaseLapses, Row
  <2>3. QED BY <1>3, <2>1, <2>2 DEF Environment
<1>4. CASE Telegram
  BY <1>1, <1>4 DEF Telegram, ServeSend, ServeEdit, ServeDelete, Refuse, Publish,
                    ExternalDelete, ExternalEdit, LoseNotice, OnlyTelegram
<1>5. ASSUME NEW w \in Workers, RefreshPermissions(w) PROVE row' = row
  BY <1>5 DEF RefreshPermissions
<1>6. ASSUME NEW w \in Workers, Claim(w)
      PROVE  \/ row'[p].action = None
             \/ row'[p].action = row[p].action /\ row'[p].pend = row[p].pend
  <2>1. row'[p] \in {row[p], ExpiredRow(row[p]), ClaimedRow(row[p], w)}
    BY <1>6 DEF Claim
  <2>2. QED BY <1>0, <2>1, RowUpdatesKeepPending
<1>7. ASSUME NEW w \in Workers, Process(w)
      PROVE  \/ row'[p].action = None
             \/ row'[p].action = row[p].action /\ row'[p].pend = row[p].pend
  <2>1. CASE row' = row
    BY <2>1
  <2>2. CASE \E have, seen : row' = [row EXCEPT ![wk[w].job] = SaveParts(@, w, have, seen)]
    BY <1>0, <2>2, RowUpdatesKeepPending
  <2>3. CASE \E s, snap : row' = [row EXCEPT ![wk[w].job] = Finish(@, w, s, snap)]
    BY <1>0, <2>3, RowUpdatesKeepPending
  <2>4. CASE Fail(w)
    <3>1. PICK s : row' = [row EXCEPT ![wk[w].job] =
                      Finish(SaveParts(@, w, wk[w].have, @.seen), w, s, @.snap)]
      BY <2>4 DEF Fail
    <3>2. SaveParts(row[p], w, wk[w].have, row[p].seen) \in Row
      BY <1>0, SavePartsType DEF TypeOK, Local, Row
    <3>3. QED BY <1>0, <3>1, <3>2, RowUpdatesKeepPending
  <2>5. CASE Preflight(w) \/ Send(w) \/ Edit(w) \/ Cancel(w) \/ Timeout(w)
    BY <2>1, <2>5 DEF Preflight, Send, Edit, Cancel, Timeout, Fails, FailsAtRisk, Ask
  <2>6. CASE Accepted(w)
    BY <2>2, <2>6 DEF Accepted
  <2>7. CASE Verify(w)
    BY <2>1, <2>2, <2>7 DEF Verify, Fails
  <2>8. CASE Gone(w) \/ Confirm(w)
    BY <2>1, <2>3, <2>8 DEF Gone, Confirm, Fails, FinishJob
  <2>9. QED BY <1>7, <2>4, <2>5, <2>6, <2>7, <2>8 DEF Process
<1>8. ASSUME NEW w \in Workers, Reconcile(w)
      PROVE  row'[p].action = row[p].action /\ row'[p].pend = row[p].pend
  <2>1. ASSUME NEW q \in Posts,
               \/ ConfirmedUpdate(w, q, UpdatedRow(q, wk[w].note))
               \/ ConfirmedUpdate(w, q, AdoptedRow(q, wk[w].hist))
               \/ ConfirmedUpdate(w, q, [row[q] EXCEPT !.status = "needs_review"])
        PROVE  row'[p].action = row[p].action /\ row'[p].pend = row[p].pend
    <3>1. ASSUME NEW r, row' = [row EXCEPT ![q] = r],
                 r.action = row[q].action /\ r.pend = row[q].pend
          PROVE  row'[p].action = row[p].action /\ row'[p].pend = row[p].pend
      BY <1>0, <3>1
    <3>2. QED BY <2>1, <3>1, BatchRowsKeepPending DEF ConfirmedUpdate
  <2>2. CASE row' = row
    BY <2>2
  <2>3. ASSUME NEW q \in Posts, UpdateRow(w, q) \/ ReconcileRow(w, q)
        PROVE  \/ row' = row
               \/ ConfirmedUpdate(w, q, UpdatedRow(q, wk[w].note))
               \/ ConfirmedUpdate(w, q, AdoptedRow(q, wk[w].hist))
               \/ ConfirmedUpdate(w, q, [row[q] EXCEPT !.status = "needs_review"])
    BY <2>3 DEF UpdateRow, ReconcileRow, OtherAccount, ReadHistory, LeaveAlone,
                CompareRow, NeedsReview, Pass
  <2>4. CASE ReconcileRead(w) \/ (\E n \in notices : UpdateRead(w, n)) \/ BatchDone(w)
    BY <2>2, <2>4 DEF ReconcileRead, UpdateRead, BatchDone
  <2>5. QED BY <1>8, <2>1, <2>2, <2>3, <2>4 DEF Reconcile
<1>9. CASE UNCHANGED vars
  BY <1>1, <1>9 DEF vars
<1>10. QED BY <1>0, <1>1, <1>2, <1>3, <1>4, <1>5, <1>6, <1>7, <1>8, <1>9 DEF Next

-----------------------------------------------------------------------------
LEMMA TypeStep == ASSUME TypeOK, PendingInv, [Next]_vars PROVE TypeOK'
<1>1. CASE Next
  BY <1>1, OwnerType, EnvironmentType, TelegramType, RefreshPermissionsType,
     ClaimType, ProcessType, ReconcileType DEF Next
<1>2. CASE UNCHANGED vars
  BY <1>2 DEF vars, TypeOK
<1>3. QED BY <1>1, <1>2

LEMMA TypeInit == Init => TypeOK /\ PendingInv
<1> SUFFICES ASSUME Init PROVE TypeOK /\ PendingInv
  OBVIOUS
<1>1. row \in [Posts -> Row]
  BY NewRowType DEF Init
<1>2. wk \in [Workers -> Local]
  BY AtType DEF Init
<1>3. PendingInv
  BY NoneAssumption DEF Init, PendingInv, NewRow, Actions
<1>4. QED BY <1>1, <1>2, <1>3, EmptyTypes DEF Init, TypeOK

(* The type invariant needs the value of a pending update, and keeps it. *)
LEMMA TypedAndPending == Spec => [](TypeOK /\ PendingInv)
<1>1. TypeOK /\ PendingInv /\ [Next]_vars => (TypeOK /\ PendingInv)'
  BY TypeStep, PendingStep
<1>2. QED BY <1>1, TypeInit, PTL DEF Spec

(* Type correctness of every reachable state: rows stay within the statuses *)
(* and commands of the CHECK constraints, a claimed update always has the   *)
(* text and date it is to write, for any number of posts and workers.       *)
THEOREM TypeCorrect == Spec => []TypeOK
<1>1. TypeOK /\ PendingInv => TypeOK
  OBVIOUS
<1>2. QED BY <1>1, TypedAndPending, PTL

-----------------------------------------------------------------------------
(* The inductive invariant. *)

Rest == /\ CommandMatchesStatus /\ RowsInv /\ JobsInv /\ SendInv /\ BatchInv
        /\ NetInv /\ NoBlindResend

-----------------------------------------------------------------------------
(* Steps that leave a worker's job alone *)

Same(w) ==
  /\ wk'[w].pc = wk[w].pc /\ wk'[w].job = wk[w].job /\ wk'[w].act = wk[w].act
  /\ wk'[w].have = wk[w].have /\ wk'[w].risky = wk[w].risky
  /\ wk'[w].note = wk[w].note /\ wk'[w].todo \subseteq wk[w].todo

\* The worker moves on in process without sending or learning ids.
Moved(w) ==
  /\ Busy(w)
  /\ wk'[w].job = wk[w].job /\ wk'[w].act = wk[w].act /\ wk'[w].have = wk[w].have
  /\ wk[w].risky => wk'[w].risky
  /\ wk'[w].note = wk[w].note /\ wk'[w].todo \subseteq wk[w].todo
  /\ wk'[w].pc \in StepsOf(wk[w].act)
  /\ wk[w].act = "schedule" =>
       \/ wk'[w].pc = "fail"
       \/ wk'[w].pc \in {"await", "accepted"} /\ wk[w].pc \in {"await", "accepted"}
       \/ wk'[w].pc \in {"check", "send"} /\ wk[w].pc \in {"check", "send"}

\* What the row of a worker's job must keep for that worker.
JobKept(w) ==
  LET p == wk[w].job
  IN  p \in Posts =>
        /\ row'[p].status \in Untransferred => row[p].status \in Untransferred \/ ~Sending(w)'
        /\ row'[p].lease = w => row[p].lease = w /\ row'[p].action = row[p].action

\* The rows a batch still wants to write are as they were read.
BatchKept(w) == \A p \in wk'[w].todo :
  row'[p].action = row[p].action /\ row'[p].status = row[p].status

\* The parts of the invariant about worker w hold after the step, and w has
\* not started a transfer.
Keeps(w) ==
  /\ JobTrue(w)' /\ SendTrue(w)' /\ BatchTrue(w)'
  /\ Sending(w)' => Sending(w) /\ wk'[w].job = wk[w].job

(* With the same job and ids a worker's next unit is the same. *)
LEMMA UnitSame ==
  ASSUME NEW w \in Workers, wk'[w].job = wk[w].job, wk'[w].have = wk[w].have
  PROVE  Unit(w)' = Unit(w)
BY DEF Unit, PartsOf, Oldest

(* A worker that goes on with its job keeps its part of the invariant. *)
LEMMA WorkerKept ==
  ASSUME NEW w \in Workers, JobTrue(w), SendTrue(w), BatchTrue(w),
         asks' = asks, published \subseteq published',
         JobKept(w), BatchKept(w), Same(w) \/ Moved(w)
  PROVE  Keeps(w)
<1>1. Asked' = Asked /\ PartsOf(wk'[w].job) = PartsOf(wk[w].job)
  BY DEF Asked, Same, Moved, PartsOf
<1>2. Unit(w)' = Unit(w)
  BY UnitSame DEF Same, Moved
<1>3. Busy(w)' => Busy(w)
  BY DEF Busy, Same, Moved
<1>4. JobTrue(w)'
  <2> SUFFICES ASSUME Busy(w)'
               PROVE  /\ wk'[w].job \in Posts
                      /\ wk'[w].act \in Actions
                      /\ wk'[w].pc \in StepsOf(wk'[w].act)
                      /\ row'[wk'[w].job].lease = w => row'[wk'[w].job].action = wk'[w].act
                      /\ wk'[w].have \subseteq Asked'
                      /\ wk'[w].act # "schedule" => wk'[w].risky
    BY DEF JobTrue
  <2>1. /\ wk[w].job \in Posts /\ wk[w].act \in Actions
        /\ wk[w].pc \in StepsOf(wk[w].act)
        /\ row[wk[w].job].lease = w => row[wk[w].job].action = wk[w].act
        /\ wk[w].have \subseteq Asked
        /\ wk[w].act # "schedule" => wk[w].risky
    BY <1>3 DEF JobTrue
  <2>2. wk'[w].job = wk[w].job /\ wk'[w].act = wk[w].act /\ wk'[w].have = wk[w].have
        /\ (wk[w].risky => wk'[w].risky)
    BY DEF Same, Moved
  <2>3. wk'[w].pc \in StepsOf(wk[w].act)
    BY <2>1 DEF Same, Moved
  <2>4. QED BY <1>1, <2>1, <2>2, <2>3 DEF JobKept
<1>5. Sending(w)' => Sending(w) /\ wk'[w].job = wk[w].job
  BY <1>3 DEF Sending, Same, Moved
<1>6. SendTrue(w)'
  <2> DEFINE mine == PartsOf(wk[w].job)
             have == wk[w].have
  <2> SUFFICES ASSUME Sending(w)'
               PROVE  /\ row'[wk[w].job].status \notin Untransferred
                      /\ wk'[w].pc \in {"check", "send"} => (mine \ have) \cap Asked = {}
                      /\ wk'[w].pc \in {"await", "accepted"} =>
                           Unit(w) \subseteq Asked /\ (mine \ (have \cup Unit(w))) \cap Asked = {}
                      /\ wk'[w].pc = "confirm" => mine \subseteq have
                      /\ ~wk'[w].risky => mine \cap Asked = {}
                      /\ mine \cap Photos \cap have = {} \/ mine \cap Photos \subseteq have
    BY <1>1, <1>2, <1>5 DEF SendTrue, Same, Moved, Untransferred
  <2>1. Sending(w) /\ wk[w].job \in Posts
    BY <1>5 DEF Sending, JobTrue
  <2>2. wk[w].act = "schedule"
    BY <2>1 DEF Sending
  <2> HIDE DEF mine, have
  <2>3. /\ row[wk[w].job].status \notin Untransferred
        /\ wk[w].pc \in {"check", "send"} => (mine \ have) \cap Asked = {}
        /\ wk[w].pc \in {"await", "accepted"} =>
             Unit(w) \subseteq Asked /\ (mine \ (have \cup Unit(w))) \cap Asked = {}
        /\ wk[w].pc = "confirm" => mine \subseteq have
        /\ ~wk[w].risky => mine \cap Asked = {}
        /\ mine \cap Photos \cap have = {} \/ mine \cap Photos \subseteq have
    BY <2>1 DEF SendTrue, mine, have
  <2>4. row'[wk[w].job].status \notin Untransferred
    BY <2>1, <2>3 DEF JobKept
  <2>5. CASE Same(w)
    BY <2>2, <2>3, <2>4, <2>5 DEF Same
  <2>6. CASE Moved(w)
    BY <2>2, <2>3, <2>4, <2>6 DEF Moved
  <2>7. QED BY <2>5, <2>6
<1>7. BatchTrue(w)'
  BY DEF BatchTrue, BatchKept, Same, Moved
<1>8. QED BY <1>4, <1>5, <1>6, <1>7 DEF Keeps

(* A worker outside process has only its batch to account for. *)
LEMMA WorkerReleased ==
  ASSUME NEW w \in Workers, wk'[w].pc \notin ProcessSteps, BatchTrue(w)'
  PROVE  Keeps(w)
BY DEF Keeps, JobTrue, SendTrue, Sending, Busy

(* Workers that keep their parts keep the whole. *)
LEMMA WorkersKept ==
  ASSUME Rest, \A w \in Workers : Keeps(w)
  PROVE  JobsInv' /\ SendInv' /\ BatchInv'
<1>1. OneSender'
  BY DEF OneSender, Rest, SendInv, Keeps
<1>2. QED BY <1>1 DEF JobsInv, SendInv, BatchInv, Keeps

-----------------------------------------------------------------------------
(* The network *)

\* Telegram and the updates know only what was asked and published.
Known == /\ Queued(queue) \cup published \subseteq Asked
         /\ \A n \in notices : n.sent => n.parts \subseteq published

(* Requests that disappear, or that their workers still wait for. *)
LEMMA NetKept ==
  ASSUME NetInv, Known', Asked \subseteq Asked', net' \subseteq net,
         \A r \in net' : r.by # None => wk'[r.by].pc = wk[r.by].pc
                                        /\ wk'[r.by].act = wk[r.by].act
  PROVE  NetInv'
BY DEF NetInv, Known

(* A worker that stops waiting. *)
LEMMA NetOrphaned ==
  ASSUME TypeOK, NetInv, Known', Asked \subseteq Asked', NEW w \in Workers,
         net' = Orphaned(w),
         \A v \in Workers \ {w} : wk'[v].pc = wk[v].pc /\ wk'[v].act = wk[v].act
  PROVE  NetInv'
<1>1. \A r \in net : r \in Request
  BY DEF TypeOK
<1>2. None \notin Workers
  BY NoneAssumption
<1>3. ASSUME NEW s \in net'
      PROVE  \E r \in net : /\ s.op = r.op /\ s.parts = r.parts
                            /\ s.by # None => s = r /\ r.by \in Workers \ {w}
  <2>1. PICK r \in net : s = IF r.by = w THEN [r EXCEPT !.by = None] ELSE r
    BY <1>3 DEF Orphaned
  <2>2. r \in Request
    BY <1>1
  <2>3. CASE r.by = w
    BY <2>1, <2>2, <2>3 DEF Request
  <2>4. CASE r.by # w
    BY <2>1, <2>2, <2>4 DEF Request
  <2>5. QED BY <2>3, <2>4
<1>4. ASSUME NEW s \in net'
      PROVE  /\ s.op = "send" => s.parts \subseteq Asked'
             /\ s.by # None => /\ wk'[s.by].pc = "await"
                               /\ NextAfter(s.op) \in StepsOf(wk'[s.by].act)
  BY <1>3, <1>4 DEF NetInv
<1>5. ASSUME NEW s \in net', NEW t \in net', s.by = t.by, s.by # None PROVE s = t
  BY <1>3, <1>5 DEF NetInv
<1>6. QED BY <1>4, <1>5 DEF NetInv, Known

(* A worker that was not waiting sends a request. *)
LEMMA NetAsked ==
  ASSUME TypeOK, NetInv, Known', Asked \subseteq Asked', NEW w \in Workers,
         NEW op, NEW parts, NEW text,
         net' = net \cup {[op |-> op, parts |-> parts, text |-> text, by |-> w]},
         op = "send" => parts \subseteq Asked',
         wk[w].pc # "await", wk'[w].pc = "await",
         NextAfter(op) \in StepsOf(wk'[w].act),
         \A v \in Workers \ {w} : wk'[v].pc = wk[v].pc /\ wk'[v].act = wk[v].act
  PROVE  NetInv'
<1> DEFINE new == [op |-> op, parts |-> parts, text |-> text, by |-> w]
<1>1. \A r \in net : r.by \in Workers \cup {None}
  BY DEF TypeOK, Request
<1>2. \A r \in net : r.by # w
  BY NoneAssumption DEF NetInv
<1>3. new.op = op /\ new.parts = parts /\ new.by = w
  OBVIOUS
<1> HIDE DEF new
<1>4. \A r \in net' : r \in net \/ r = new
  BY DEF new
<1>5. ASSUME NEW s \in net'
      PROVE  /\ s.op = "send" => s.parts \subseteq Asked'
             /\ s.by # None => /\ wk'[s.by].pc = "await"
                               /\ NextAfter(s.op) \in StepsOf(wk'[s.by].act)
  <2>1. CASE s \in net
    BY <1>1, <1>2, <2>1 DEF NetInv
  <2>2. CASE s = new
    BY <1>3, <2>2
  <2>3. QED BY <1>4, <2>1, <2>2
<1>6. ASSUME NEW s \in net', NEW t \in net', s.by = t.by, s.by # None PROVE s = t
  <2>1. CASE s \in net /\ t \in net
    BY <1>6, <2>1 DEF NetInv
  <2>2. CASE s = new \/ t = new
    BY <1>2, <1>3, <1>4, <1>6, <2>2
  <2>3. QED BY <1>4, <2>1, <2>2
<1>7. QED BY <1>5, <1>6 DEF NetInv, Known

-----------------------------------------------------------------------------
(* Rows *)

(* Unchanged rows stay true while more is asked of and published by others. *)
LEMMA RowsKept ==
  ASSUME Rest, row' = row, asks' = asks, published \subseteq published'
  PROVE  /\ CommandMatchesStatus' /\ RowsInv'
         /\ \A w \in Workers : JobKept(w) /\ BatchKept(w)
<1>1. Asked' = Asked
  BY DEF Asked
<1>2. CommandMatchesStatus'
  BY DEF Rest, CommandMatchesStatus, CommandMatches
<1>3. RowsInv'
  BY <1>1 DEF Rest, RowsInv, RowTrue, PartsOf, Untransferred, Held
<1>4. QED BY <1>2, <1>3 DEF JobKept, BatchKept

(* One row is written; the others stay. *)
LEMMA RowWritten ==
  ASSUME Rest, NEW p \in Posts, asks' = asks, published' = published,
         \A q \in Posts \ {p} : row'[q] = row[q],
         CommandMatches(p)', RowTrue(p)',
         \A w \in Workers : wk[w].job = p => JobKept(w),
         \A w \in Workers : p \in wk'[w].todo =>
           row'[p].action = row[p].action /\ row'[p].status = row[p].status,
         \A w \in Workers : wk'[w].todo \subseteq Posts
  PROVE  /\ CommandMatchesStatus' /\ RowsInv'
         /\ \A w \in Workers : JobKept(w) /\ BatchKept(w)
<1>1. Asked' = Asked
  BY DEF Asked
<1>2. \A q \in Posts \ {p} : CommandMatches(q)'
  BY DEF Rest, CommandMatchesStatus, CommandMatches
<1>3. \A q \in Posts \ {p} : RowTrue(q)'
  BY <1>1 DEF Rest, RowsInv, RowTrue, PartsOf, Untransferred, Held
<1>4. \A w \in Workers : JobKept(w)
  BY DEF JobKept
<1>5. \A w \in Workers : BatchKept(w)
  BY DEF BatchKept
<1>6. QED BY <1>2, <1>3, <1>4, <1>5 DEF CommandMatchesStatus, RowsInv

-----------------------------------------------------------------------------
(* Steps that write no row and ask for nothing *)

(* What a step of other actors leaves to each worker. *)
LEMMA AllWorkersKept ==
  ASSUME Rest, asks' = asks, published \subseteq published',
         \A w \in Workers : JobKept(w) /\ BatchKept(w),
         \A w \in Workers : \/ Same(w) \/ Moved(w)
                            \/ wk'[w].pc \notin ProcessSteps /\ BatchTrue(w)'
  PROVE  JobsInv' /\ SendInv' /\ BatchInv'
<1>1. ASSUME NEW w \in Workers PROVE Keeps(w)
  <2>1. JobTrue(w) /\ SendTrue(w) /\ BatchTrue(w)
    BY DEF Rest, JobsInv, SendInv, BatchInv
  <2>2. CASE Same(w) \/ Moved(w)
    BY <2>1, <2>2, WorkerKept
  <2>3. CASE wk'[w].pc \notin ProcessSteps /\ BatchTrue(w)'
    BY <2>3, WorkerReleased
  <2>4. QED BY <2>2, <2>3
<1>2. QED BY <1>1, WorkersKept

LEMMA QuietStep ==
  ASSUME Rest, row' = row, asks' = asks, published \subseteq published', NetInv',
         \A w \in Workers : \/ Same(w) \/ Moved(w)
                            \/ wk'[w].pc \notin ProcessSteps /\ BatchTrue(w)'
  PROVE  Rest'
<1>1. /\ CommandMatchesStatus' /\ RowsInv'
      /\ \A w \in Workers : JobKept(w) /\ BatchKept(w)
  BY RowsKept
<1>2. JobsInv' /\ SendInv' /\ BatchInv'
  BY <1>1, AllWorkersKept
<1>3. NoBlindResend'
  BY DEF Rest, NoBlindResend
<1>4. QED BY <1>1, <1>2, <1>3 DEF Rest

(* Steps that touch neither worker, row, network nor Telegram. *)
LEMMA StillStep ==
  ASSUME TypeOK, Rest, UNCHANGED <<row, wk, net, queue, published, notices, asks>>
  PROVE  Rest'
<1>1. \A w \in Workers : Same(w)
  BY DEF Same
<1>2. Known' /\ Asked \subseteq Asked'
  BY DEF Known, Asked, Queued, Rest, NetInv
<1>3. NetInv'
  BY <1>2, NetKept DEF Rest
<1>4. QED BY <1>1, <1>3, QuietStep

-----------------------------------------------------------------------------
(* Telegram *)

(* A reply moves the worker that waits for it, and no other. *)
LEMMA ReplyKeeps ==
  ASSUME TypeOK, Rest, NEW r \in net, NEW pc \in Answers(r), Reply(r, pc)
  PROVE  /\ \A w \in Workers : Same(w) \/ Moved(w)
         /\ net' \subseteq net
         /\ \A s \in net' : s.by # None => wk'[s.by].pc = wk[s.by].pc
                                            /\ wk'[s.by].act = wk[s.by].act
<1>1. r \in Request /\ net' = net \ {r} /\ None \notin Workers
  BY NoneAssumption DEF TypeOK, Reply
<1>2. CASE r.by = None
  BY <1>1, <1>2 DEF Reply, Same
<1>3. CASE r.by # None
  <2> DEFINE w == r.by
  <2>1. w \in Workers /\ wk[w] \in Local
    BY <1>1, <1>3 DEF Request, TypeOK
  <2>2. wk' = [wk EXCEPT ![w] = [@ EXCEPT !.pc = pc]]
    BY <1>3 DEF Reply
  <2> HIDE DEF w
  <2>3. wk[w].pc = "await" /\ NextAfter(r.op) \in StepsOf(wk[w].act)
    BY <1>3 DEF Rest, NetInv, w
  <2>4. wk'[w] = [wk[w] EXCEPT !.pc = pc] /\ \A v \in Workers \ {w} : wk'[v] = wk[v]
    BY <2>1, <2>2 DEF TypeOK
  <2>5. /\ wk'[w].pc = pc /\ wk'[w].job = wk[w].job /\ wk'[w].act = wk[w].act
        /\ wk'[w].have = wk[w].have /\ wk'[w].risky = wk[w].risky
        /\ wk'[w].note = wk[w].note /\ wk'[w].todo = wk[w].todo
    BY <2>1, <2>4 DEF Local
  <2>6. Busy(w) /\ wk[w].act \in Actions
    BY <2>1, <2>3 DEF Busy, ProcessSteps, Rest, JobsInv, JobTrue
  <2>7. pc \in StepsOf(wk[w].act)
    BY <2>3, <2>6 DEF Answers, StepsOf, Actions
  <2>8. wk[w].act = "schedule" => pc \in {"accepted", "fail"}
    BY <1>1, <2>3 DEF Answers, NextAfter, StepsOf, Request
  <2>9. Moved(w)
    BY <2>3, <2>5, <2>6, <2>7, <2>8 DEF Moved
  <2>10. \A v \in Workers \ {w} : Same(v)
    BY <2>4 DEF Same
  <2>11. ASSUME NEW s \in net', s.by # None
         PROVE  s.by \in Workers \ {w}
    <3>1. s \in net /\ s # r /\ s \in Request
      BY <1>1, <2>11 DEF TypeOK
    <3>2. s.by # r.by
      BY <1>3, <2>11, <3>1 DEF Rest, NetInv
    <3>3. QED BY <2>11, <3>1, <3>2 DEF Request, w
  <2>12. QED BY <1>1, <2>4, <2>9, <2>10, <2>11
<1>4. QED BY <1>2, <1>3

(* Telegram answers, or says no. *)
LEMMA ServeKeeps ==
  ASSUME TypeOK, Rest, NEW r \in net,
         ServeSend(r) \/ ServeEdit(r) \/ ServeDelete(r) \/ Refuse(r)
  PROVE  Rest'
<1>1. r \in Request /\ row' = row /\ asks' = asks /\ Asked' = Asked
  BY DEF TypeOK, ServeSend, ServeEdit, ServeDelete, Refuse, OnlyTelegram, Asked
<1>2. PICK pc \in Answers(r) : Reply(r, pc)
  BY DEF ServeSend, ServeEdit, ServeDelete, Refuse, Answers
<1>3. published' = published
  BY DEF ServeSend, ServeEdit, ServeDelete, Refuse, telegram
<1>4. Queued(queue') \subseteq Asked
  <2>1. CASE ServeSend(r)
    BY <2>1 DEF ServeSend, Queued, Rest, NetInv
  <2>2. CASE ServeEdit(r)
    BY <2>2 DEF ServeEdit, Queued, Rest, NetInv
  <2>3. CASE ServeDelete(r)
    BY <2>3 DEF ServeDelete, Remove, Queued, Rest, NetInv
  <2>4. CASE Refuse(r)
    BY <2>4 DEF Refuse, telegram, Rest, NetInv
  <2>5. QED BY <2>1, <2>2, <2>3, <2>4
<1>5. \A n \in notices' : n.sent => n.parts \subseteq published
  <2>1. CASE ServeDelete(r)
    BY <2>1 DEF ServeDelete, Notify, Rest, NetInv
  <2>2. CASE notices' = notices
    BY <2>2 DEF Rest, NetInv
  <2>3. QED BY <2>1, <2>2 DEF ServeSend, ServeEdit, Refuse, telegram
<1>6. Known'
  BY <1>1, <1>3, <1>4, <1>5 DEF Known, Rest, NetInv
<1>7. NetInv'
  BY <1>1, <1>2, <1>6, ReplyKeeps, NetKept DEF Rest
<1>8. QED BY <1>1, <1>2, <1>3, <1>7, ReplyKeeps, QuietStep

(* What happens in Telegram without a request. *)
LEMMA OutsideKeeps ==
  ASSUME TypeOK, Rest, wk' = wk, net' = net, OnlyTelegram,
         published \subseteq published', Known'
  PROVE  Rest'
<1>1. \A w \in Workers : Same(w)
  BY DEF Same
<1>2. row' = row /\ asks' = asks /\ Asked \subseteq Asked'
  BY DEF OnlyTelegram, Asked
<1>3. NetInv'
  BY <1>2, NetKept DEF Rest
<1>4. QED BY <1>1, <1>2, <1>3, QuietStep

LEMMA TelegramKeeps == ASSUME TypeOK, Rest, Telegram PROVE Rest'
<1> Known /\ (OnlyTelegram => Asked' = Asked)
  BY DEF Rest, NetInv, Known, OnlyTelegram, Asked
<1>1. ASSUME NEW x \in Parts, Publish(x) PROVE Rest'
  <2> DEFINE unit == IF x \in Photos THEN PartsOf(PostOf[x]) \cap Photos \cap Queued(queue)
                                     ELSE {x}
  <2>1. unit \subseteq Queued(queue)
    BY <1>1 DEF Publish, Queued
  <2>2. /\ Remove(unit) /\ Notify(unit, TRUE) /\ published' = published \cup unit
        /\ wk' = wk /\ net' = net /\ OnlyTelegram
    BY <1>1 DEF Publish
  <2> HIDE DEF unit
  <2>3. Queued(queue') \subseteq Queued(queue)
    BY <2>2 DEF Remove, Queued
  <2>4. \A n \in notices' : n.sent => n.parts \subseteq published'
    BY <2>2 DEF Notify, Known
  <2>5. Known'
    BY <2>1, <2>2, <2>3, <2>4 DEF Known
  <2>6. QED BY <2>2, <2>5, OutsideKeeps
<1>2. ASSUME NEW x \in Parts, ExternalDelete(x) PROVE Rest'
  <2>1. Queued(queue') \subseteq Queued(queue)
    BY <1>2 DEF ExternalDelete, Remove, Queued
  <2>2. Known'
    BY <1>2, <2>1 DEF Known, ExternalDelete, Notify
  <2>3. QED BY <1>2, <2>2, OutsideKeeps DEF ExternalDelete
<1>3. ASSUME NEW x \in Parts, NEW m \in Message, ExternalEdit(x, m) PROVE Rest'
  <2>1. Queued(queue') \subseteq Queued(queue)
    BY <1>3 DEF ExternalEdit, Queued, TypeOK, History
  <2>2. Known'
    BY <1>3, <2>1 DEF Known, ExternalEdit
  <2>3. QED BY <1>3, <2>2, OutsideKeeps DEF ExternalEdit
<1>4. ASSUME NEW n \in notices, LoseNotice(n) PROVE Rest'
  <2>1. Known'
    BY <1>4 DEF Known, LoseNotice, Queued
  <2>2. QED BY <1>4, <2>1, OutsideKeeps DEF LoseNotice
<1>5. QED BY <1>1, <1>2, <1>3, <1>4, ServeKeeps DEF Telegram

-----------------------------------------------------------------------------
(* One worker moves *)

(* The others are as they were, and so are their requests. *)
LEMMA Alone ==
  ASSUME TypeOK, NEW w \in Workers, NEW l, wk' = [wk EXCEPT ![w] = l]
  PROVE  wk'[w] = l /\ \A v \in Workers \ {w} : wk'[v] = wk[v] /\ Same(v)
BY DEF TypeOK, Same

LEMMA NetOthers ==
  ASSUME TypeOK, NetInv, Known', Asked \subseteq Asked', net' \subseteq net,
         NEW w \in Workers, wk[w].pc # "await",
         \A v \in Workers \ {w} : wk'[v].pc = wk[v].pc /\ wk'[v].act = wk[v].act
  PROVE  NetInv'
<1>1. ASSUME NEW r \in net', r.by # None PROVE r.by \in Workers \ {w}
  BY <1>1 DEF TypeOK, Request, NetInv
<1>2. QED BY <1>1, NetKept

LEMMA KnownKept ==
  ASSUME Rest, UNCHANGED telegram, Asked \subseteq Asked'
  PROVE  Known'
BY DEF Rest, NetInv, Known, telegram, Queued

(* A worker stops, starts or lets go of the lock. *)
LEMMA OutsideProcess ==
  ASSUME TypeOK, Rest, NEW w \in Workers, NEW l, wk' = [wk EXCEPT ![w] = l],
         l.pc \notin ProcessSteps, BatchTrue(w)',
         row' = row, asks' = asks, published' = published, NetInv'
  PROVE  Rest'
<1>1. wk'[w].pc \notin ProcessSteps /\ \A v \in Workers \ {w} : Same(v)
  BY Alone
<1>2. QED BY <1>1, QuietStep

LEMMA AtBatch ==
  ASSUME NEW w, NEW pc, NEW s, NEW a, wk'[w] = At(pc, s, a)
  PROVE  BatchTrue(w)'
BY DEF BatchTrue, At, NoNotice

LEMMA EnvironmentKeeps ==
  ASSUME TypeOK, Rest, Environment
  PROVE  Rest' \/ \E p \in Posts : LeaseLapses(p)
<1>1. CASE PermissionAges
  BY <1>1, StillStep DEF PermissionAges, telegram
<1>2. ASSUME NEW w \in Workers, Start(w) PROVE Rest'
  <2>1. PICK s, a : wk' = [wk EXCEPT ![w] = At("idle", s, a)]
    BY <1>2 DEF Start
  <2>2. wk'[w] = At("idle", s, a) /\ \A v \in Workers \ {w} : wk'[v] = wk[v]
    BY <2>1, Alone
  <2>3. BatchTrue(w)'
    BY <2>2, AtBatch
  <2>4. Known' /\ Asked' = Asked /\ net' = net /\ row' = row /\ asks' = asks
    BY <1>2, KnownKept DEF Start, Asked
  <2>5. NetInv'
    BY <1>2, <2>2, <2>4, NetOthers DEF Start, Rest
  <2>6. At("idle", s, a).pc \notin ProcessSteps
    BY DEF At, ProcessSteps
  <2>7. QED BY <1>2, <2>1, <2>3, <2>4, <2>5, <2>6, OutsideProcess DEF Start, telegram
<1>3. ASSUME NEW w \in Workers, Crash(w) PROVE Rest'
  <2>1. wk' = [wk EXCEPT ![w] = At("down", None, None)]
    BY <1>3 DEF Crash
  <2>2. wk'[w] = At("down", None, None) /\ \A v \in Workers \ {w} : wk'[v] = wk[v]
    BY <2>1, Alone
  <2>3. BatchTrue(w)'
    BY <2>2, AtBatch
  <2>4. Known' /\ Asked' = Asked /\ net' = Orphaned(w) /\ row' = row /\ asks' = asks
    BY <1>3, KnownKept DEF Crash, Asked
  <2>5. NetInv'
    BY <2>2, <2>4, NetOrphaned DEF Rest
  <2>6. At("down", None, None).pc \notin ProcessSteps
    BY DEF At, ProcessSteps
  <2>7. QED BY <1>3, <2>1, <2>3, <2>4, <2>5, <2>6, OutsideProcess DEF Crash, telegram
<1>4. QED BY <1>1, <1>2, <1>3 DEF Environment

(* A worker in process moves to another step of its action. *)
LEMMA ProcessMoves ==
  ASSUME TypeOK, Rest, NEW w \in Workers, Busy(w), NEW pc, NEW risky,
         wk' = [wk EXCEPT ![w] = [@ EXCEPT !.pc = pc, !.risky = risky]],
         wk[w].risky => risky,
         pc \in StepsOf(wk[w].act),
         wk[w].act = "schedule" =>
           pc = "fail" \/ (pc = "send" /\ wk[w].pc = "check"),
         row' = row, asks' = asks, published' = published, NetInv'
  PROVE  Rest'
<1> DEFINE l == [wk[w] EXCEPT !.pc = pc, !.risky = risky]
<1>1. wk'[w] = l /\ \A v \in Workers \ {w} : Same(v)
  BY Alone
<1>2. /\ l.pc = pc /\ l.job = wk[w].job /\ l.act = wk[w].act /\ l.have = wk[w].have
      /\ l.risky = risky /\ l.note = wk[w].note /\ l.todo = wk[w].todo
  BY DEF TypeOK, Local
<1> HIDE DEF l
<1>3. Moved(w)
  BY <1>1, <1>2 DEF Moved
<1>4. QED BY <1>1, <1>3, QuietStep

(* The action a busy worker carries out, by where it stands. *)
LEMMA ActOf ==
  ASSUME TypeOK, Rest, NEW w \in Workers
  PROVE  /\ Busy(w) => /\ wk[w].act \in Actions /\ wk[w].job \in Posts
                       /\ "fail" \in StepsOf(wk[w].act)
                       /\ wk[w].act # "schedule" => wk[w].risky
         /\ wk[w].pc = "check" => Busy(w)
         /\ wk[w].pc \in {"send", "accepted"} => Busy(w) /\ wk[w].act = "schedule"
         /\ wk[w].pc \in {"edit", "verify"} => Busy(w) /\ wk[w].act = "update"
         /\ wk[w].pc \in {"cancel", "gone"} => Busy(w) /\ wk[w].act = "cancel"
         /\ wk[w].pc = "confirm" => Busy(w) /\ wk[w].act \in {"schedule", "update"}
         /\ wk[w].pc \in {"await", "fail"} => Busy(w)
<1>1. JobTrue(w)
  BY DEF Rest, JobsInv
<1>2. Busy(w) => wk[w].act \in Actions /\ wk[w].pc \in StepsOf(wk[w].act)
  BY <1>1 DEF JobTrue
<1>3. QED BY <1>1, <1>2 DEF JobTrue, Busy, ProcessSteps, StepsOf, Actions

LEMMA FailsKeeps ==
  ASSUME TypeOK, Rest, NEW w \in Workers, Busy(w), wk[w].pc # "await",
         Fails(w) \/ FailsAtRisk(w), UNCHANGED telegram
  PROVE  Rest'
<1>1. wk[w].risky \in BOOLEAN /\ wk[w] \in Local
  BY DEF TypeOK, Local
<1>2. wk' = [wk EXCEPT ![w] = [@ EXCEPT !.pc = "fail", !.risky = wk[w].risky]]
      \/ wk' = [wk EXCEPT ![w] = [@ EXCEPT !.pc = "fail", !.risky = TRUE]]
  <2>1. [wk[w] EXCEPT !.pc = "fail"] = [wk[w] EXCEPT !.pc = "fail", !.risky = wk[w].risky]
    BY <1>1 DEF Local
  <2>2. QED BY <2>1 DEF Fails, Step, FailsAtRisk
<1>3. \A v \in Workers \ {w} : wk'[v] = wk[v]
  BY <1>2, Alone
<1>4. /\ row' = row /\ net' = net /\ asks' = asks /\ published' = published
      /\ Asked' = Asked
  BY DEF Fails, FailsAtRisk, telegram, Asked
<1>5. NetInv'
  BY <1>3, <1>4, KnownKept, NetOthers DEF Rest
<1>6. "fail" \in StepsOf(wk[w].act)
  BY ActOf
<1>7. QED BY <1>2, <1>4, <1>5, <1>6, ProcessMoves

(* The same without a change of the verdict a failure gets. *)
LEMMA StepMoves ==
  ASSUME TypeOK, Rest, NEW w \in Workers, Busy(w), NEW pc, Step(w, pc),
         pc \in StepsOf(wk[w].act),
         wk[w].act = "schedule" =>
           pc = "fail" \/ (pc = "send" /\ wk[w].pc = "check"),
         row' = row, asks' = asks, published' = published, NetInv'
  PROVE  Rest'
<1>1. [wk[w] EXCEPT !.pc = pc] = [wk[w] EXCEPT !.pc = pc, !.risky = wk[w].risky]
  BY DEF TypeOK, Local
<1>2. wk' = [wk EXCEPT ![w] = [@ EXCEPT !.pc = pc, !.risky = wk[w].risky]]
  BY <1>1 DEF Step
<1>3. QED BY <1>2, ProcessMoves

LEMMA PreflightKeeps == ASSUME TypeOK, Rest, NEW w \in Workers, Preflight(w) PROVE Rest'
<1>1. /\ Busy(w) /\ wk[w].act \in Actions /\ wk[w].pc = "check"
      /\ UNCHANGED telegram
  BY ActOf DEF Preflight
<1>2. CASE Fails(w)
  BY <1>1, <1>2, FailsKeeps
<1>3. CASE Step(w, FirstStep(wk[w].act)) /\ UNCHANGED <<row, net, asks>>
  <2>1. /\ FirstStep(wk[w].act) \in StepsOf(wk[w].act)
        /\ wk[w].act = "schedule" => FirstStep(wk[w].act) = "send"
    BY <1>1 DEF FirstStep, StepsOf, Actions
  <2>2. \A v \in Workers \ {w} : wk'[v] = wk[v]
    BY <1>3, Alone DEF Step
  <2>3. Asked' = Asked /\ net' = net
    BY <1>3 DEF Asked
  <2>4. NetInv'
    BY <1>1, <2>2, <2>3, KnownKept, NetOthers DEF Rest
  <2>5. QED BY <1>1, <1>3, <2>1, <2>4, StepMoves DEF telegram
<1>4. QED BY <1>2, <1>3 DEF Preflight

LEMMA TimeoutKeeps == ASSUME TypeOK, Rest, NEW w \in Workers, Timeout(w) PROVE Rest'
<1>1. Busy(w) /\ "fail" \in StepsOf(wk[w].act)
  BY ActOf DEF Timeout
<1>2. /\ Step(w, "fail") /\ net' = Orphaned(w) /\ row' = row /\ asks' = asks
      /\ published' = published /\ Asked' = Asked /\ UNCHANGED telegram
  BY DEF Timeout, OnlyRows, telegram, Asked
<1>3. \A v \in Workers \ {w} : wk'[v] = wk[v]
  BY <1>2, Alone DEF Step
<1>4. NetInv'
  BY <1>2, <1>3, KnownKept, NetOrphaned DEF Rest
<1>5. QED BY <1>1, <1>2, <1>4, StepMoves

(* A change or a deletion is asked for. *)
LEMMA AskKeeps ==
  ASSUME TypeOK, Rest, NEW w \in Workers, Busy(w), NEW op \in {"edit", "delete"},
         NEW parts, Ask(w, op, parts), wk[w].pc # "await", wk[w].act # "schedule",
         "await" \in StepsOf(wk[w].act), NextAfter(op) \in StepsOf(wk[w].act),
         asks' = asks, UNCHANGED telegram
  PROVE  Rest'
<1>1. /\ wk' = [wk EXCEPT ![w] = [@ EXCEPT !.pc = "await", !.risky = TRUE]]
      /\ net' = net \cup {[op |-> op, parts |-> parts, text |-> wk[w].goal, by |-> w]}
      /\ row' = row /\ Asked' = Asked /\ published' = published
  BY DEF Ask, Asked, telegram
<1>2. /\ wk'[w].pc = "await" /\ wk'[w].act = wk[w].act
      /\ \A v \in Workers \ {w} : wk'[v] = wk[v]
  BY <1>1, Alone DEF TypeOK, Local
<1>3. Known'
  BY <1>1, KnownKept
<1>4. op # "send"
  OBVIOUS
<1>5. NetInv'
  BY <1>1, <1>2, <1>3, <1>4, NetAsked DEF Rest
<1>6. QED BY <1>1, <1>5, ProcessMoves

LEMMA EditKeeps == ASSUME TypeOK, Rest, NEW w \in Workers, Edit(w) PROVE Rest'
<1>1. Busy(w) /\ wk[w].act = "update" /\ wk[w].pc = "edit" /\ UNCHANGED telegram
  BY ActOf DEF Edit, OnlyRows
<1>2. CASE FailsAtRisk(w)
  BY <1>1, <1>2, FailsKeeps
<1>3. CASE Ask(w, "edit", Oldest(wk[w].left)) /\ asks' = asks
  BY <1>1, <1>3, AskKeeps DEF StepsOf, NextAfter
<1>4. QED BY <1>2, <1>3 DEF Edit

LEMMA CancelKeeps == ASSUME TypeOK, Rest, NEW w \in Workers, Cancel(w) PROVE Rest'
<1>1. Busy(w) /\ wk[w].act = "cancel" /\ wk[w].pc = "cancel" /\ UNCHANGED telegram
  BY ActOf DEF Cancel, OnlyRows
<1>2. CASE FailsAtRisk(w)
  BY <1>1, <1>2, FailsKeeps
<1>3. CASE Ask(w, "delete", PartsOf(wk[w].job)) /\ asks' = asks
  BY <1>1, <1>3, AskKeeps DEF StepsOf, NextAfter
<1>4. QED BY <1>2, <1>3 DEF Cancel

-----------------------------------------------------------------------------
(* Saving the ids of the parts *)

(* save_parts writes ids and texts, nothing else. *)
LEMMA SavePartsFields ==
  ASSUME NEW r \in Row, NEW w, NEW have, NEW seen
  PROVE  LET s == SaveParts(r, w, have, seen)
         IN  /\ s.status = r.status /\ s.action = r.action /\ s.lease = r.lease
             /\ s.pubs = r.pubs /\ (s.lapsed => r.lapsed)
             /\ s.ids = IF r.lease = w THEN have ELSE r.ids
BY DEF SaveParts, Row

(* Ids that Telegram gave can be saved. *)
LEMMA SavedRow ==
  ASSUME TypeOK, Rest, NEW w \in Workers, NEW p \in Posts, NEW have, NEW seen,
         row' = [row EXCEPT ![p] = SaveParts(@, w, have, seen)],
         have \subseteq Asked, asks' = asks, published' = published,
         \A v \in Workers : wk'[v].todo \subseteq Posts
  PROVE  /\ CommandMatchesStatus' /\ RowsInv'
         /\ \A v \in Workers : JobKept(v) /\ BatchKept(v)
         /\ \A q \in Posts : /\ row'[q].status = row[q].status
                             /\ row'[q].action = row[q].action
                             /\ row'[q].lease = row[q].lease
<1>1. row[p] \in Row /\ row'[p] = SaveParts(row[p], w, have, seen)
  BY DEF TypeOK
<1>2. \A q \in Posts \ {p} : row'[q] = row[q]
  BY DEF TypeOK
<1>3. /\ row'[p].status = row[p].status /\ row'[p].action = row[p].action
      /\ row'[p].lease = row[p].lease /\ row'[p].pubs = row[p].pubs
      /\ row'[p].ids \in {have, row[p].ids} /\ (row'[p].lapsed => row[p].lapsed)
  BY <1>1, SavePartsFields
<1>4. CommandMatches(p)'
  BY <1>3 DEF Rest, CommandMatchesStatus, CommandMatches
<1>5. Asked' = Asked /\ PartsOf(p)' = PartsOf(p)
  BY DEF Asked, PartsOf
<1>6. RowTrue(p)
  BY DEF Rest, RowsInv
<1>7. RowTrue(p)'
  BY <1>3, <1>5, <1>6 DEF RowTrue, Untransferred, Held
<1>8. \A v \in Workers : wk[v].job = p => JobKept(v)
  BY <1>3 DEF JobKept
<1>9. QED BY <1>2, <1>3, <1>4, <1>7, <1>8, RowWritten

LEMMA VerifyKeeps == ASSUME TypeOK, Rest, NEW w \in Workers, Verify(w) PROVE Rest'
<1>1. /\ Busy(w) /\ wk[w].act = "update" /\ wk[w].pc = "verify" /\ wk[w].job \in Posts
      /\ UNCHANGED telegram
  BY ActOf DEF Verify, OnlyRows
<1>2. CASE Fails(w)
  BY <1>1, <1>2, FailsKeeps
<1>3. ASSUME ~Fails(w) PROVE Rest'
  <2>1. PICK seen, left, pc :
          /\ pc \in {"confirm", "edit"}
          /\ wk' = [wk EXCEPT ![w] = [@ EXCEPT !.left = left, !.pc = pc]]
          /\ row' = [row EXCEPT ![wk[w].job] = SaveParts(@, w, wk[w].have, seen)]
          /\ UNCHANGED <<net, asks>>
    <3> DEFINE u == Oldest(wk[w].left)
               l == wk[w].left \ u
               s == [x \in Parts |-> IF x \in u THEN wk[w].goal[x]
                                                ELSE row[wk[w].job].seen[x]]
               d == IF l = {} THEN "confirm" ELSE "edit"
    <3>1. /\ wk' = [wk EXCEPT ![w] = [@ EXCEPT !.left = l, !.pc = d]]
          /\ row' = [row EXCEPT ![wk[w].job] = SaveParts(@, w, wk[w].have, s)]
          /\ UNCHANGED <<net, asks>>
      BY <1>3 DEF Verify
    <3>2. d \in {"confirm", "edit"}
      OBVIOUS
    <3> HIDE DEF d, s, l
    <3>3. QED BY <3>1, <3>2
  <2>2. /\ wk'[w] = [wk[w] EXCEPT !.left = left, !.pc = pc]
        /\ \A v \in Workers \ {w} : wk'[v] = wk[v] /\ Same(v)
    BY <2>1, Alone
  <2>3. /\ wk'[w].pc = pc /\ wk'[w].job = wk[w].job /\ wk'[w].act = wk[w].act
        /\ wk'[w].have = wk[w].have /\ wk'[w].risky = wk[w].risky
        /\ wk'[w].note = wk[w].note /\ wk'[w].todo = wk[w].todo
    BY <2>2 DEF TypeOK, Local
  <2>4. Moved(w)
    BY <1>1, <2>1, <2>3 DEF Moved, StepsOf
  <2>5. wk[w].have \subseteq Asked
    BY <1>1 DEF Rest, JobsInv, JobTrue
  <2>6. \A v \in Workers : wk'[v].todo \subseteq Posts
    BY <2>2, <2>3 DEF TypeOK, Local
  <2>7. published' = published /\ asks' = asks /\ Asked' = Asked /\ net' = net
    BY <1>1, <2>1 DEF telegram, Asked
  <2>8. /\ CommandMatchesStatus' /\ RowsInv'
        /\ \A v \in Workers : JobKept(v) /\ BatchKept(v)
    BY <1>1, <2>1, <2>5, <2>6, <2>7, SavedRow
  <2>9. JobsInv' /\ SendInv' /\ BatchInv'
    BY <2>2, <2>4, <2>7, <2>8, AllWorkersKept
  <2>10. NetInv'
    BY <1>1, <2>2, <2>7, KnownKept, NetOthers DEF Rest
  <2>11. NoBlindResend'
    BY <2>7 DEF Rest, NoBlindResend
  <2>12. QED BY <2>8, <2>9, <2>10, <2>11 DEF Rest
<1>4. QED BY <1>2, <1>3

LEMMA AcceptedKeeps == ASSUME TypeOK, Rest, NEW w \in Workers, Accepted(w) PROVE Rest'
<1> DEFINE p == wk[w].job
           mine == PartsOf(wk[w].job)
           have == wk[w].have \cup Unit(w)
           seen == [x \in Parts |-> IF x \in Unit(w) THEN wk[w].goal[x] ELSE row[p].seen[x]]
           pc == IF mine \subseteq have THEN "confirm" ELSE "send"
<1>1. /\ wk[w].pc = "accepted" /\ Busy(w) /\ wk[w].act = "schedule" /\ p \in Posts
      /\ Sending(w)
  BY ActOf DEF Accepted, Sending
<1>2. /\ wk' = [wk EXCEPT ![w] = [@ EXCEPT !.have = have, !.pc = pc]]
      /\ row' = [row EXCEPT ![p] = SaveParts(@, w, have, seen)]
      /\ net' = net /\ asks' = asks /\ published' = published /\ UNCHANGED telegram
  BY DEF Accepted, OnlyRows, telegram
<1>3. /\ Unit(w) \subseteq Asked /\ (mine \ have) \cap Asked = {}
      /\ row[p].status \notin Untransferred
      /\ ~wk[w].risky => mine \cap Asked = {}
      /\ mine \cap Photos \cap wk[w].have = {} \/ mine \cap Photos \subseteq wk[w].have
  BY <1>1 DEF Rest, SendInv, SendTrue
<1>4. wk[w].have \subseteq Asked /\ (row[p].lease = w => row[p].action = "schedule")
  BY <1>1 DEF Rest, JobsInv, JobTrue
<1>5. mine \cap Photos \cap have = {} \/ mine \cap Photos \subseteq have
  BY <1>3 DEF Unit
<1>6. have \subseteq Asked
  BY <1>3, <1>4
<1>7. pc \in {"confirm", "send"} /\ (pc = "confirm" => mine \subseteq have)
  OBVIOUS
<1>8. Asked' = Asked /\ mine' = PartsOf(wk'[w].job)
  BY <1>2 DEF Asked
<1>9. /\ wk'[w] = [wk[w] EXCEPT !.have = have, !.pc = pc]
      /\ \A v \in Workers \ {w} : wk'[v] = wk[v] /\ Same(v)
  BY <1>2, Alone
<1> HIDE DEF pc, have, seen
<1>10. /\ wk'[w].pc = pc /\ wk'[w].job = wk[w].job /\ wk'[w].act = wk[w].act
       /\ wk'[w].have = have /\ wk'[w].risky = wk[w].risky
       /\ wk'[w].note = wk[w].note /\ wk'[w].todo = wk[w].todo
  BY <1>9 DEF TypeOK, Local
<1>11. \A v \in Workers : wk'[v].todo \subseteq Posts
  BY <1>9, <1>10 DEF TypeOK, Local
<1>12. /\ CommandMatchesStatus' /\ RowsInv'
       /\ \A v \in Workers : JobKept(v) /\ BatchKept(v)
       /\ row'[p].status = row[p].status /\ row'[p].action = row[p].action
       /\ row'[p].lease = row[p].lease
  BY <1>1, <1>2, <1>6, <1>11, SavedRow
<1>13. JobTrue(w)'
  BY <1>1, <1>4, <1>6, <1>7, <1>8, <1>10, <1>12 DEF JobTrue, Actions, StepsOf
<1>14. PartsOf(wk'[w].job) = mine
  BY <1>10 DEF PartsOf
<1>15. SendTrue(w)'
  <2> HIDE DEF mine
  <2>1. /\ row'[wk'[w].job].status \notin Untransferred
        /\ (PartsOf(wk'[w].job) \ wk'[w].have) \cap Asked' = {}
        /\ wk'[w].pc = "confirm" => PartsOf(wk'[w].job) \subseteq wk'[w].have
        /\ ~wk'[w].risky => PartsOf(wk'[w].job) \cap Asked' = {}
        /\ \/ PartsOf(wk'[w].job) \cap Photos \cap wk'[w].have = {}
           \/ PartsOf(wk'[w].job) \cap Photos \subseteq wk'[w].have
        /\ wk'[w].pc \notin {"await", "accepted"}
    BY <1>3, <1>5, <1>7, <1>8, <1>10, <1>12, <1>14
  <2>2. QED BY <2>1 DEF SendTrue, Untransferred, PartsOf
<1>16. BatchTrue(w)'
  <2>1. BatchTrue(w)
    BY DEF Rest, BatchInv
  <2>2. QED BY <1>2, <1>10, <1>12, <2>1 DEF BatchTrue, BatchKept
<1>17. Keeps(w)
  BY <1>1, <1>10, <1>13, <1>15, <1>16 DEF Keeps
<1>18. ASSUME NEW v \in Workers \ {w} PROVE Keeps(v)
  <2>1. JobTrue(v) /\ SendTrue(v) /\ BatchTrue(v)
    BY DEF Rest, JobsInv, SendInv, BatchInv
  <2>2. QED BY <1>2, <1>9, <1>12, <2>1, WorkerKept
<1>19. JobsInv' /\ SendInv' /\ BatchInv'
  BY <1>17, <1>18, WorkersKept
<1>20. NetInv'
  BY <1>1, <1>2, <1>8, <1>9, KnownKept, NetOthers DEF Rest
<1>21. NoBlindResend'
  BY <1>2 DEF Rest, NoBlindResend
<1>22. QED BY <1>12, <1>19, <1>20, <1>21 DEF Rest

-----------------------------------------------------------------------------
(* The end of a job *)

(* A revision bump shortens the batches and leaves everything else. *)
LEMMA BumpFields ==
  ASSUME NEW f \in [Workers -> Local], NEW S, NEW v \in Workers
  PROVE  LET b == Bump(f, S)[v]
         IN  /\ b.pc = f[v].pc /\ b.job = f[v].job /\ b.act = f[v].act
             /\ b.have = f[v].have /\ b.risky = f[v].risky /\ b.note = f[v].note
             /\ b.todo = f[v].todo \ S
BY DEF Bump, Local

LEMMA BumpSame ==
  ASSUME TypeOK, NEW S, wk' = Bump(wk, S), NEW v \in Workers
  PROVE  Same(v) /\ wk'[v].todo = wk[v].todo \ S /\ wk'[v].todo \subseteq Posts
<1>1. wk \in [Workers -> Local] /\ wk[v].todo \subseteq Posts
  BY DEF TypeOK, Local
<1>2. QED BY <1>1, BumpFields DEF Same

(* After finish the worker is idle, and if it still held the lease the batches *)
(* of the others no longer have the post.                                      *)
LEMMA FinishedFields ==
  ASSUME TypeOK, NEW w \in Workers, NEW p, wk' = Finished(wk, w, p)
  PROVE  /\ wk'[w].pc = "idle" /\ wk'[w].todo = {} /\ ~wk'[w].note.sent
         /\ \A v \in Workers \ {w} :
              /\ Same(v)
              /\ wk'[v].todo = wk[v].todo \ (IF row[p].lease = w THEN {p} ELSE {})
         /\ \A v \in Workers : wk'[v].todo \subseteq Posts
<1> DEFINE f == [wk EXCEPT ![w] = At("idle", @.session, @.account)]
           S == IF row[p].lease = w THEN {p} ELSE {}
<1>1. f \in [Workers -> Local]
  BY AtType DEF TypeOK, Local
<1>2. wk' = Bump(f, S)
  BY DEF Finished
<1>3. /\ f[w].pc = "idle" /\ f[w].todo = {} /\ ~f[w].note.sent
      /\ \A v \in Workers \ {w} : f[v] = wk[v]
  BY DEF TypeOK, At, NoNotice
<1> HIDE DEF f
<1>4. /\ wk'[w].pc = "idle" /\ wk'[w].todo = {} /\ ~wk'[w].note.sent
  BY <1>1, <1>2, <1>3, BumpFields
<1>5. \A v \in Workers \ {w} : Same(v) /\ wk'[v].todo = wk[v].todo \ S
  BY <1>1, <1>2, <1>3, BumpFields DEF Same
<1>6. \A v \in Workers : wk'[v].todo \subseteq Posts
  BY FinishedType DEF Local
<1>7. QED BY <1>4, <1>5, <1>6

LEMMA FinishFields ==
  ASSUME NEW r \in Row, NEW w, NEW s, NEW snap, r.lease = w
  PROVE  LET f == Finish(r, w, s, snap)
         IN  /\ f.status = s /\ f.action = None /\ f.lease = None /\ ~f.lapsed
             /\ f.ids = r.ids /\ f.pubs = r.pubs
BY DEF Finish, Row

(* finish with a true status ends the command of a row still leased by w. *)
LEMMA FinishKeeps ==
  ASSUME TypeOK, Rest, NEW w \in Workers, Busy(w), wk[w].pc # "await",
         NEW p \in Posts, p = wk[w].job,
         NEW r \in Row, r.status = row[p].status, r.action = row[p].action,
         r.lease = row[p].lease, r.pubs = row[p].pubs, r.ids \subseteq Asked,
         r.lapsed => row[p].lapsed,
         NEW s \in {"scheduled", "cancelled", "needs_review", "failed"}, NEW snap,
         s = "scheduled" => PartsOf(p) \subseteq Asked,
         s = "failed" => Sending(w) /\ PartsOf(p) \cap Asked = {},
         row' = [row EXCEPT ![p] = Finish(r, w, s, snap)],
         wk' = Finished(wk, w, p), net' = net, asks' = asks, UNCHANGED telegram
  PROVE  Rest'
<1>1. published' = published /\ Asked' = Asked /\ PartsOf(p)' = PartsOf(p)
  BY DEF telegram, Asked, PartsOf
<1>2. row'[p] = Finish(r, w, s, snap) /\ \A q \in Posts \ {p} : row'[q] = row[q]
  BY DEF TypeOK
<1>3. ASSUME row[p].lease = w
      PROVE  /\ CommandMatchesStatus' /\ RowsInv'
             /\ \A v \in Workers : JobKept(v) /\ BatchKept(v)
  <2>1. /\ row'[p].status = s /\ row'[p].action = None /\ row'[p].lease = None
        /\ ~row'[p].lapsed
        /\ row'[p].ids = r.ids /\ row'[p].pubs = row[p].pubs
    BY <1>2, <1>3, FinishFields
  <2>2. CommandMatches(p)'
    BY <2>1, NoneAssumption DEF CommandMatches, Actions
  <2>3. RowTrue(p) /\ None \notin Workers
    BY NoneAssumption DEF Rest, RowsInv
  <2>4. RowTrue(p)'
    BY <1>1, <2>1, <2>3 DEF RowTrue, Untransferred, Held
  <2>5. wk'[w].pc = "idle"
    BY FinishedFields
  <2>6. ASSUME NEW v \in Workers, wk[v].job = p, s = "failed"
        PROVE  ~Sending(v)'
    <3>1. CASE v = w
      BY <2>5, <3>1 DEF Sending, Busy, ProcessSteps
    <3>2. CASE v # w
      <4>1. ~Sending(v)
        BY <2>6, <3>2 DEF Rest, SendInv, OneSender
      <4>2. QED BY <3>2, <4>1, FinishedFields DEF Sending, Busy, Same
    <3>3. QED BY <3>1, <3>2
  <2>7. \A v \in Workers : wk[v].job = p => JobKept(v)
    BY <2>1, <2>3, <2>6 DEF JobKept, Untransferred
  <2>8. \A v \in Workers : p \notin wk'[v].todo
    BY <1>3, FinishedFields
  <2>9. \A v \in Workers : wk'[v].todo \subseteq Posts
    BY FinishedFields
  <2>10. QED BY <1>1, <1>2, <2>2, <2>4, <2>7, <2>8, <2>9, RowWritten
<1>4. ASSUME row[p].lease # w
      PROVE  /\ CommandMatchesStatus' /\ RowsInv'
             /\ \A v \in Workers : JobKept(v) /\ BatchKept(v)
  <2>1. row'[p] = r
    BY <1>2, <1>4 DEF Finish
  <2>2. CommandMatches(p)'
    BY <2>1 DEF Rest, CommandMatchesStatus, CommandMatches
  <2>3. RowTrue(p)
    BY DEF Rest, RowsInv
  <2>4. RowTrue(p)'
    BY <1>1, <2>1, <2>3 DEF RowTrue, Untransferred, Held
  <2>5. \A v \in Workers : wk[v].job = p => JobKept(v)
    BY <2>1 DEF JobKept
  <2>6. \A v \in Workers : wk'[v].todo \subseteq Posts
    BY FinishedFields
  <2>7. QED BY <1>1, <1>2, <2>1, <2>2, <2>4, <2>5, <2>6, RowWritten
<1>5. /\ CommandMatchesStatus' /\ RowsInv'
      /\ \A v \in Workers : JobKept(v) /\ BatchKept(v)
  BY <1>3, <1>4
<1>6. /\ wk'[w].pc \notin ProcessSteps /\ BatchTrue(w)'
      /\ \A v \in Workers \ {w} : Same(v)
  BY FinishedFields DEF ProcessSteps, BatchTrue
<1>7. JobsInv' /\ SendInv' /\ BatchInv'
  BY <1>1, <1>5, <1>6, AllWorkersKept
<1>8. NetInv'
  BY <1>1, <1>6, KnownKept, NetOthers DEF Rest, Same
<1>9. NoBlindResend'
  BY DEF Rest, NoBlindResend
<1>10. QED BY <1>5, <1>7, <1>8, <1>9 DEF Rest

(* finish of a row that save_parts did not touch *)
LEMMA FinishJobKeeps ==
  ASSUME TypeOK, Rest, NEW w \in Workers, Busy(w), wk[w].pc # "await",
         NEW s \in {"scheduled", "cancelled"}, NEW snap, FinishJob(w, s, snap),
         s = "scheduled" => PartsOf(wk[w].job) \subseteq Asked, UNCHANGED telegram
  PROVE  Rest'
<1>1. wk[w].job \in Posts
  BY ActOf
<1>2. row[wk[w].job] \in Row /\ row[wk[w].job].ids \subseteq Asked
  BY <1>1 DEF TypeOK, Rest, RowsInv, RowTrue
<1>3. /\ row' = [row EXCEPT ![wk[w].job] = Finish(row[wk[w].job], w, s, snap)]
      /\ wk' = Finished(wk, w, wk[w].job) /\ net' = net /\ asks' = asks
  BY DEF FinishJob
<1>4. QED BY <1>1, <1>2, <1>3, FinishKeeps

LEMMA GoneKeeps == ASSUME TypeOK, Rest, NEW w \in Workers, Gone(w) PROVE Rest'
<1>1. Busy(w) /\ wk[w].pc = "gone" /\ UNCHANGED telegram
  BY ActOf DEF Gone, OnlyRows
<1>2. Fails(w) \/ FinishJob(w, "cancelled", row[wk[w].job].snap)
  BY DEF Gone
<1>3. QED BY <1>1, <1>2, FailsKeeps, FinishJobKeeps

LEMMA ConfirmKeeps == ASSUME TypeOK, Rest, NEW w \in Workers, Confirm(w) PROVE Rest'
<1>1. Busy(w) /\ wk[w].pc = "confirm" /\ UNCHANGED telegram
  BY ActOf DEF Confirm, OnlyRows
<1>2. CASE Fails(w)
  BY <1>1, <1>2, FailsKeeps
<1>3. CASE PartsOf(wk[w].job) \subseteq Queued(queue) /\ FinishJob(w, "scheduled", wk[w].goal)
  <2>1. PartsOf(wk[w].job) \subseteq Asked
    BY <1>3 DEF Rest, NetInv
  <2>2. QED BY <1>1, <1>3, <2>1, FinishJobKeeps
<1>4. QED BY <1>2, <1>3 DEF Confirm

LEMMA FailKeeps == ASSUME TypeOK, Rest, NEW w \in Workers, Fail(w) PROVE Rest'
<1> DEFINE p == wk[w].job
           r == SaveParts(row[p], w, wk[w].have, row[p].seen)
           s == IF wk[w].risky THEN "needs_review" ELSE "failed"
<1>1. /\ Busy(w) /\ wk[w].pc = "fail" /\ p \in Posts /\ UNCHANGED telegram
      /\ wk[w].act # "schedule" => wk[w].risky
  BY ActOf DEF Fail, OnlyRows
<1>2. row[p] \in Row /\ row[p].ids \subseteq Asked /\ wk[w].have \subseteq Asked
      /\ row[p].seen \in [Parts -> Contents \cup {None}] /\ wk[w].have \in SUBSET Parts
  BY <1>1 DEF TypeOK, Row, Local, Rest, RowsInv, RowTrue, JobsInv, JobTrue
<1>3. r \in Row
  BY <1>2, SavePartsType
<1>4. /\ r.status = row[p].status /\ r.action = row[p].action
      /\ r.lease = row[p].lease /\ r.pubs = row[p].pubs /\ r.ids \subseteq Asked
      /\ r.lapsed => row[p].lapsed
  BY <1>2, SavePartsFields
<1>5. /\ row' = [row EXCEPT ![p] = Finish(r, w, s, row[p].snap)]
      /\ wk' = Finished(wk, w, p) /\ net' = net /\ asks' = asks
  BY DEF Fail
<1>6. s = "failed" => Sending(w) /\ PartsOf(p) \cap Asked = {}
  <2>1. SendTrue(w)
    BY DEF Rest, SendInv
  <2>2. QED BY <1>1, <2>1 DEF Sending, SendTrue
<1>7. s \in {"scheduled", "cancelled", "needs_review", "failed"} /\ s # "scheduled"
  OBVIOUS
<1> HIDE DEF r, s
<1>8. QED BY <1>1, <1>3, <1>4, <1>5, <1>6, <1>7, FinishKeeps

-----------------------------------------------------------------------------
(* Sending *)

(* The next unit consists of messages of the post without an id, as long as *)
(* an album has all its ids or none.                                        *)
LEMMA UnitMissing ==
  ASSUME NEW w \in Workers,
         LET photos == PartsOf(wk[w].job) \cap Photos
         IN  photos \cap wk[w].have = {} \/ photos \subseteq wk[w].have
  PROVE  Unit(w) \subseteq PartsOf(wk[w].job) \ wk[w].have
BY DEF Unit, Oldest

(* The parts handed over belong to this sender's post only. *)
LEMMA SendKeeps == ASSUME TypeOK, Rest, NEW w \in Workers, Send(w) PROVE Rest'
<1> DEFINE p == wk[w].job
           mine == PartsOf(wk[w].job)
           have == wk[w].have
           u == Unit(w)
<1>1. /\ wk[w].pc = "send" /\ Busy(w) /\ Sending(w) /\ p \in Posts
      /\ wk[w].act = "schedule" /\ UNCHANGED telegram
  BY ActOf DEF Send, OnlyRows, Sending
<1>2. CASE FailsAtRisk(w)
  BY <1>1, <1>2, FailsKeeps
<1>3. ASSUME Ask(w, "send", u),
             asks' = [x \in Parts |-> IF x \in u THEN asks[x] + 1 ELSE asks[x]]
      PROVE  Rest'
  <2>1. /\ row[p].status \notin Untransferred
        /\ (mine \ have) \cap Asked = {}
        /\ mine \cap Photos \cap have = {} \/ mine \cap Photos \subseteq have
    BY <1>1 DEF Rest, SendInv, SendTrue
  <2>2. u \subseteq mine \ have
    BY <2>1, UnitMissing
  <2>3. u \cap Asked = {}
    BY <2>1, <2>2
  <2>4. \A x \in Parts : asks[x] \in Nat /\ (x \in Asked <=> asks[x] > 0)
    BY DEF TypeOK, Asked
  <2>5. Asked' = Asked \cup u
    <3>1. u \subseteq Parts
      BY UnitType
    <3>2. \A x \in Parts : asks'[x] > 0 <=> (asks[x] > 0 \/ x \in u)
      BY <1>3, <2>4
    <3>3. QED BY <3>1, <3>2 DEF Asked
  <2>6. NoBlindResend'
    <3>1. \A x \in Parts : asks'[x] = IF x \in u THEN asks[x] + 1 ELSE asks[x]
      BY <1>3
    <3>2. \A x \in Parts : asks[x] <= 1
      BY DEF Rest, NoBlindResend
    <3>3. \A x \in u : asks[x] = 0
      BY <2>3, <2>4, UnitType
    <3>4. \A x \in Parts : asks'[x] <= 1
      BY <2>4, <3>1, <3>2, <3>3
    <3>5. QED BY <3>4 DEF NoBlindResend
  <2>7. /\ row' = row /\ published' = published
        /\ wk' = [wk EXCEPT ![w] = [@ EXCEPT !.pc = "await", !.risky = TRUE]]
        /\ net' = net \cup {[op |-> "send", parts |-> u, text |-> wk[w].goal, by |-> w]}
    BY <1>1, <1>3 DEF Ask, telegram
  <2>8. /\ wk'[w] = [wk[w] EXCEPT !.pc = "await", !.risky = TRUE]
        /\ \A v \in Workers \ {w} : wk'[v] = wk[v] /\ Same(v)
    BY <2>7, Alone
  <2>9. /\ wk'[w].pc = "await" /\ wk'[w].job = p /\ wk'[w].act = "schedule"
        /\ wk'[w].have = have /\ wk'[w].risky
        /\ wk'[w].note = wk[w].note /\ wk'[w].todo = wk[w].todo
    BY <1>1, <2>8 DEF TypeOK, Local
  <2> HIDE DEF u
  <2>10. \A q \in Posts \ {p} : PartsOf(q) \cap u = {}
    BY <2>2 DEF PartsOf
  <2>11. CommandMatchesStatus'
    BY <2>7 DEF Rest, CommandMatchesStatus, CommandMatches
  <2>12. RowsInv'
    <3> SUFFICES ASSUME NEW q \in Posts PROVE RowTrue(q)'
      BY DEF RowsInv
    <3>1. RowTrue(q) /\ PartsOf(q)' = PartsOf(q)
      BY DEF Rest, RowsInv, PartsOf
    <3>2. q = p \/ PartsOf(q) \cap Asked' = PartsOf(q) \cap Asked
      BY <2>5, <2>10
    <3>3. QED BY <2>1, <2>5, <2>7, <3>1, <3>2 DEF RowTrue, Untransferred, Held
  <2>13. Keeps(w)
    <3>1. JobTrue(w)
      BY DEF Rest, JobsInv
    <3>2. JobTrue(w)'
      BY <1>1, <2>5, <2>7, <2>9, <3>1 DEF JobTrue, Actions, StepsOf
    <3>3. Unit(w)' = u /\ PartsOf(wk'[w].job) = mine
      BY <2>9, UnitSame DEF u, PartsOf
    <3>4. u \subseteq Asked' /\ (mine \ (have \cup u)) \cap Asked' = {}
      BY <2>1, <2>5
    <3> HIDE DEF mine, have, p
    <3>5. SendTrue(w)'
      <4>1. /\ row'[wk'[w].job].status \notin Untransferred
            /\ Unit(w)' \subseteq Asked'
            /\ (PartsOf(wk'[w].job) \ (wk'[w].have \cup Unit(w)')) \cap Asked' = {}
            /\ wk'[w].pc = "await" /\ wk'[w].risky
            /\ \/ PartsOf(wk'[w].job) \cap Photos \cap wk'[w].have = {}
               \/ PartsOf(wk'[w].job) \cap Photos \subseteq wk'[w].have
        BY <2>1, <2>7, <2>9, <3>3, <3>4
      <4>2. QED BY <4>1 DEF SendTrue, Untransferred, PartsOf
    <3>6. BatchTrue(w)'
      BY <2>7, <2>9 DEF Rest, BatchInv, BatchTrue
    <3>7. QED BY <1>1, <2>9, <3>2, <3>5, <3>6 DEF Keeps, p
  <2>14. ASSUME NEW v \in Workers \ {w} PROVE Keeps(v)
    <3>1. JobTrue(v) /\ SendTrue(v) /\ BatchTrue(v) /\ wk'[v] = wk[v]
      BY <2>8 DEF Rest, JobsInv, SendInv, BatchInv
    <3>2. JobTrue(v)'
      BY <2>5, <2>7, <3>1 DEF JobTrue, Busy
    <3>3. BatchTrue(v)'
      BY <2>7, <3>1 DEF BatchTrue
    <3>4. Sending(v)' => Sending(v)
      BY <3>1 DEF Sending, Busy
    <3>5. ASSUME Sending(v)' PROVE SendTrue(v)'
      <4>1. Sending(v) /\ wk[v].job \in Posts \ {p}
        BY <1>1, <3>1, <3>4, <3>5 DEF Rest, SendInv, OneSender, Sending, JobTrue
      <4>2. PartsOf(wk[v].job) \cap u = {}
        BY <2>10, <4>1
      <4>3. Unit(v)' = Unit(v) /\ Unit(v) \subseteq PartsOf(wk[v].job)
        BY <3>1, UnitSame DEF Unit, Oldest
      <4> DEFINE his == PartsOf(wk[v].job)
      <4>4. PartsOf(wk'[v].job) = his
        BY <3>1
      <4>5. his \cap Asked' = his \cap Asked /\ Asked \subseteq Asked'
        BY <2>5, <4>2
      <4> HIDE DEF his
      <4>6. /\ row[wk[v].job].status \notin Untransferred
            /\ wk[v].pc \in {"check", "send"} => (his \ wk[v].have) \cap Asked = {}
            /\ wk[v].pc \in {"await", "accepted"} =>
                 /\ Unit(v) \subseteq Asked
                 /\ (his \ (wk[v].have \cup Unit(v))) \cap Asked = {}
            /\ wk[v].pc = "confirm" => his \subseteq wk[v].have
            /\ ~wk[v].risky => his \cap Asked = {}
            /\ his \cap Photos \cap wk[v].have = {} \/ his \cap Photos \subseteq wk[v].have
        BY <3>1, <4>1 DEF SendTrue, his
      <4>7. /\ row'[wk'[v].job].status \notin Untransferred
            /\ wk'[v].pc \in {"check", "send"} => (his \ wk'[v].have) \cap Asked' = {}
            /\ wk'[v].pc \in {"await", "accepted"} =>
                 /\ Unit(v)' \subseteq Asked'
                 /\ (his \ (wk'[v].have \cup Unit(v)')) \cap Asked' = {}
            /\ wk'[v].pc = "confirm" => his \subseteq wk'[v].have
            /\ ~wk'[v].risky => his \cap Asked' = {}
            /\ his \cap Photos \cap wk'[v].have = {} \/ his \cap Photos \subseteq wk'[v].have
        BY <2>7, <3>1, <4>3, <4>5, <4>6
      <4>8. QED BY <4>4, <4>7 DEF SendTrue, Untransferred, PartsOf
    <3>6. SendTrue(v)'
      BY <3>5 DEF SendTrue
    <3>7. QED BY <3>1, <3>2, <3>3, <3>4, <3>6 DEF Keeps
  <2>15. JobsInv' /\ SendInv' /\ BatchInv'
    BY <2>13, <2>14, WorkersKept
  <2>16. NetInv'
    <3>1. Known' /\ Asked \subseteq Asked' /\ u \subseteq Asked'
      BY <1>1, <2>5, KnownKept
    <3>2. NextAfter("send") \in StepsOf(wk'[w].act) /\ wk[w].pc # "await"
      BY <1>1, <2>9 DEF NextAfter, StepsOf
    <3>3. QED BY <2>7, <2>8, <2>9, <3>1, <3>2, NetAsked DEF Rest
  <2>17. QED BY <2>6, <2>11, <2>12, <2>15, <2>16 DEF Rest
<1>4. QED BY <1>2, <1>3 DEF Send

LEMMA ProcessKeeps == ASSUME TypeOK, Rest, NEW w \in Workers, Process(w) PROVE Rest'
BY PreflightKeeps, SendKeeps, AcceptedKeeps, EditKeeps, VerifyKeeps, CancelKeeps,
   GoneKeeps, ConfirmKeeps, TimeoutKeeps, FailKeeps DEF Process

-----------------------------------------------------------------------------
(* One row is written by someone who does not process it *)

\* The lease stays or is dropped, and what the new row says is true.
MayReplace(p, r) ==
  /\ r.lease = None \/ (r.lease = row[p].lease /\ r.action = row[p].action)
  /\ r.action = "schedule" <=> r.status \in {"queued", "transferring"}
  /\ r.action = "update" <=> r.status = "updating"
  /\ r.action = "cancel" <=> r.status = "cancelling"
  /\ r.lease # None => r.action # None /\ r.status # "queued"
  /\ r.status = "transferring" => r.lease # None
  /\ r.lapsed => r.lease # None
  /\ r.ids \subseteq Asked
  /\ r.pubs \subseteq published
  /\ r.status \in Untransferred =>
       row[p].status \in Untransferred /\ PartsOf(p) \cap Asked = {}
  /\ r.status \in Held => PartsOf(p) \subseteq Asked
  /\ r.status = "published" => PartsOf(p) \subseteq published

(* Such a row is written, and no batch may write it any more. *)
LEMMA OneRowStep ==
  ASSUME TypeOK, Rest, NEW p \in Posts, NEW r, row' = [row EXCEPT ![p] = r],
         net' = net, asks' = asks, published' = published, Known',
         \A w \in Workers : Same(w) /\ p \notin wk'[w].todo,
         MayReplace(p, r)
  PROVE  Rest'
<1>1. row'[p] = r /\ \A q \in Posts \ {p} : row'[q] = row[q]
  BY DEF TypeOK
<1>2. Asked' = Asked /\ PartsOf(p)' = PartsOf(p)
  BY DEF Asked, PartsOf
<1>3. CommandMatches(p)'
  BY <1>1 DEF CommandMatches, MayReplace
<1>4. RowTrue(p)'
  BY <1>1, <1>2 DEF RowTrue, MayReplace, Untransferred, Held
<1>5. ASSUME NEW w \in Workers, wk[w].job = p PROVE JobKept(w)
  BY <1>1, <1>5, NoneAssumption DEF JobKept, MayReplace, Untransferred
<1>6. \A w \in Workers : wk'[w].todo \subseteq Posts
  BY DEF Same, TypeOK, Local
<1>7. /\ CommandMatchesStatus' /\ RowsInv'
      /\ \A w \in Workers : JobKept(w) /\ BatchKept(w)
  BY <1>1, <1>3, <1>4, <1>5, <1>6, RowWritten
<1>8. JobsInv' /\ SendInv' /\ BatchInv'
  BY <1>7, AllWorkersKept
<1>9. \A s \in net' : s.by # None => s.by \in Workers
  BY DEF TypeOK, Request
<1>10. NetInv'
  BY <1>2, <1>9, NetKept DEF Rest, Same
<1>11. NoBlindResend'
  BY DEF Rest, NoBlindResend
<1>12. QED BY <1>7, <1>8, <1>10, <1>11 DEF Rest

(* Only rows without a command are in a batch, and they are not leased. *)
LEMMA BatchRows ==
  ASSUME Rest, NEW w \in Workers, NEW p \in wk[w].todo, p \in Posts
  PROVE  row[p].action = None /\ row[p].lease = None
         /\ row[p].status \in {"scheduled", "needs_review"}
BY DEF Rest, BatchInv, BatchTrue, CommandMatchesStatus, CommandMatches

LEMMA LeaseLapsesKeeps ==
  ASSUME TypeOK, Rest, NEW p \in Posts, LeaseLapses(p) PROVE Rest'
<1> DEFINE r == [row[p] EXCEPT !.lapsed = TRUE]
<1>1. row' = [row EXCEPT ![p] = r] /\ wk' = wk /\ row[p].lease # None
  BY DEF LeaseLapses
<1>2. /\ r.status = row[p].status /\ r.action = row[p].action /\ r.lease = row[p].lease
      /\ r.ids = row[p].ids /\ r.pubs = row[p].pubs
  BY DEF TypeOK, Row
<1> HIDE DEF r
<1>3. RowTrue(p) /\ CommandMatches(p)
  BY DEF Rest, RowsInv, CommandMatchesStatus
<1>4. \A w \in Workers : Same(w) /\ p \notin wk'[w].todo
  BY <1>1, BatchRows DEF Same
<1>5. /\ net' = net /\ asks' = asks /\ published' = published /\ Known'
  BY KnownKept DEF LeaseLapses, telegram, Asked
<1>6. MayReplace(p, r)
  BY <1>1, <1>2, <1>3 DEF MayReplace, CommandMatches, RowTrue
<1>7. QED BY <1>1, <1>4, <1>5, <1>6, OneRowStep

(* A web command of the owner bumps the revision. *)
LEMMA CommandKeeps ==
  ASSUME TypeOK, Rest, NEW p \in Posts,
         \/ CommandCancelQueued(p) \/ CommandCancel(p) \/ Resolve(p)
         \/ \E c \in Contents : Retry(p, c) \/ CommandUpdate(p, c)
  PROVE  Rest'
<1> DEFINE old == row[p]
<1>1. /\ wk' = Bump(wk, {p}) /\ net' = net /\ asks' = asks /\ UNCHANGED telegram
  BY DEF CommandCancelQueued, CommandCancel, Resolve, Retry, CommandUpdate, Command
<1>2. Known' /\ published' = published
  BY <1>1, KnownKept DEF telegram, Asked
<1>3. ASSUME NEW w \in Workers PROVE Same(w) /\ p \notin wk'[w].todo
  <2>1. Same(w) /\ wk'[w].todo = wk[w].todo \ {p}
    BY <1>1, BumpSame
  <2>2. QED BY <2>1
<1>4. old \in Row /\ RowTrue(p) /\ CommandMatches(p)
  BY DEF TypeOK, Rest, RowsInv, CommandMatchesStatus
<1>5. CASE CommandCancelQueued(p)
  <2> DEFINE r == [old EXCEPT !.status = "cancelled", !.action = None]
  <2>1. row' = [row EXCEPT ![p] = r] /\ old.lease = None
    BY <1>5 DEF CommandCancelQueued
  <2>2. /\ r.status = "cancelled" /\ r.action = None /\ r.lease = None
        /\ r.lapsed = old.lapsed /\ r.ids = old.ids /\ r.pubs = old.pubs
    BY <1>4, <2>1 DEF Row
  <2> HIDE DEF r
  <2>3. MayReplace(p, r)
    BY <1>4, <2>1, <2>2, NoneAssumption
       DEF MayReplace, RowTrue, CommandMatches, Actions, Untransferred, Held
  <2>4. QED BY <1>1, <1>2, <1>3, <2>1, <2>3, OneRowStep
<1>6. CASE CommandCancel(p)
  <2> DEFINE r == [old EXCEPT !.status = "cancelling", !.action = "cancel", !.pend = None]
  <2>1. row' = [row EXCEPT ![p] = r] /\ old.action = None /\ PartsOf(p) \subseteq old.ids
    BY <1>6 DEF CommandCancel
  <2>2. /\ r.status = "cancelling" /\ r.action = "cancel" /\ r.lease = old.lease
        /\ r.lapsed = old.lapsed /\ r.ids = old.ids /\ r.pubs = old.pubs /\ old.lease = None
    BY <1>4, <2>1 DEF Row, CommandMatches
  <2> HIDE DEF r
  <2>3. MayReplace(p, r)
    BY <1>4, <2>1, <2>2, NoneAssumption
       DEF MayReplace, RowTrue, CommandMatches, Actions, Untransferred, Held
  <2>4. QED BY <1>1, <1>2, <1>3, <2>1, <2>3, OneRowStep
<1>7. CASE Resolve(p)
  <2> DEFINE r == [old EXCEPT !.status = "cancelled"]
  <2>1. row' = [row EXCEPT ![p] = r] /\ old.action = None
    BY <1>7 DEF Resolve
  <2>2. /\ r.status = "cancelled" /\ r.action = None /\ r.lease = old.lease
        /\ r.lapsed = old.lapsed /\ r.ids = old.ids /\ r.pubs = old.pubs /\ old.lease = None
    BY <1>4, <2>1 DEF Row, CommandMatches
  <2> HIDE DEF r
  <2>3. MayReplace(p, r)
    BY <1>4, <2>1, <2>2, NoneAssumption
       DEF MayReplace, RowTrue, CommandMatches, Actions, Untransferred, Held
  <2>4. QED BY <1>1, <1>2, <1>3, <2>1, <2>3, OneRowStep
<1>8. ASSUME NEW c \in Contents, Retry(p, c) PROVE Rest'
  <2> DEFINE r == [old EXCEPT !.status = "queued", !.action = "schedule",
                              !.snap = [x \in Parts |-> c]]
  <2>1. row' = [row EXCEPT ![p] = r] /\ old.action = None /\ old.status = "failed"
    BY <1>8 DEF Retry
  <2>2. /\ r.status = "queued" /\ r.action = "schedule" /\ r.lease = old.lease
        /\ r.lapsed = old.lapsed /\ r.ids = old.ids /\ r.pubs = old.pubs /\ old.lease = None
    BY <1>4, <2>1 DEF Row, CommandMatches
  <2> HIDE DEF r
  <2>3. MayReplace(p, r)
    BY <1>4, <2>1, <2>2, NoneAssumption
       DEF MayReplace, RowTrue, CommandMatches, Actions, Untransferred, Held
  <2>4. QED BY <1>1, <1>2, <1>3, <2>1, <2>3, OneRowStep
<1>9. ASSUME NEW c \in Contents, CommandUpdate(p, c) PROVE Rest'
  <2> DEFINE r == [old EXCEPT !.status = "updating", !.action = "update", !.pend = c]
  <2>1. row' = [row EXCEPT ![p] = r] /\ old.action = None /\ old.status = "scheduled"
    BY <1>9 DEF CommandUpdate
  <2>2. /\ r.status = "updating" /\ r.action = "update" /\ r.lease = old.lease
        /\ r.lapsed = old.lapsed /\ r.ids = old.ids /\ r.pubs = old.pubs /\ old.lease = None
    BY <1>4, <2>1 DEF Row, CommandMatches
  <2> HIDE DEF r
  <2>3. MayReplace(p, r)
    BY <1>4, <2>1, <2>2, NoneAssumption
       DEF MayReplace, RowTrue, CommandMatches, Actions, Untransferred, Held
  <2>4. QED BY <1>1, <1>2, <1>3, <2>1, <2>3, OneRowStep
<1>10. QED BY <1>5, <1>6, <1>7, <1>8, <1>9

LEMMA CreateKeeps ==
  ASSUME TypeOK, Rest, NEW p \in Posts, NEW c \in Contents, Create(p, c) PROVE Rest'
<1> DEFINE r == [NewRow EXCEPT !.status = "queued", !.action = "schedule",
                               !.snap = [x \in Parts |-> c], !.account = permission]
<1>1. /\ row' = [row EXCEPT ![p] = r] /\ wk' = wk /\ row[p].status = "absent"
      /\ net' = net /\ asks' = asks /\ UNCHANGED telegram
  BY DEF Create
<1>2. /\ r.status = "queued" /\ r.action = "schedule" /\ r.lease = None /\ ~r.lapsed
      /\ r.ids = {} /\ r.pubs = {}
  BY DEF NewRow
<1> HIDE DEF r
<1>3. RowTrue(p)
  BY DEF Rest, RowsInv
<1>4. \A w \in Workers : Same(w) /\ p \notin wk'[w].todo
  BY <1>1, BatchRows DEF Same
<1>5. Known' /\ published' = published
  BY <1>1, KnownKept DEF telegram, Asked
<1>6. MayReplace(p, r)
  BY <1>1, <1>2, <1>3 DEF MayReplace, RowTrue, Untransferred, Held
<1>7. QED BY <1>1, <1>4, <1>5, <1>6, OneRowStep

LEMMA OwnerKeeps == ASSUME TypeOK, Rest, Owner PROVE Rest'
BY CommandKeeps, CreateKeeps DEF Owner

-----------------------------------------------------------------------------
(* Reconciliation *)

(* A worker outside process moves on with its batch. *)
LEMMA BatchMoves ==
  ASSUME TypeOK, Rest, NEW w \in Workers, NEW l, wk' = [wk EXCEPT ![w] = l],
         wk[w].pc # "await", l.pc \notin ProcessSteps, BatchTrue(w)',
         notices' \subseteq notices, row' = row, OnlyReconcile
  PROVE  Rest'
<1>1. /\ published' = published /\ net' = net /\ asks' = asks /\ Asked' = Asked
      /\ queue' = queue
  BY DEF OnlyReconcile, Asked
<1>2. \A v \in Workers \ {w} : wk'[v] = wk[v]
  BY Alone
<1>3. Known'
  BY <1>1 DEF Known, Rest, NetInv, Queued
<1>4. NetInv'
  BY <1>1, <1>2, <1>3, NetOthers DEF Rest
<1>5. QED BY <1>1, <1>4, OutsideProcess

LEMMA ReadKeeps ==
  ASSUME TypeOK, Rest, NEW w \in Workers, OnlyReconcile,
         ReconcileRead(w) \/ \E n \in notices : UpdateRead(w, n)
  PROVE  Rest'
<1>1. BatchTrue(w) /\ row' = row
  BY DEF Rest, BatchInv, ReconcileRead, UpdateRead
<1>2. CASE ReconcileRead(w)
  <2> DEFINE l == [wk[w] EXCEPT !.pc = "reconcile", !.todo = ReconcileRows]
  <2>1. wk' = [wk EXCEPT ![w] = l] /\ wk[w].pc = "idle" /\ notices' = notices
    BY <1>2 DEF ReconcileRead
  <2>2. l.pc = "reconcile" /\ l.todo = ReconcileRows /\ l.note = wk[w].note
    BY DEF TypeOK, Local
  <2> HIDE DEF l
  <2>3. wk'[w] = l
    BY <2>1, Alone
  <2>4. BatchTrue(w)'
    BY <1>1, <2>2, <2>3 DEF BatchTrue, ReconcileRows, OnlyReconcile
  <2>5. QED BY <1>1, <2>1, <2>2, <2>4, BatchMoves DEF ProcessSteps
<1>3. ASSUME NEW n \in notices, UpdateRead(w, n) PROVE Rest'
  <2> DEFINE S == {p \in ReconcileRows : row[p].account = wk[w].account}
             l == [wk[w] EXCEPT !.pc = "handle", !.note = n, !.todo = S]
  <2>1. wk' = [wk EXCEPT ![w] = l] /\ wk[w].pc = "idle" /\ notices' \subseteq notices
    BY <1>3 DEF UpdateRead
  <2>2. l.pc = "handle" /\ l.todo = S /\ l.note = n
    BY DEF TypeOK, Local
  <2> HIDE DEF l
  <2>3. wk'[w] = l
    BY <2>1, Alone
  <2>4. n.sent => n.parts \subseteq published
    BY DEF Rest, NetInv
  <2>5. BatchTrue(w)'
    BY <1>1, <2>2, <2>3, <2>4 DEF BatchTrue, ReconcileRows, OnlyReconcile
  <2>6. QED BY <1>1, <2>1, <2>2, <2>5, BatchMoves DEF ProcessSteps
<1>4. QED BY <1>2, <1>3

LEMMA BatchDoneKeeps ==
  ASSUME TypeOK, Rest, NEW w \in Workers, BatchDone(w), OnlyReconcile PROVE Rest'
<1> DEFINE l == At("idle", wk[w].session, wk[w].account)
<1>1. /\ wk' = [wk EXCEPT ![w] = l] /\ wk[w].pc # "await" /\ row' = row
      /\ notices' = notices
  BY DEF BatchDone, BatchSteps
<1>2. wk'[w] = l
  BY <1>1, Alone
<1>3. BatchTrue(w)' /\ l.pc \notin ProcessSteps
  BY <1>2, AtBatch DEF At, ProcessSteps
<1> HIDE DEF l
<1>4. QED BY <1>1, <1>3, BatchMoves

(* The row is left as it is. *)
LEMMA PassKeeps ==
  ASSUME TypeOK, Rest, NEW w \in Workers, NEW p, Pass(w, p), OnlyReconcile PROVE Rest'
<1>1. wk' = [wk EXCEPT ![w].todo = @ \ {p}] /\ row' = row /\ notices' = notices
  BY DEF Pass
<1>2. \A v \in Workers : Same(v)
  BY <1>1 DEF TypeOK, Local, Same
<1>3. /\ Known' /\ Asked' = Asked /\ net' = net /\ asks' = asks
      /\ published' = published
  BY <1>1 DEF OnlyReconcile, Rest, NetInv, Known, Asked, Queued
<1>4. \A s \in net' : s.by # None => s.by \in Workers
  BY <1>3 DEF TypeOK, Request
<1>5. NetInv'
  BY <1>2, <1>3, <1>4, NetKept DEF Rest, Same
<1>6. QED BY <1>1, <1>2, <1>3, <1>5, QuietStep

(* A row that did not change since it was read is written. *)
LEMMA ConfirmedUpdateKeeps ==
  ASSUME TypeOK, Rest, NEW w \in Workers, NEW p \in Posts, NEW r,
         ConfirmedUpdate(w, p, r), OnlyReconcile, MayReplace(p, r)
  PROVE  Rest'
<1>1. row' = [row EXCEPT ![p] = r] /\ wk' = Bump(wk, {p}) /\ notices' = notices
  BY DEF ConfirmedUpdate
<1>2. ASSUME NEW v \in Workers PROVE Same(v) /\ p \notin wk'[v].todo
  <2>1. Same(v) /\ wk'[v].todo = wk[v].todo \ {p}
    BY <1>1, BumpSame
  <2>2. QED BY <2>1
<1>3. /\ Known' /\ net' = net /\ asks' = asks /\ published' = published
  BY <1>1 DEF OnlyReconcile, Rest, NetInv, Known, Asked, Queued
<1>4. QED BY <1>1, <1>2, <1>3, OneRowStep

(* What a batch row is replaced by: the command and the ids stay. *)
LEMMA BatchReplaces ==
  ASSUME Rest, NEW w \in Workers, NEW p \in Posts, p \in wk[w].todo, NEW r,
         r.action = row[p].action, r.lease = row[p].lease, r.ids = row[p].ids,
         r.pubs \subseteq published, r.lapsed = row[p].lapsed,
         r.status \in {"scheduled", "needs_review", "published", "cancelled"},
         r.status = "scheduled" => PartsOf(p) \subseteq row[p].ids,
         r.status = "published" => PartsOf(p) \subseteq r.pubs
  PROVE  MayReplace(p, r)
<1>1. row[p].action = None /\ row[p].lease = None /\ ~row[p].lapsed
  BY BatchRows DEF Rest, CommandMatchesStatus, CommandMatches
<1>2. RowTrue(p) /\ published \subseteq Asked
  BY DEF Rest, RowsInv, NetInv
<1>3. r.status \in Held => PartsOf(p) \subseteq Asked
  BY <1>2 DEF RowTrue, Held
<1>4. r.status = "published" => PartsOf(p) \subseteq published
  OBVIOUS
<1>5. r.status \notin Untransferred
  BY DEF Untransferred
<1>6. QED BY <1>1, <1>2, <1>3, <1>4, <1>5, NoneAssumption
             DEF MayReplace, RowTrue, Actions

LEMMA UpdatedRowFields ==
  ASSUME TypeOK, NEW p \in Posts, NEW n
  PROVE  LET r == UpdatedRow(p, n)
         IN  /\ r.action = row[p].action /\ r.lease = row[p].lease /\ r.ids = row[p].ids
             /\ r.lapsed = row[p].lapsed
             /\ r.pubs \subseteq row[p].pubs \cup n.parts
             /\ ~n.sent => r.pubs = row[p].pubs
             /\ r.status \in {"needs_review", "published", "cancelled"}
             /\ r.status = "published" => PartsOf(p) \subseteq r.pubs
<1> DEFINE hit == n.parts \cap row[p].ids
           pubs == IF n.sent THEN row[p].pubs \cup hit ELSE row[p].pubs
           cans == IF n.sent THEN row[p].cans ELSE row[p].cans \cup hit
           s == IF PartsOf(p) \subseteq pubs THEN "published"
                ELSE IF PartsOf(p) \subseteq cans THEN "cancelled" ELSE "needs_review"
<1>1. /\ pubs \subseteq row[p].pubs \cup n.parts /\ (~n.sent => pubs = row[p].pubs)
      /\ s \in {"needs_review", "published", "cancelled"}
      /\ s = "published" => PartsOf(p) \subseteq pubs
  OBVIOUS
<1>2. UpdatedRow(p, n) = [row[p] EXCEPT !.pubs = pubs, !.cans = cans, !.status = s]
  BY DEF UpdatedRow
<1> HIDE DEF pubs, cans, s
<1>3. LET r == UpdatedRow(p, n)
      IN  /\ r.action = row[p].action /\ r.lease = row[p].lease /\ r.ids = row[p].ids
          /\ r.lapsed = row[p].lapsed
          /\ r.pubs = pubs /\ r.status = s
  BY <1>2 DEF TypeOK, Row
<1>4. QED BY <1>1, <1>3

LEMMA AdoptedRowFields ==
  ASSUME TypeOK, NEW p \in Posts, NEW h
  PROVE  LET r == AdoptedRow(p, h)
         IN  /\ r.action = row[p].action /\ r.lease = row[p].lease /\ r.ids = row[p].ids
             /\ r.lapsed = row[p].lapsed
             /\ r.pubs = row[p].pubs
             /\ r.status \in {"scheduled", "needs_review"}
BY DEF AdoptedRow, TypeOK, Row

LEMMA NeedsReviewKeeps ==
  ASSUME TypeOK, Rest, NEW w \in Workers, NEW p \in Posts, p \in wk[w].todo,
         NeedsReview(w, p), OnlyReconcile
  PROVE  Rest'
<1> DEFINE r == [row[p] EXCEPT !.status = "needs_review"]
<1>1. CASE Pass(w, p)
  BY <1>1, PassKeeps
<1>2. CASE ConfirmedUpdate(w, p, r)
  <2>1. /\ r.action = row[p].action /\ r.lease = row[p].lease /\ r.ids = row[p].ids
        /\ r.lapsed = row[p].lapsed
        /\ r.pubs = row[p].pubs /\ r.status = "needs_review"
    BY DEF TypeOK, Row
  <2>2. row[p].pubs \subseteq published
    BY DEF Rest, RowsInv, RowTrue
  <2> HIDE DEF r
  <2>3. MayReplace(p, r)
    BY <2>1, <2>2, BatchReplaces
  <2>4. QED BY <1>2, <2>3, ConfirmedUpdateKeeps
<1>3. QED BY <1>1, <1>2 DEF NeedsReview

LEMMA UpdateRowKeeps ==
  ASSUME TypeOK, Rest, NEW w \in Workers, NEW p \in Posts, UpdateRow(w, p), OnlyReconcile
  PROVE  Rest'
<1> DEFINE n == wk[w].note
           r == UpdatedRow(p, n)
<1>1. CASE Pass(w, p)
  BY <1>1, PassKeeps
<1>2. CASE ConfirmedUpdate(w, p, r)
  <2>1. /\ r.action = row[p].action /\ r.lease = row[p].lease /\ r.ids = row[p].ids
        /\ r.lapsed = row[p].lapsed
        /\ r.pubs \subseteq row[p].pubs \cup n.parts
        /\ ~n.sent => r.pubs = row[p].pubs
        /\ r.status \in {"needs_review", "published", "cancelled"}
        /\ r.status = "published" => PartsOf(p) \subseteq r.pubs
    BY UpdatedRowFields
  <2>2. row[p].pubs \subseteq published /\ (n.sent => n.parts \subseteq published)
    BY DEF Rest, RowsInv, RowTrue, BatchInv, BatchTrue
  <2>3. r.pubs \subseteq published
    BY <2>1, <2>2
  <2>4. p \in wk[w].todo
    BY DEF UpdateRow
  <2> HIDE DEF r
  <2>5. MayReplace(p, r)
    BY <2>1, <2>3, <2>4, BatchReplaces
  <2>6. QED BY <1>2, <2>5, ConfirmedUpdateKeeps
<1>3. QED BY <1>1, <1>2 DEF UpdateRow

LEMMA ReconcileRowKeeps ==
  ASSUME TypeOK, Rest, NEW w \in Workers, NEW p \in Posts, ReconcileRow(w, p), OnlyReconcile
  PROVE  Rest'
<1>1. p \in wk[w].todo
  BY DEF ReconcileRow
<1>2. CASE NeedsReview(w, p)
  BY <1>1, <1>2, NeedsReviewKeeps
<1>3. CASE Pass(w, p)
  BY <1>3, PassKeeps
<1>4. CASE ReadHistory(w, p)
  <2> DEFINE l == [wk[w] EXCEPT !.pc = "compare", !.hist = queue]
  <2>1. /\ wk' = [wk EXCEPT ![w] = l] /\ wk[w].pc # "await" /\ row' = row
        /\ notices' = notices
    BY <1>4 DEF ReadHistory
  <2>2. l.pc = "compare" /\ l.todo = wk[w].todo /\ l.note = wk[w].note
    BY DEF TypeOK, Local
  <2> HIDE DEF l
  <2>3. wk'[w] = l
    BY <2>1, Alone
  <2>4. BatchTrue(w)'
    BY <2>1, <2>2, <2>3 DEF BatchTrue, Rest, BatchInv, OnlyReconcile
  <2>5. QED BY <2>1, <2>2, <2>4, BatchMoves DEF ProcessSteps
<1>5. ASSUME NEW h, ConfirmedUpdate(w, p, AdoptedRow(p, h)), PartsOf(p) \subseteq row[p].ids
      PROVE  Rest'
  <2> DEFINE r == AdoptedRow(p, h)
  <2>1. /\ r.action = row[p].action /\ r.lease = row[p].lease /\ r.ids = row[p].ids
        /\ r.lapsed = row[p].lapsed
        /\ r.pubs = row[p].pubs /\ r.status \in {"scheduled", "needs_review"}
    BY AdoptedRowFields
  <2>2. row[p].pubs \subseteq published
    BY DEF Rest, RowsInv, RowTrue
  <2> HIDE DEF r
  <2>3. MayReplace(p, r)
    BY <1>1, <1>5, <2>1, <2>2, BatchReplaces
  <2>4. QED BY <1>5, <2>3, ConfirmedUpdateKeeps DEF r
<1>6. QED BY <1>2, <1>3, <1>4, <1>5
          DEF ReconcileRow, OtherAccount, LeaveAlone, CompareRow

LEMMA ReconcileKeeps == ASSUME TypeOK, Rest, NEW w \in Workers, Reconcile(w) PROVE Rest'
BY ReadKeeps, BatchDoneKeeps, UpdateRowKeeps, ReconcileRowKeeps DEF Reconcile

-----------------------------------------------------------------------------
(* Claiming *)

LEMMA ExpiredRowFields ==
  ASSUME NEW r \in Row
  PROVE  LET e == ExpiredRow(r)
         IN  /\ e.status = "needs_review" /\ e.action = None /\ e.lease = None
             /\ ~e.lapsed
             /\ e.ids = r.ids /\ e.pubs = r.pubs
BY DEF ExpiredRow, Row

LEMMA ClaimedRowFields ==
  ASSUME NEW r \in Row, NEW w
  PROVE  LET c == ClaimedRow(r, w)
         IN  /\ c.lease = w /\ c.action = r.action /\ ~c.lapsed
             /\ c.status = IF r.action = "schedule" THEN "transferring" ELSE r.status
             /\ c.ids = r.ids /\ c.pubs = r.pubs
BY DEF ClaimedRow, Row

(* The rows after a claim of C, a set of at most one claimable row *)
LEMMA ClaimRows ==
  ASSUME TypeOK, Rest, NEW w \in Workers, NEW C, C \subseteq Claimable,
         row' = [p \in Posts |-> IF p \in Expired THEN ExpiredRow(row[p])
                                 ELSE IF p \in C THEN ClaimedRow(row[p], w)
                                 ELSE row[p]],
         asks' = asks, published' = published
  PROVE  /\ CommandMatchesStatus' /\ RowsInv'
         /\ \A p \in Posts : row'[p].status \in Untransferred =>
                               row[p].status \in Untransferred
         /\ \A p \in C : row'[p].status \notin Untransferred
         /\ \A p \in Posts : /\ row'[p].lease # None => row'[p].action = row[p].action
                             /\ \/ row'[p].lease \in {None, row[p].lease}
                                \/ row'[p].lease = w /\ p \in C
         /\ \A p \in Posts : row[p].action = None => row'[p] = row[p]
<1>1. ASSUME NEW p \in Posts
      PROVE  /\ CommandMatches(p)' /\ RowTrue(p)'
             /\ row'[p].status \in Untransferred => row[p].status \in Untransferred
             /\ p \in C => row'[p].status \notin Untransferred
             /\ row'[p].lease # None => row'[p].action = row[p].action
             /\ \/ row'[p].lease \in {None, row[p].lease}
                \/ row'[p].lease = w /\ p \in C
             /\ row[p].action = None => row'[p] = row[p]
  <2>1. /\ row[p] \in Row /\ CommandMatches(p) /\ RowTrue(p)
        /\ Asked' = Asked /\ PartsOf(p)' = PartsOf(p)
    BY DEF TypeOK, Rest, CommandMatchesStatus, RowsInv, Asked, PartsOf
  <2>2. CASE p \in Expired
    <3>1. /\ row'[p].status = "needs_review" /\ row'[p].action = None
          /\ row'[p].lease = None /\ ~row'[p].lapsed
          /\ row'[p].ids = row[p].ids /\ row'[p].pubs = row[p].pubs
      BY <2>1, <2>2, ExpiredRowFields
    <3>2. row[p].action # None
      BY <2>2 DEF Expired
    <3>3. CommandMatches(p)'
      BY <3>1, NoneAssumption DEF CommandMatches, Actions
    <3>4. RowTrue(p)'
      BY <2>1, <3>1 DEF RowTrue, Untransferred, Held
    <3>5. QED BY <3>1, <3>2, <3>3, <3>4 DEF Untransferred
  <2>3. CASE p \notin Expired /\ p \in C
    <3>1. /\ row'[p].lease = w /\ row'[p].action = row[p].action /\ ~row'[p].lapsed
          /\ row'[p].status = IF row[p].action = "schedule" THEN "transferring"
                                                           ELSE row[p].status
          /\ row'[p].ids = row[p].ids /\ row'[p].pubs = row[p].pubs
      BY <2>1, <2>3, ClaimedRowFields
    <3>2. row[p].action # None /\ row[p].action \in Actions
      BY <2>1, <2>3 DEF Claimable, Row
    <3>3. row[p].action # "schedule" => row[p].status \in {"updating", "cancelling"}
      BY <2>1, <3>2 DEF CommandMatches, Actions
    <3>4. CommandMatches(p)'
      BY <2>1, <3>1, <3>2, <3>3, NoneAssumption DEF CommandMatches
    <3>5. RowTrue(p)'
      BY <2>1, <3>1, <3>3 DEF RowTrue, Untransferred, Held
    <3>6. QED BY <2>3, <3>1, <3>2, <3>3, <3>4, <3>5 DEF Untransferred
  <2>4. CASE p \notin Expired /\ p \notin C
    <3>1. row'[p] = row[p]
      BY <2>4
    <3>2. CommandMatches(p)' /\ RowTrue(p)'
      BY <2>1, <3>1 DEF CommandMatches, RowTrue, Untransferred, Held
    <3>3. QED BY <2>4, <3>1, <3>2
  <2>5. QED BY <2>2, <2>3, <2>4
<1>2. C \subseteq Posts
  BY DEF Claimable
<1>3. QED BY <1>1, <1>2 DEF CommandMatchesStatus, RowsInv

(* A queued post was not touched and nobody transfers it. *)
LEMMA ClaimKeeps ==
  ASSUME TypeOK, PendingInv, Rest, NEW w \in Workers, Claim(w) PROVE Rest'
<1>1. /\ wk[w].pc = "idle" /\ net' = net /\ asks' = asks /\ Asked' = Asked
      /\ UNCHANGED telegram /\ published' = published /\ Known' /\ NoBlindResend'
  BY KnownKept DEF Claim, Asked, telegram, Rest, NoBlindResend
<1>2. ASSUME NEW v \in Workers, NEW p \in wk[v].todo
      PROVE  p \in Posts /\ row[p].action = None
  BY BatchRows DEF TypeOK, Local
<1>3. CASE /\ row' = [p \in Posts |-> IF p \in Expired THEN ExpiredRow(row[p]) ELSE row[p]]
           /\ wk' = Bump(wk, Expired)
  <2> DEFINE C == {}
  <2>0. C = {} /\ C \subseteq Claimable
    OBVIOUS
  <2>1. row' = [p \in Posts |-> IF p \in Expired THEN ExpiredRow(row[p])
                                ELSE IF p \in C THEN ClaimedRow(row[p], w)
                                ELSE row[p]]
    BY <1>3
  <2> HIDE DEF C
  <2>2. /\ CommandMatchesStatus' /\ RowsInv'
        /\ \A p \in Posts : row'[p].status \in Untransferred =>
                              row[p].status \in Untransferred
        /\ \A p \in C : row'[p].status \notin Untransferred
        /\ \A p \in Posts : /\ row'[p].lease # None => row'[p].action = row[p].action
                            /\ \/ row'[p].lease \in {None, row[p].lease}
                               \/ row'[p].lease = w /\ p \in C
        /\ \A p \in Posts : row[p].action = None => row'[p] = row[p]
    BY <1>1, <2>0, <2>1, ClaimRows
  <2>3. \A v \in Workers : Same(v)
    BY <1>3, BumpSame
  <2>4. \A v \in Workers : JobKept(v)
    BY <2>0, <2>2, NoneAssumption DEF JobKept
  <2>5. \A v \in Workers : BatchKept(v)
    BY <1>2, <2>2, <2>3 DEF BatchKept, Same
  <2>6. JobsInv' /\ SendInv' /\ BatchInv'
    BY <1>1, <2>3, <2>4, <2>5, AllWorkersKept
  <2>7. NetInv'
    BY <1>1, <2>3, NetOthers DEF Rest, Same
  <2>8. QED BY <1>1, <2>2, <2>6, <2>7 DEF Rest
<1>4. ASSUME NEW q \in Oldest(Claimable),
             row' = [p \in Posts |-> IF p \in Expired THEN ExpiredRow(row[p])
                                     ELSE IF p = q THEN ClaimedRow(row[p], w)
                                     ELSE row[p]],
             wk' = Bump([wk EXCEPT ![w] = Claimed(w, q)], Expired)
      PROVE  Rest'
  <2>1. /\ q \in Posts /\ {q} \subseteq Claimable /\ row[q].action # None
        /\ row[q].lease = None /\ row[q] \in Row /\ row[q].action \in Actions
        /\ CommandMatches(q) /\ RowTrue(q)
    BY DEF Oldest, Claimable, TypeOK, Row, Rest, CommandMatchesStatus, RowsInv
  <2> DEFINE C == {q}
  <2>2. row' = [p \in Posts |-> IF p \in Expired THEN ExpiredRow(row[p])
                                ELSE IF p \in C THEN ClaimedRow(row[p], w)
                                ELSE row[p]]
    BY <1>4
  <2>0. C \subseteq Claimable /\ \A p : p \in C <=> p = q
    BY <2>1
  <2> HIDE DEF C
  <2>3. /\ CommandMatchesStatus' /\ RowsInv'
        /\ \A p \in Posts : row'[p].status \in Untransferred =>
                              row[p].status \in Untransferred
        /\ \A p \in C : row'[p].status \notin Untransferred
        /\ \A p \in Posts : /\ row'[p].lease # None => row'[p].action = row[p].action
                            /\ \/ row'[p].lease \in {None, row[p].lease}
                               \/ row'[p].lease = w /\ p \in C
        /\ \A p \in Posts : row[p].action = None => row'[p] = row[p]
        /\ row'[q].status \notin Untransferred
    BY <1>1, <2>0, <2>2, ClaimRows
  <2>4. row[q].action = "schedule" =>
          row[q].status = "queued" /\ PartsOf(q) \cap Asked = {}
    BY <2>1 DEF CommandMatches, RowTrue, Untransferred
  <2> DEFINE l == Claimed(w, q)
             f == [wk EXCEPT ![w] = l]
  <2>5. l \in Local
    BY <2>1, ClaimedType
  <2>6. /\ l.pc = "check" /\ l.job = q /\ l.act = row[q].action /\ l.have = row[q].ids
        /\ l.risky = (row[q].ids # {} \/ row[q].action # "schedule")
        /\ l.todo = {} /\ ~l.note.sent
    BY DEF Claimed, At, NoNotice
  <2> HIDE DEF l
  <2>7. f \in [Workers -> Local] /\ f[w] = l /\ \A v \in Workers \ {w} : f[v] = wk[v]
    BY <2>5 DEF TypeOK
  <2>8. wk' = Bump(f, Expired)
    BY <1>4 DEF l
  <2> HIDE DEF f
  <2>9. /\ wk'[w].pc = "check" /\ wk'[w].job = q /\ wk'[w].act = row[q].action
        /\ wk'[w].have = row[q].ids
        /\ wk'[w].risky = (row[q].ids # {} \/ row[q].action # "schedule")
        /\ wk'[w].todo = {} /\ ~wk'[w].note.sent
    BY <2>6, <2>7, <2>8, BumpFields
  <2>10. \A v \in Workers \ {w} : Same(v)
    BY <2>7, <2>8, BumpFields DEF Same
  <2>11. ASSUME NEW v \in Workers \ {w} PROVE Keeps(v)
    <3>1. JobTrue(v) /\ SendTrue(v) /\ BatchTrue(v)
      BY DEF Rest, JobsInv, SendInv, BatchInv
    <3>2. JobKept(v)
      BY <2>0, <2>3, NoneAssumption DEF JobKept
    <3>3. BatchKept(v)
      BY <1>2, <2>3, <2>10 DEF BatchKept, Same
    <3>4. QED BY <1>1, <2>10, <3>1, <3>2, <3>3, WorkerKept
  <2>12. JobTrue(w)'
    <3>1. row[q].ids \subseteq Asked /\ "check" \in StepsOf(row[q].action)
      BY <2>1 DEF RowTrue, StepsOf, Actions
    <3>2. row'[q].lease = w => row'[q].action = row[q].action
      BY <2>0, <2>1, <2>3, NoneAssumption
    <3>3. QED BY <1>1, <2>1, <2>9, <3>1, <3>2 DEF JobTrue
  <2>13. SendTrue(w)'
    <3> SUFFICES ASSUME Sending(w)' PROVE SendTrue(w)'
      BY DEF SendTrue
    <3>1. row[q].action = "schedule"
      BY <2>9 DEF Sending
    <3>2. PartsOf(q) \cap Asked' = {} /\ wk'[w].have \subseteq Asked'
      BY <1>1, <2>1, <2>4, <2>9, <3>1 DEF RowTrue
    <3>3. PartsOf(wk'[w].job) = PartsOf(q)
      BY <2>9
    <3>4. /\ row'[wk'[w].job].status \notin Untransferred
          /\ (PartsOf(wk'[w].job) \ wk'[w].have) \cap Asked' = {}
          /\ wk'[w].pc = "check"
          /\ PartsOf(wk'[w].job) \cap Asked' = {}
          /\ PartsOf(wk'[w].job) \cap Photos \cap wk'[w].have = {}
      BY <2>3, <2>9, <3>2, <3>3
    <3>5. QED BY <3>4 DEF SendTrue, Untransferred, PartsOf
  <2>14. BatchTrue(w)'
    BY <2>9 DEF BatchTrue
  <2>15. ASSUME NEW v \in Workers \ {w}, Sending(v)', Sending(w)' PROVE wk'[v].job # q
    <3>1. row[q].status = "queued"
      BY <2>4, <2>9, <2>15 DEF Sending
    <3>2. Sending(v) /\ wk'[v].job = wk[v].job
      BY <2>11, <2>15 DEF Keeps
    <3>3. row[wk[v].job].status \notin Untransferred
      BY <3>2 DEF Rest, SendInv, SendTrue
    <3>4. QED BY <3>1, <3>2, <3>3 DEF Untransferred
  <2>16. OneSender'
    <3> SUFFICES ASSUME NEW u \in Workers, NEW v \in Workers,
                        Sending(u)', Sending(v)', wk'[u].job = wk'[v].job
                 PROVE  u = v
      BY DEF OneSender
    <3>1. CASE u = w \/ v = w
      BY <2>9, <2>15, <3>1
    <3>2. CASE u # w /\ v # w
      BY <2>11, <3>2 DEF Keeps, Rest, SendInv, OneSender
    <3>3. QED BY <3>1, <3>2
  <2>17. JobsInv' /\ SendInv' /\ BatchInv'
    BY <2>11, <2>12, <2>13, <2>14, <2>16 DEF JobsInv, SendInv, BatchInv, Keeps
  <2>18. NetInv'
    BY <1>1, <2>10, NetOthers DEF Rest, Same
  <2>19. QED BY <1>1, <2>3, <2>17, <2>18 DEF Rest
<1>5. QED BY <1>3, <1>4 DEF Claim

-----------------------------------------------------------------------------
(* The inductive invariant *)

LEMMA RestInit == Init => Rest
<1> SUFFICES ASSUME Init PROVE Rest
  OBVIOUS
<1>1. /\ \A p \in Posts : row[p] = NewRow
      /\ \A w \in Workers : wk[w] = At("down", None, None)
      /\ \A x \in Parts : asks[x] = 0
      /\ queue = EmptyHistory /\ published = {} /\ net = {} /\ notices = {}
  BY DEF Init
<1>2. /\ NewRow.status = "absent" /\ NewRow.action = None /\ NewRow.lease = None
      /\ ~NewRow.lapsed
      /\ NewRow.ids = {} /\ NewRow.pubs = {}
  BY DEF NewRow
<1>3. /\ At("down", None, None).pc = "down" /\ At("down", None, None).todo = {}
      /\ ~At("down", None, None).note.sent
  BY DEF At, NoNotice
<1>4. Asked = {} /\ Queued(queue) = {}
  BY <1>1 DEF Asked, Queued, EmptyHistory
<1>5. CommandMatchesStatus
  BY <1>1, <1>2, NoneAssumption DEF CommandMatchesStatus, CommandMatches, Actions
<1>6. RowsInv
  BY <1>1, <1>2, <1>4 DEF RowsInv, RowTrue, Held
<1>7. ASSUME NEW w \in Workers PROVE ~Busy(w) /\ BatchTrue(w)
  BY <1>1, <1>3 DEF Busy, ProcessSteps, BatchTrue
<1>8. JobsInv /\ SendInv /\ BatchInv
  BY <1>7 DEF JobsInv, JobTrue, SendInv, SendTrue, OneSender, Sending, BatchInv
<1>9. NetInv
  BY <1>1, <1>4 DEF NetInv
<1>10. NoBlindResend
  BY <1>1 DEF NoBlindResend
<1>11. QED BY <1>5, <1>6, <1>8, <1>9, <1>10 DEF Rest

LEMMA RestStep == ASSUME TypeOK, PendingInv, Rest, [Next]_vars PROVE Rest'
<1>1. CASE UNCHANGED vars
  BY <1>1, StillStep DEF vars
<1>2. CASE Environment
  BY <1>2, EnvironmentKeeps, LeaseLapsesKeeps
<1>3. ASSUME NEW w \in Workers, RefreshPermissions(w) PROVE Rest'
  BY <1>3, StillStep DEF RefreshPermissions, telegram
<1>4. QED BY <1>1, <1>2, <1>3, OwnerKeeps, TelegramKeeps, ClaimKeeps, ProcessKeeps,
             ReconcileKeeps DEF Next

(* The inductive invariant holds in every reachable state. *)
THEOREM Inductive == Spec => []IInv
<1>1. IInv <=> TypeOK /\ PendingInv /\ Rest
  BY DEF IInv, Rest
<1>2. Init => IInv
  BY <1>1, TypeInit, RestInit
<1>3. IInv /\ [Next]_vars => IInv'
  <2> SUFFICES ASSUME IInv, [Next]_vars PROVE IInv'
    OBVIOUS
  <2>1. TypeOK /\ PendingInv /\ Rest
    BY <1>1
  <2>2. TypeOK' /\ PendingInv' /\ Rest'
    BY <2>1, TypeStep, PendingStep, RestStep
  <2>3. QED BY <2>2 DEF IInv, Rest
<1>4. QED BY <1>2, <1>3, PTL DEF Spec

-----------------------------------------------------------------------------
(* What follows *)

(* A message is never handed to Telegram twice, whatever is lost, delayed,  *)
(* retried or interrupted and however many workers run: process and claim   *)
(* never blindly resend.                                                     *)
THEOREM NothingIsResent == Spec => []NoBlindResend
<1>1. IInv => NoBlindResend
  BY DEF IInv
<1>2. QED BY <1>1, Inductive, PTL

(* What the calendar shows as queued or failed never left for Telegram, so  *)
(* the cancellation before transfer and the retry are safe.                 *)
THEOREM RetryIsSafe == Spec => []QueuedAndFailedAreUntouched
<1>1. IInv => QueuedAndFailedAreUntouched
  <2> SUFFICES ASSUME IInv, NEW p \in Posts, row[p].status \in {"queued", "failed"},
                      NEW x \in PartsOf(p)
               PROVE  asks[x] = 0
    BY DEF QueuedAndFailedAreUntouched
  <2>1. x \in Parts /\ asks[x] \in Nat
    BY DEF PartsOf, IInv, TypeOK
  <2>2. x \notin Asked
    BY DEF IInv, RowsInv, RowTrue, Untransferred
  <2>3. QED BY <2>1, <2>2 DEF Asked
<1>2. QED BY <1>1, Inductive, PTL

(* A post shown as published was published by Telegram, every message of it; *)
(* the worker never infers it from an absence.                               *)
THEOREM PublishedIsTrue == Spec => []PublishedIsConfirmed
<1>1. IInv => PublishedIsConfirmed
  BY DEF IInv, RowsInv, RowTrue, PublishedIsConfirmed
<1>2. QED BY <1>1, Inductive, PTL

(* The pending command, the lease and the status of a row agree.             *)
THEOREM CommandAndStatusAgree == Spec => []CommandMatchesStatus
<1>1. IInv => CommandMatchesStatus
  BY DEF IInv
<1>2. QED BY <1>1, Inductive, PTL

-----------------------------------------------------------------------------
(***************************************************************************)
(* What a step may do to what the owner sees: confirmed ends stay,         *)
(* commands are ended only by those who may, and the queue implements      *)
(* SchedulePromise.                                                        *)
(*                                                                         *)
(* The argument. Under the inductive invariant a row is changed only by    *)
(* the owner, whose guards name the status, by the holder of its lease,    *)
(* whose step says which command the row carries (JobsInv), by the expiry  *)
(* of a lease, or by a batch that still has the row as it was read         *)
(* (BatchInv). Each of these is a turn the promise names, and messages are *)
(* handed over or published in steps that write no row.                    *)
(***************************************************************************)

\* The status of p changes as the promise allows.
Turn(p, s) ==
  s = row[p].status \/ Promise!Asks(p, s) \/ Promise!Reports(p, s) \/ Promise!Observes(p, s)

\* A pending command is ended by the worker or its lapse, or before transfer.
Ends(p, r) ==
  row[p].action # None /\ r.action = None =>
    row[p].lease # None \/ (row[p].status = "queued" /\ r.status = "cancelled")

Told(p) == Turn(p, row'[p].status) /\ Ends(p, row'[p])
AllTold == \A p \in Posts : Told(p)

(* What the promise says of a post, said of its row *)
LEMMA TurnFacts ==
  ASSUME TypeOK, NEW p \in Posts, NEW s
  PROVE  /\ row[p].status = "absent" /\ s = "queued" => Turn(p, s)
         /\ row[p].status = "queued" /\ s \in {"cancelled", "transferring"} => Turn(p, s)
         /\ row[p].status = "failed" /\ s = "queued" => Turn(p, s)
         /\ row[p].status = "scheduled" /\ s \in {"updating", "cancelling"} => Turn(p, s)
         /\ row[p].status = "needs_review" /\ s = "cancelling"
              /\ PartsOf(p) \subseteq Asked => Turn(p, s)
         /\ row[p].status \in {"transferring", "updating"} /\ s = "scheduled"
              /\ PartsOf(p) \subseteq Asked => Turn(p, s)
         /\ row[p].status = "transferring" /\ s = "failed"
              /\ PartsOf(p) \cap Asked = {} => Turn(p, s)
         /\ row[p].status = "cancelling" /\ s = "cancelled" => Turn(p, s)
         /\ row[p].status \in {"transferring", "updating", "cancelling", "scheduled"}
              /\ s = "needs_review" => Turn(p, s)
         /\ row[p].status \in {"scheduled", "needs_review"} =>
              /\ s = "scheduled" /\ PartsOf(p) \subseteq Asked => Turn(p, s)
              /\ s = "published" /\ PartsOf(p) \subseteq published => Turn(p, s)
              /\ s = "cancelled" => Turn(p, s)
<1>1. PartsOf(p) \subseteq Asked => Promise!AllHanded(p)
  BY DEF PartsOf, Asked, Promise!AllHanded, Promise!PartsOf
<1>2. PartsOf(p) \cap Asked = {} => Promise!Untouched(p)
  <2>1. \A x \in Parts : asks[x] \in Nat
    BY DEF TypeOK
  <2>2. QED BY <2>1 DEF PartsOf, Asked, Promise!Untouched, Promise!PartsOf
<1>3. PartsOf(p) \subseteq published => Promise!AllOut(p)
  BY DEF PartsOf, Promise!AllOut, Promise!PartsOf
<1>4. QED BY <1>1, <1>2, <1>3
          DEF Turn, Promise!Asks, Promise!Reports, Promise!Observes

(* Rows that keep status and command tell nothing. *)
LEMMA Silent ==
  ASSUME \A p \in Posts : row'[p].status = row[p].status /\ row'[p].action = row[p].action
  PROVE  AllTold
BY DEF AllTold, Told, Turn, Ends

(* One row is written. *)
LEMMA OneTold ==
  ASSUME TypeOK, NEW p \in Posts, NEW r, row' = [row EXCEPT ![p] = r],
         Turn(p, r.status), Ends(p, r)
  PROVE  AllTold
<1>1. row'[p] = r /\ \A q \in Posts \ {p} : row'[q] = row[q]
  BY DEF TypeOK
<1>2. \A q \in Posts \ {p} : Told(q)
  BY <1>1 DEF Told, Turn, Ends
<1>3. Told(p)
  BY <1>1 DEF Told
<1>4. QED BY <1>2, <1>3 DEF AllTold

-----------------------------------------------------------------------------
(* The owner *)

LEMMA OwnerTells == ASSUME IInv, Owner PROVE AllTold
<1>1. TypeOK /\ RowsInv /\ CommandMatchesStatus
  BY DEF IInv
<1>2. PICK p \in Posts : \/ CommandCancelQueued(p) \/ CommandCancel(p) \/ Resolve(p)
                         \/ \E c \in Contents : \/ Create(p, c) \/ Retry(p, c)
                                                \/ CommandUpdate(p, c)
  BY DEF Owner
<1> DEFINE old == row[p]
<1>3. old \in Row /\ RowTrue(p) /\ CommandMatches(p)
  BY <1>1 DEF TypeOK, RowsInv, CommandMatchesStatus
<1>4. CASE CommandCancelQueued(p)
  <2> DEFINE r == [old EXCEPT !.status = "cancelled", !.action = None]
  <2>1. /\ row' = [row EXCEPT ![p] = r] /\ old.action = "schedule" /\ old.lease = None
        /\ r.status = "cancelled"
    BY <1>3, <1>4 DEF CommandCancelQueued, Row
  <2>2. old.status = "queued"
    BY <1>3, <2>1 DEF CommandMatches
  <2> HIDE DEF r
  <2>3. Turn(p, r.status) /\ Ends(p, r)
    BY <1>1, <2>1, <2>2, TurnFacts DEF Ends
  <2>4. QED BY <1>1, <2>1, <2>3, OneTold
<1>5. CASE CommandCancel(p)
  <2> DEFINE r == [old EXCEPT !.status = "cancelling", !.action = "cancel", !.pend = None]
  <2>1. /\ row' = [row EXCEPT ![p] = r] /\ old.action = None
        /\ old.status \in {"scheduled", "needs_review"}
        /\ r.status = "cancelling" /\ PartsOf(p) \subseteq old.ids
    BY <1>3, <1>5 DEF CommandCancel, Row
  <2>2. PartsOf(p) \subseteq Asked
    BY <1>3, <2>1 DEF RowTrue
  <2> HIDE DEF r
  <2>3. Turn(p, r.status) /\ Ends(p, r)
    BY <1>1, <2>1, <2>2, TurnFacts DEF Ends
  <2>4. QED BY <1>1, <2>1, <2>3, OneTold
<1>6. CASE Resolve(p)
  <2> DEFINE r == [old EXCEPT !.status = "cancelled"]
  <2>1. /\ row' = [row EXCEPT ![p] = r] /\ old.action = None
        /\ old.status = "needs_review" /\ r.status = "cancelled"
    BY <1>3, <1>6 DEF Resolve, Row
  <2> HIDE DEF r
  <2>2. Turn(p, r.status) /\ Ends(p, r)
    BY <1>1, <2>1, TurnFacts DEF Ends
  <2>3. QED BY <1>1, <2>1, <2>2, OneTold
<1>7. ASSUME NEW c \in Contents, Create(p, c) PROVE AllTold
  <2> DEFINE r == [NewRow EXCEPT !.status = "queued", !.action = "schedule",
                                 !.snap = [x \in Parts |-> c], !.account = permission]
  <2>1. /\ row' = [row EXCEPT ![p] = r] /\ old.status = "absent" /\ r.status = "queued"
    BY <1>7 DEF Create, NewRow
  <2>2. old.action = None
    BY <1>3, <2>1 DEF CommandMatches, Row, Actions
  <2> HIDE DEF r
  <2>3. Turn(p, r.status) /\ Ends(p, r)
    BY <1>1, <2>1, <2>2, TurnFacts DEF Ends
  <2>4. QED BY <1>1, <2>1, <2>3, OneTold
<1>8. ASSUME NEW c \in Contents, Retry(p, c) PROVE AllTold
  <2> DEFINE r == [old EXCEPT !.status = "queued", !.action = "schedule",
                              !.snap = [x \in Parts |-> c]]
  <2>1. /\ row' = [row EXCEPT ![p] = r] /\ old.action = None
        /\ old.status = "failed" /\ r.status = "queued"
    BY <1>3, <1>8 DEF Retry, Row
  <2> HIDE DEF r
  <2>2. Turn(p, r.status) /\ Ends(p, r)
    BY <1>1, <2>1, TurnFacts DEF Ends
  <2>3. QED BY <1>1, <2>1, <2>2, OneTold
<1>9. ASSUME NEW c \in Contents, CommandUpdate(p, c) PROVE AllTold
  <2> DEFINE r == [old EXCEPT !.status = "updating", !.action = "update", !.pend = c]
  <2>1. /\ row' = [row EXCEPT ![p] = r] /\ old.action = None
        /\ old.status = "scheduled" /\ r.status = "updating"
    BY <1>3, <1>9 DEF CommandUpdate, Row
  <2> HIDE DEF r
  <2>2. Turn(p, r.status) /\ Ends(p, r)
    BY <1>1, <2>1, TurnFacts DEF Ends
  <2>3. QED BY <1>1, <2>1, <2>2, OneTold
<1>10. QED BY <1>2, <1>4, <1>5, <1>6, <1>7, <1>8, <1>9

-----------------------------------------------------------------------------
(* Claims and expiries *)

LEMMA ClaimTells == ASSUME IInv, NEW w \in Workers, Claim(w) PROVE AllTold
<1>1. TypeOK /\ RowsInv /\ CommandMatchesStatus
  BY DEF IInv
<1>2. \A p \in Posts : \/ p \in Expired /\ row'[p] = ExpiredRow(row[p])
                       \/ p \in Claimable /\ row'[p] = ClaimedRow(row[p], w)
                       \/ row'[p] = row[p]
  <2> SUFFICES ASSUME NEW p \in Posts
               PROVE  \/ p \in Expired /\ row'[p] = ExpiredRow(row[p])
                      \/ p \in Claimable /\ row'[p] = ClaimedRow(row[p], w)
                      \/ row'[p] = row[p]
    OBVIOUS
  <2>1. CASE row' = [q \in Posts |-> IF q \in Expired THEN ExpiredRow(row[q]) ELSE row[q]]
    BY <2>1
  <2>2. ASSUME NEW c \in Claimable,
               row' = [q \in Posts |-> IF q \in Expired THEN ExpiredRow(row[q])
                                       ELSE IF q = c THEN ClaimedRow(row[q], w)
                                       ELSE row[q]]
        PROVE  \/ p \in Expired /\ row'[p] = ExpiredRow(row[p])
               \/ p \in Claimable /\ row'[p] = ClaimedRow(row[p], w)
               \/ row'[p] = row[p]
    BY <2>2
  <2>3. QED BY <2>1, <2>2 DEF Claim, Oldest
<1>3. ASSUME NEW p \in Posts PROVE Told(p)
  <2>1. row[p] \in Row /\ CommandMatches(p)
    BY <1>1 DEF TypeOK, CommandMatchesStatus
  <2>2. CASE p \in Expired /\ row'[p] = ExpiredRow(row[p])
    <3>1. row'[p].status = "needs_review" /\ row'[p] = ExpiredRow(row[p])
      BY <1>2, <2>1, <2>2, ExpiredRowFields
    <3>2. row[p].action \in Actions /\ row[p].lease # None
      BY <2>1, <2>2 DEF Expired, CommandMatches, Row
    <3>3. row[p].status \in {"transferring", "updating", "cancelling"}
      BY <2>1, <3>2 DEF CommandMatches, Actions
    <3>4. Turn(p, row'[p].status)
      BY <1>1, <3>1, <3>3, TurnFacts
    <3>5. QED BY <3>2, <3>4 DEF Told, Ends
  <2>3. CASE p \in Claimable /\ row'[p] = ClaimedRow(row[p], w)
    <3>1. /\ row'[p].action = row[p].action /\ row[p].action # None
          /\ row[p].lease = None
          /\ row'[p].status = IF row[p].action = "schedule" THEN "transferring"
                                                           ELSE row[p].status
      BY <1>2, <2>1, <2>3, ClaimedRowFields DEF Claimable
    <3>2. row[p].action = "schedule" => row[p].status = "queued"
      BY <2>1, <3>1 DEF CommandMatches
    <3>3. Turn(p, row'[p].status)
      <4>1. CASE row[p].action = "schedule"
        BY <1>1, <3>1, <3>2, <4>1, TurnFacts
      <4>2. CASE row[p].action # "schedule"
        BY <3>1, <4>2 DEF Turn
      <4>3. QED BY <4>1, <4>2
    <3>4. QED BY <3>1, <3>3 DEF Told, Ends
  <2>4. CASE row'[p] = row[p]
    BY <2>4 DEF Told, Turn, Ends
  <2>5. QED BY <1>2, <2>2, <2>3, <2>4
<1>4. QED BY <1>3 DEF AllTold

-----------------------------------------------------------------------------
(* The worker *)

(* save_parts alone tells nothing. *)
LEMMA SaveTells ==
  ASSUME TypeOK, NEW w, NEW p, NEW have, NEW seen,
         row' = [row EXCEPT ![p] = SaveParts(@, w, have, seen)]
  PROVE  AllTold
<1>1. ASSUME NEW q \in Posts
      PROVE  row'[q].status = row[q].status /\ row'[q].action = row[q].action
  <2>1. row[q] \in Row /\ (row'[q] = row[q] \/ row'[q] = SaveParts(row[q], w, have, seen))
    BY DEF TypeOK
  <2>2. QED BY <2>1, SavePartsFields
<1>2. QED BY <1>1, Silent

(* finish tells the end of the command the worker carried out. *)
LEMMA FinishTells ==
  ASSUME IInv, NEW w \in Workers, Busy(w), NEW p \in Posts, p = wk[w].job,
         NEW r \in Row, r.status = row[p].status, r.action = row[p].action,
         r.lease = row[p].lease, NEW s, NEW snap,
         row' = [row EXCEPT ![p] = Finish(r, w, s, snap)],
         \/ s = "needs_review"
         \/ s = "scheduled" /\ wk[w].act \in {"schedule", "update"}
              /\ PartsOf(p) \subseteq Asked
         \/ s = "cancelled" /\ wk[w].act = "cancel"
         \/ s = "failed" /\ wk[w].act = "schedule" /\ PartsOf(p) \cap Asked = {}
  PROVE  AllTold
<1> DEFINE f == Finish(r, w, s, snap)
<1>1. TypeOK /\ CommandMatches(p) /\ JobTrue(w)
  BY DEF IInv, CommandMatchesStatus, JobsInv
<1>2. CASE row[p].lease = w
  <2>1. f.status = s
    BY <1>2, FinishFields
  <2>2. row[p].lease # None /\ row[p].action = wk[w].act /\ wk[w].act \in Actions
    BY <1>1, <1>2, NoneAssumption DEF JobTrue
  <2>3. /\ wk[w].act = "schedule" => row[p].status = "transferring"
        /\ wk[w].act = "update" => row[p].status = "updating"
        /\ wk[w].act = "cancel" => row[p].status = "cancelling"
    BY <1>1, <2>2 DEF CommandMatches
  <2>4. Turn(p, s)
    BY <1>1, <2>2, <2>3, TurnFacts DEF Actions
  <2> HIDE DEF f
  <2>5. Turn(p, f.status) /\ Ends(p, f)
    BY <2>1, <2>2, <2>4 DEF Ends
  <2>6. QED BY <1>1, <2>5, OneTold DEF f
<1>3. CASE row[p].lease # w
  <2>1. f.status = row[p].status /\ f.action = row[p].action
    BY <1>3 DEF Finish
  <2>2. Turn(p, f.status) /\ Ends(p, f)
    BY <2>1 DEF Turn, Ends
  <2> HIDE DEF f
  <2>3. QED BY <1>1, <2>2, OneTold DEF f
<1>4. QED BY <1>2, <1>3

LEMMA ProcessTells ==
  ASSUME IInv, NEW w \in Workers, Process(w) PROVE AllTold
<1>1. TypeOK /\ Rest
  BY DEF IInv, Rest
<1>2. CASE row' = row
  BY <1>2, Silent
<1>3. CASE Accepted(w)
  BY <1>1, <1>3, SaveTells DEF Accepted
<1>4. CASE Verify(w)
  <2>1. row' = row \/ \E p, seen : row' = [row EXCEPT ![p] = SaveParts(@, w, wk[w].have, seen)]
    BY <1>4 DEF Verify, Fails
  <2>2. QED BY <1>1, <1>2, <2>1, SaveTells
<1>5. ASSUME NEW s \in {"scheduled", "cancelled"}, NEW snap, FinishJob(w, s, snap), Busy(w),
             s = "scheduled" => /\ wk[w].act \in {"schedule", "update"}
                                /\ PartsOf(wk[w].job) \subseteq Asked,
             s = "cancelled" => wk[w].act = "cancel"
      PROVE  AllTold
  <2>1. wk[w].job \in Posts
    BY <1>1, <1>5, ActOf
  <2>2. row[wk[w].job] \in Row
    BY <1>1, <2>1 DEF TypeOK
  <2>3. row' = [row EXCEPT ![wk[w].job] = Finish(row[wk[w].job], w, s, snap)]
    BY <1>5 DEF FinishJob
  <2>4. QED BY <1>5, <2>1, <2>2, <2>3, FinishTells
<1>6. CASE Gone(w)
  <2>1. Busy(w) /\ wk[w].act = "cancel"
    BY <1>1, <1>6, ActOf DEF Gone
  <2>2. QED BY <1>2, <1>5, <1>6, <2>1 DEF Gone, Fails
<1>7. CASE Confirm(w)
  <2>1. Busy(w) /\ wk[w].act \in {"schedule", "update"}
    BY <1>1, <1>7, ActOf DEF Confirm
  <2>2. Queued(queue) \subseteq Asked
    BY DEF IInv, NetInv
  <2>3. QED BY <1>2, <1>5, <1>7, <2>1, <2>2 DEF Confirm, Fails
<1>8. CASE Fail(w)
  <2> DEFINE p == wk[w].job
             r == SaveParts(row[p], w, wk[w].have, row[p].seen)
             s == IF wk[w].risky THEN "needs_review" ELSE "failed"
  <2>1. Busy(w) /\ p \in Posts /\ (wk[w].act # "schedule" => wk[w].risky)
    BY <1>1, <1>8, ActOf DEF Fail
  <2>2. row[p] \in Row /\ row[p].seen \in [Parts -> Contents \cup {None}]
        /\ wk[w].have \in SUBSET Parts
    BY <1>1, <2>1 DEF TypeOK, Row, Local
  <2>3. r \in Row
    BY <2>2, SavePartsType
  <2>4. r.status = row[p].status /\ r.action = row[p].action /\ r.lease = row[p].lease
    BY <2>2, SavePartsFields
  <2>5. row' = [row EXCEPT ![p] = Finish(r, w, s, row[p].snap)]
    BY <1>8 DEF Fail
  <2>6. \/ s = "needs_review"
        \/ s = "failed" /\ wk[w].act = "schedule" /\ PartsOf(p) \cap Asked = {}
    BY <2>1 DEF Sending, IInv, SendInv, SendTrue
  <2> HIDE DEF r, s
  <2>7. QED BY <2>1, <2>3, <2>4, <2>5, <2>6, FinishTells
<1>9. CASE Preflight(w) \/ Send(w) \/ Edit(w) \/ Cancel(w) \/ Timeout(w)
  BY <1>2, <1>9 DEF Preflight, Send, Edit, Cancel, Timeout, Fails, FailsAtRisk, Ask
<1>10. QED BY <1>3, <1>4, <1>6, <1>7, <1>8, <1>9 DEF Process

-----------------------------------------------------------------------------
(* Reconciliation *)

(* A row that a batch read has no command to end. *)
LEMMA ConfirmedUpdateTells ==
  ASSUME IInv, NEW w \in Workers, NEW p \in Posts, p \in wk[w].todo, NEW r,
         ConfirmedUpdate(w, p, r),
         r.status \in {"scheduled", "needs_review", "published", "cancelled"},
         r.status = "scheduled" => PartsOf(p) \subseteq Asked,
         r.status = "published" => PartsOf(p) \subseteq published
  PROVE  AllTold
<1>1. TypeOK /\ row[p].action = None /\ row[p].status \in {"scheduled", "needs_review"}
  BY DEF IInv, BatchInv, BatchTrue
<1>2. Turn(p, r.status)
  <2>1. CASE r.status = "needs_review"
    BY <1>1, <2>1, TurnFacts DEF Turn
  <2>2. CASE r.status # "needs_review"
    BY <1>1, <2>2, TurnFacts
  <2>3. QED BY <2>1, <2>2
<1>3. Ends(p, r)
  BY <1>1 DEF Ends
<1>4. QED BY <1>1, <1>2, <1>3, OneTold DEF ConfirmedUpdate

LEMMA ReconcileTells == ASSUME IInv, NEW w \in Workers, Reconcile(w) PROVE AllTold
<1>1. TypeOK
  BY DEF IInv
<1>2. CASE row' = row
  BY <1>2, Silent
<1>3. ASSUME NEW p \in Posts, NeedsReview(w, p), p \in wk[w].todo PROVE AllTold
  <2>1. CASE Pass(w, p)
    BY <1>2, <2>1 DEF Pass
  <2>2. CASE ConfirmedUpdate(w, p, [row[p] EXCEPT !.status = "needs_review"])
    <3>1. [row[p] EXCEPT !.status = "needs_review"].status = "needs_review"
      BY <1>1 DEF TypeOK, Row
    <3>2. QED BY <1>3, <2>2, <3>1, ConfirmedUpdateTells
  <2>3. QED BY <1>3, <2>1, <2>2 DEF NeedsReview
<1>4. ASSUME NEW p \in Posts, UpdateRow(w, p) PROVE AllTold
  <2> DEFINE n == wk[w].note
             r == UpdatedRow(p, n)
  <2>1. /\ r.status \in {"needs_review", "published", "cancelled"}
        /\ r.pubs \subseteq row[p].pubs \cup n.parts
        /\ ~n.sent => r.pubs = row[p].pubs
        /\ r.status = "published" => PartsOf(p) \subseteq r.pubs
    BY <1>1, UpdatedRowFields
  <2>2. row[p].pubs \subseteq published /\ (n.sent => n.parts \subseteq published)
    BY DEF IInv, RowsInv, RowTrue, BatchInv, BatchTrue
  <2>3. r.status = "published" => PartsOf(p) \subseteq published
    BY <2>1, <2>2
  <2> HIDE DEF r
  <2>4. CASE ConfirmedUpdate(w, p, r)
    BY <1>4, <2>1, <2>3, <2>4, ConfirmedUpdateTells DEF UpdateRow
  <2>5. CASE Pass(w, p)
    BY <1>2, <2>5 DEF Pass
  <2>6. QED BY <1>4, <2>4, <2>5 DEF UpdateRow, r
<1>5. ASSUME NEW p \in Posts, NEW h, ConfirmedUpdate(w, p, AdoptedRow(p, h)),
             PartsOf(p) \subseteq row[p].ids, p \in wk[w].todo
      PROVE  AllTold
  <2>1. AdoptedRow(p, h).status \in {"scheduled", "needs_review"}
    BY <1>1, AdoptedRowFields
  <2>2. PartsOf(p) \subseteq Asked
    BY <1>5 DEF IInv, RowsInv, RowTrue
  <2>3. QED BY <1>5, <2>1, <2>2, ConfirmedUpdateTells
<1>6. ASSUME NEW p \in Posts, ReconcileRow(w, p) PROVE AllTold
  BY <1>2, <1>3, <1>5, <1>6
     DEF ReconcileRow, OtherAccount, ReadHistory, LeaveAlone, CompareRow, Pass
<1>7. QED BY <1>2, <1>4, <1>6 DEF Reconcile, ReconcileRead, UpdateRead, BatchDone

-----------------------------------------------------------------------------
(* All steps *)

LEMMA EveryoneTells == ASSUME IInv, [Next]_vars PROVE AllTold
<1>1. CASE row' = row
  BY <1>1, Silent
<1>2. ASSUME NEW p \in Posts, LeaseLapses(p) PROVE AllTold
  <2>1. \A q \in Posts : row'[q].status = row[q].status /\ row'[q].action = row[q].action
    BY <1>2 DEF LeaseLapses, IInv, TypeOK, Row
  <2>2. QED BY <2>1, Silent
<1>3. CASE Telegram
  BY <1>1, <1>3 DEF Telegram, ServeSend, ServeEdit, ServeDelete, Refuse, Publish,
                    ExternalDelete, ExternalEdit, LoseNotice, OnlyTelegram
<1>4. CASE Environment
  BY <1>1, <1>2, <1>4 DEF Environment, PermissionAges, Start, Crash
<1>5. CASE UNCHANGED vars
  BY <1>1, <1>5 DEF vars
<1>6. ASSUME NEW w \in Workers, RefreshPermissions(w) PROVE AllTold
  BY <1>1, <1>6 DEF RefreshPermissions
<1>7. QED BY <1>3, <1>4, <1>5, <1>6, OwnerTells, ClaimTells, ProcessTells, ReconcileTells
          DEF Next

(* Messages are handed over, and published, in steps that write no row. *)
LEMMA HandedOrPublished ==
  ASSUME IInv, [Next]_vars
  PROVE  \/ asks' = asks /\ published' = published
         \/ \E S \in SUBSET Parts :
              /\ \A x \in S : asks[x] = 0 /\ row[PostOf[x]].status \notin Untransferred
              /\ asks' = [x \in Parts |-> IF x \in S THEN 1 ELSE asks[x]]
              /\ row' = row /\ published' = published
         \/ \E S \in SUBSET Parts :
              /\ S \subseteq Asked /\ published' = published \cup S
              /\ row' = row /\ asks' = asks
<1>1. TypeOK /\ Rest
  BY DEF IInv, Rest
<1>2. ASSUME NEW w \in Workers, Send(w), asks' # asks
      PROVE  \E S \in SUBSET Parts :
               /\ \A x \in S : asks[x] = 0 /\ row[PostOf[x]].status \notin Untransferred
               /\ asks' = [x \in Parts |-> IF x \in S THEN 1 ELSE asks[x]]
               /\ row' = row /\ published' = published
  <2> DEFINE u == Unit(w)
             mine == PartsOf(wk[w].job)
  <2>1. /\ asks' = [x \in Parts |-> IF x \in u THEN asks[x] + 1 ELSE asks[x]]
        /\ row' = row /\ published' = published /\ wk[w].pc = "send"
    BY <1>2 DEF Send, FailsAtRisk, Ask, OnlyRows, telegram
  <2>2. Sending(w)
    BY <1>1, <2>1, ActOf DEF Sending
  <2>3. /\ row[wk[w].job].status \notin Untransferred
        /\ (mine \ wk[w].have) \cap Asked = {}
        /\ mine \cap Photos \cap wk[w].have = {} \/ mine \cap Photos \subseteq wk[w].have
    BY <2>1, <2>2 DEF IInv, SendInv, SendTrue
  <2>4. u \subseteq mine \ wk[w].have /\ u \in SUBSET Parts
    BY <2>3, UnitMissing, UnitType
  <2>5. \A x \in Parts : asks[x] \in Nat
    BY <1>1 DEF TypeOK
  <2>6. \A x \in u : asks[x] = 0
    BY <2>3, <2>4, <2>5 DEF Asked
  <2>7. \A x \in u : row[PostOf[x]].status \notin Untransferred
    BY <2>3, <2>4 DEF PartsOf
  <2> HIDE DEF u
  <2>8. asks' = [x \in Parts |-> IF x \in u THEN 1 ELSE asks[x]]
    BY <2>1, <2>5, <2>6
  <2>9. QED BY <2>1, <2>4, <2>6, <2>7, <2>8
<1>3. ASSUME NEW y \in Parts, Publish(y)
      PROVE  \E S \in SUBSET Parts :
               /\ S \subseteq Asked /\ published' = published \cup S
               /\ row' = row /\ asks' = asks
  <2> DEFINE S == IF y \in Photos THEN PartsOf(PostOf[y]) \cap Photos \cap Queued(queue)
                                  ELSE {y}
  <2>1. S \in SUBSET Parts /\ S \subseteq Queued(queue)
    BY <1>3 DEF Publish, Queued
  <2>2. published' = published \cup S /\ row' = row /\ asks' = asks
    BY <1>3 DEF Publish, OnlyTelegram
  <2>3. S \subseteq Asked
    BY <2>1 DEF IInv, NetInv
  <2> HIDE DEF S
  <2>4. QED BY <2>1, <2>2, <2>3
<1>4. ASSUME NEW w \in Workers, Process(w), ~Send(w)
      PROVE  asks' = asks /\ published' = published
  BY <1>4 DEF Process, Preflight, Accepted, Edit, Verify, Cancel, Gone, Confirm, Timeout,
              Fail, Fails, FailsAtRisk, FinishJob, OnlyRows, telegram
<1>5. ASSUME NEW w \in Workers, Send(w) PROVE published' = published
  BY <1>5 DEF Send, OnlyRows, telegram
<1>6. CASE Owner
  BY <1>6 DEF Owner, CommandCancelQueued, CommandCancel, Resolve, Create, Retry,
              CommandUpdate, Command, telegram
<1>7. CASE Environment
  BY <1>7 DEF Environment, PermissionAges, LeaseLapses, Start, Crash, telegram
<1>8. ASSUME Telegram, \A y \in Parts : ~Publish(y)
      PROVE  asks' = asks /\ published' = published
  BY <1>8 DEF Telegram, ServeSend, ServeEdit, ServeDelete, Refuse, ExternalDelete,
              ExternalEdit, LoseNotice, OnlyTelegram, telegram
<1>9. ASSUME NEW w \in Workers, RefreshPermissions(w) \/ Claim(w) \/ Reconcile(w)
      PROVE  asks' = asks /\ published' = published
  BY <1>9 DEF RefreshPermissions, Claim, Reconcile, OnlyReconcile, telegram
<1>10. CASE UNCHANGED vars
  BY <1>10 DEF vars
<1>11. QED BY <1>2, <1>3, <1>4, <1>5, <1>6, <1>7, <1>8, <1>9, <1>10 DEF Next

-----------------------------------------------------------------------------
(* What follows *)

(* A published or cancelled post stays so: no late answer, no update and no  *)
(* batch that read the row earlier reopens it.                               *)
THEOREM EndsStay == Spec =>
  [][\A p \in Posts : row[p].status \in {"published", "cancelled"} =>
       row'[p].status = row[p].status]_vars
<1>1. IInv /\ [Next]_vars =>
        [\A p \in Posts : row[p].status \in {"published", "cancelled"} =>
           row'[p].status = row[p].status]_vars
  <2> SUFFICES ASSUME IInv, [Next]_vars, NEW p \in Posts,
                      row[p].status \in {"published", "cancelled"}
               PROVE  row'[p].status = row[p].status
    OBVIOUS
  <2>1. Turn(p, row'[p].status)
    BY EveryoneTells DEF AllTold, Told
  <2>2. QED BY <2>1 DEF Turn, Promise!Asks, Promise!Reports, Promise!Observes
<1>2. QED BY <1>1, Inductive, PTL DEF Spec

(* A confirmed command is ended only by the worker that leased it, by the    *)
(* lapse of that lease, or by a cancellation before the transfer; what was   *)
(* read before the command cannot wipe it out.                               *)
THEOREM CommandsStay == Spec => CommandsAreNotOverwritten
<1>1. IInv /\ [Next]_vars =>
        [\A p \in Posts : row[p].action # None /\ row'[p].action = None =>
           \/ row[p].lease # None
           \/ row[p].status = "queued" /\ row'[p].status = "cancelled"]_vars
  BY EveryoneTells DEF AllTold, Told, Ends
<1>2. QED BY <1>1, Inductive, PTL DEF Spec, CommandsAreNotOverwritten

(* Queue, worker and Telegram together keep what the calendar promises:      *)
(* every step is, for the owner who looks at it, a step of SchedulePromise   *)
(* or changes nothing the calendar shows.                                    *)
THEOREM PromiseKept == Spec => KeepsPromise
<1>1. Init => Promise!Init
  <2> SUFFICES ASSUME Init PROVE Promise!Init
    OBVIOUS
  <2>1. \A p \in Posts : row[p].status = "absent"
    BY DEF Init, NewRow
  <2>2. QED BY <2>1 DEF Init, Promise!Init
<1>2. IInv /\ [Next]_vars => [Promise!Next]_(Promise!vars)
  <2> SUFFICES ASSUME IInv, [Next]_vars PROVE [Promise!Next]_(Promise!vars)
    OBVIOUS
  <2>1. \A p \in Posts : Turn(p, row'[p].status)
    BY EveryoneTells DEF AllTold, Told
  <2>2. CASE asks' = asks /\ published' = published
    <3>1. CASE \E p \in Posts : row'[p].status # row[p].status
      <4>1. Promise!Show
        BY <2>1, <2>2, <3>1 DEF Promise!Show, Turn
      <4>2. QED BY <4>1 DEF Promise!Next
    <3>2. CASE \A p \in Posts : row'[p].status = row[p].status
      BY <2>2, <3>2 DEF Promise!vars
    <3>3. QED BY <3>1, <3>2
  <2>3. ASSUME NEW S \in SUBSET Parts,
               \A x \in S : asks[x] = 0 /\ row[PostOf[x]].status \notin Untransferred,
               asks' = [x \in Parts |-> IF x \in S THEN 1 ELSE asks[x]],
               row' = row, published' = published
        PROVE  [Promise!Next]_(Promise!vars)
    <3>1. \A x \in S : PostOf[x] \in Posts
      BY ConstantsAssumption
    <3>2. Promise!HandOver(S)
      BY <2>3, <3>1 DEF Promise!HandOver, Untransferred
    <3>3. QED BY <3>2 DEF Promise!Next
  <2>4. ASSUME NEW S \in SUBSET Parts, S \subseteq Asked, published' = published \cup S,
               row' = row, asks' = asks
        PROVE  [Promise!Next]_(Promise!vars)
    <3>1. Promise!Publish(S)
      BY <2>4 DEF Promise!Publish, Asked
    <3>2. QED BY <3>1 DEF Promise!Next
  <2>5. QED BY <2>2, <2>3, <2>4, HandedOrPublished
<1>3. QED BY <1>1, <1>2, Inductive, PTL DEF Spec, KeepsPromise, Promise!Spec

-----------------------------------------------------------------------------
(***************************************************************************)
(* What the rows and the workers know of Telegram: a scheduled post was     *)
(* accepted and shows what Telegram confirmed, a cancelled one has nothing  *)
(* left in the schedule queue or on its way to it, and a request leaves     *)
(* from the session of the post's own account.                              *)
(*                                                                         *)
(* The argument. A message leaves the schedule queue for good (QueueFine),  *)
(* because a request to send holds only messages Telegram never saw and     *)
(* shares none with another such request (NewRequest). So a row that is     *)
(* cancelled when its messages have left, or before any was handed over,    *)
(* stays true to that (Over, OverStays). While a worker holds the lease,    *)
(* the ids and texts in the row are those the worker has (Written); without *)
(* the lease it writes nothing, so the texts it may get wrong never reach   *)
(* a row. Each action then has to account only for the row, the worker or   *)
(* the request it changes.                                                  *)
(***************************************************************************)

\* What left the schedule queue, and what was ever in it.
Left == published \cup deleted

\* No message of the post is in the queue or will ever be.
Over(p) ==
  \/ PartsOf(p) \subseteq Left
  \/ /\ PartsOf(p) \cap Asked = {}
     /\ \A w \in Workers : ~(Sending(w) /\ wk[w].job = p)

\* A row says of Telegram what is true.
RowFine(p) ==
  /\ row[p].ids \subseteq Taken /\ row[p].pubs \subseteq row[p].ids
  /\ row[p].cans \subseteq deleted
  /\ row[p].status \in Held => PartsOf(p) \subseteq row[p].ids
  /\ row[p].status = "scheduled" =>
       \A x \in PartsOf(p) : row[p].seen[x] = row[p].snap[x]
  /\ row[p].status = "cancelled" /\ p \notin resolved => Over(p)

\* The lease holder's row has the ids and texts the worker has.
Written(w) ==
  LET r == row[wk[w].job]
      mine == PartsOf(wk[w].job)
  IN  r.lease = w =>
        /\ r.ids = wk[w].have
        /\ wk[w].act = "schedule" =>
             \A x \in mine \cap wk[w].have : r.seen[x] = wk[w].goal[x]
        /\ wk[w].act = "update" =>
             \A x \in mine \ wk[w].left : r.seen[x] = wk[w].goal[x]

\* What remains to be done is a part of the post, and was not done.
JobFine(w) ==
  LET mine == PartsOf(wk[w].job)
  IN  Busy(w) =>
        /\ row[wk[w].job].status # "absent"
        /\ wk[w].have \subseteq Taken /\ wk[w].left \subseteq mine
        /\ wk[w].act = "schedule" =>
             /\ wk[w].pc \in {"check", "send"} => mine \ wk[w].have # {}
             /\ wk[w].pc = "accepted" => Unit(w) \subseteq Taken
        /\ wk[w].pc \notin {"check", "fail"} =>
             wk[w].account = row[wk[w].job].account
        /\ wk[w].pc = "confirm" /\ wk[w].act = "update" => wk[w].left = {}
        /\ Written(w)

NoteFine(n) == ~n.sent => n.parts \subseteq deleted

\* A request is what its worker waits for.
OwnRequest(r) == r.by # None =>
  /\ r.parts \subseteq PartsOf(wk[r.by].job)
  /\ r.op = "send" => r.parts = Unit(r.by)

\* A message that waits to be sent is new to Telegram.
NewRequest(r) == r.op = "send" =>
  /\ r.parts \cap Taken = {}
  /\ \A s \in net : s.op = "send" /\ s # r => r.parts \cap s.parts = {}

NetFine == \A r \in net : OwnRequest(r) /\ NewRequest(r)

\* What left the queue does not come back.
QueueFine == Queued(queue) \cap Left = {} /\ deleted \subseteq Asked

NotesFine == /\ \A n \in notices : NoteFine(n)
             /\ \A w \in Workers : NoteFine(wk[w].note)

RowsFine == \A p \in Posts : RowFine(p)
JobsFine == \A w \in Workers : JobFine(w)

Fine == RowsFine /\ JobsFine /\ NetFine /\ QueueFine /\ NotesFine

-----------------------------------------------------------------------------
(* What survives a step that only adds to what Telegram knows *)

Grows == /\ Taken \subseteq Taken' /\ Left \subseteq Left'
         /\ deleted \subseteq deleted' /\ resolved \subseteq resolved'

\* Nobody begins to transfer p, and none of its messages is handed over anew.
Untouched(p) ==
  /\ PartsOf(p) \cap Asked' \subseteq Asked
  /\ \A w \in Workers : Sending(w)' /\ wk'[w].job = p => Sending(w) /\ wk[w].job = p

(* Of a post that is over nothing comes back. *)
LEMMA OverStays ==
  ASSUME NEW p \in Posts, Over(p), Grows, Untouched(p)
  PROVE  Over(p)'
BY DEF Over, Grows, Untouched, PartsOf

(* A row that is not written. *)
LEMMA RowStays ==
  ASSUME NEW p \in Posts, RowFine(p), row'[p] = row[p], Grows,
         row[p].status = "cancelled" => Untouched(p)
  PROVE  RowFine(p)'
<1>1. row[p].status = "cancelled" /\ p \notin resolved' => Over(p)'
  BY OverStays DEF RowFine, Grows
<1>2. PartsOf(p)' = PartsOf(p)
  BY DEF PartsOf
<1>3. QED BY <1>1, <1>2 DEF RowFine, Grows, Held

\* The locals the invariant speaks of, but for the step.
SameJob(w) ==
  /\ wk'[w].job = wk[w].job /\ wk'[w].act = wk[w].act /\ wk'[w].have = wk[w].have
  /\ wk'[w].goal = wk[w].goal /\ wk'[w].left = wk[w].left
  /\ wk'[w].account = wk[w].account

\* The row of the job says of the ids and texts what it said, or w lost it.
RowAsIs(w) ==
  LET p == wk[w].job
  IN  p \in Posts =>
        /\ row'[p].status = "absent" => row[p].status = "absent"
        /\ row[p].status # "absent" => row'[p].account = row[p].account
        /\ row'[p].lease = w => /\ row[p].lease = w
                                /\ row'[p].ids = row[p].ids
                                /\ row'[p].seen = row[p].seen

\* Where a worker may go without having done anything.
MayGo(w, pc) ==
  /\ wk[w].act = "schedule" =>
       /\ pc \in {"check", "send"} => wk[w].pc \in {"check", "send"}
       /\ pc = "accepted" => Unit(w) \subseteq Taken'
  /\ pc \notin {"check", "fail"} =>
       wk[w].pc \notin {"check", "fail"} \/ wk[w].account = row[wk[w].job].account
  /\ pc = "confirm" => wk[w].pc = "confirm"

LEMMA UnitStays ==
  ASSUME NEW w \in Workers, wk'[w].job = wk[w].job, wk'[w].have = wk[w].have
  PROVE  Unit(w)' = Unit(w) /\ PartsOf(wk[w].job)' = PartsOf(wk[w].job)
BY UnitSame DEF PartsOf

(* A worker that goes on with what it has. *)
LEMMA JobMoves ==
  ASSUME NEW w \in Workers, JobTrue(w), JobFine(w), SameJob(w), RowAsIs(w),
         Taken \subseteq Taken', Busy(w)' => Busy(w), MayGo(w, wk'[w].pc)
  PROVE  JobFine(w)'
<1> SUFFICES ASSUME Busy(w)' PROVE JobFine(w)'
  BY DEF JobFine
<1>1. Busy(w) /\ wk[w].job \in Posts
  BY DEF JobTrue
<1>2. Unit(w)' = Unit(w) /\ PartsOf(wk[w].job)' = PartsOf(wk[w].job)
  BY UnitStays DEF SameJob
<1>3. row[wk[w].job].status # "absent" /\ Written(w)
  BY <1>1 DEF JobFine
<1>4. /\ row'[wk[w].job].status # "absent"
      /\ row'[wk[w].job].account = row[wk[w].job].account
  BY <1>1, <1>3 DEF RowAsIs
<1>5. Written(w)'
  BY <1>1, <1>2, <1>3 DEF Written, RowAsIs, SameJob, PartsOf
<1>6. QED BY <1>1, <1>2, <1>4, <1>5 DEF JobFine, SameJob, MayGo, PartsOf

(* A worker outside process has no job. *)
LEMMA JobOver ==
  ASSUME NEW w \in Workers, wk'[w].pc \notin ProcessSteps
  PROVE  JobFine(w)' /\ ~Sending(w)'
BY DEF JobFine, Busy, Sending

\* A worker that stays as it is, its batch and note apart.
Still(w) == SameJob(w) /\ wk'[w].pc = wk[w].pc

LEMMA JobStays ==
  ASSUME NEW w \in Workers, JobTrue(w), JobFine(w), Still(w), RowAsIs(w),
         Taken \subseteq Taken'
  PROVE  JobFine(w)'
<1>1. (Busy(w)' => Busy(w))
  BY DEF Busy, Still
<1>2. Busy(w) => MayGo(w, wk'[w].pc)
  BY DEF MayGo, Still, JobFine, Busy
<1>3. CASE Busy(w)
  BY <1>1, <1>2, <1>3, JobMoves DEF Still
<1>4. CASE ~Busy(w)
  BY <1>1, <1>4 DEF JobFine
<1>5. QED BY <1>3, <1>4

(* Nobody begins a transfer. *)
LEMMA NobodyBegins ==
  ASSUME NEW p \in Posts, Asked' = Asked,
         \A w \in Workers : Sending(w)' => Sending(w) /\ wk'[w].job = wk[w].job
  PROVE  Untouched(p)
BY DEF Untouched

-----------------------------------------------------------------------------
(* The network *)

(* Requests whose workers still wait, when Telegram stands as it was. *)
LEMMA NetStays ==
  ASSUME NetFine, net' \subseteq net, Taken' = Taken,
         \A r \in net' : r.by # None =>
            /\ r.by \in Workers
            /\ wk'[r.by].job = wk[r.by].job /\ wk'[r.by].have = wk[r.by].have
  PROVE  NetFine'
<1> SUFFICES ASSUME NEW r \in net' PROVE OwnRequest(r)' /\ NewRequest(r)'
  BY DEF NetFine
<1>1. OwnRequest(r) /\ NewRequest(r)
  BY DEF NetFine
<1>2. OwnRequest(r)'
  BY <1>1, UnitStays DEF OwnRequest
<1>3. NewRequest(r)'
  BY <1>1 DEF NewRequest
<1>4. QED BY <1>2, <1>3

-----------------------------------------------------------------------------
(* Rows and jobs of a step that hands nothing over *)

\* The worker goes on with what it has, or lets go of it.
Calm(w) ==
  \/ Still(w)
  \/ SameJob(w) /\ Busy(w) /\ MayGo(w, wk'[w].pc)
  \/ wk'[w].pc \notin ProcessSteps

LEMMA CalmSends ==
  ASSUME NEW w \in Workers, Calm(w), Sending(w)'
  PROVE  Sending(w) /\ wk'[w].job = wk[w].job
BY DEF Calm, Still, SameJob, Sending, Busy

LEMMA CalmStep ==
  ASSUME Rest, Fine, asks' = asks, Grows,
         \A w \in Workers : Calm(w) /\ RowAsIs(w),
         \A p \in Posts : row'[p] = row[p] \/ RowFine(p)'
  PROVE  RowsFine' /\ JobsFine'
<1>1. Asked' = Asked
  BY DEF Asked
<1>2. \A p \in Posts : Untouched(p)
  BY <1>1, CalmSends, NobodyBegins
<1>3. RowsFine'
  BY <1>2, RowStays DEF Fine, RowsFine
<1>4. ASSUME NEW w \in Workers PROVE JobFine(w)'
  <2>1. JobTrue(w) /\ JobFine(w) /\ Taken \subseteq Taken'
    BY DEF Rest, JobsInv, Fine, JobsFine, Grows
  <2>2. CASE Still(w)
    BY <2>1, <2>2, JobStays
  <2>3. CASE SameJob(w) /\ Busy(w) /\ MayGo(w, wk'[w].pc)
    BY <2>1, <2>3, JobMoves
  <2>4. CASE wk'[w].pc \notin ProcessSteps
    BY <2>4, JobOver
  <2>5. QED BY <2>2, <2>3, <2>4 DEF Calm
<1>5. QED BY <1>3, <1>4 DEF JobsFine

LEMMA RowsAsTheyAre == ASSUME row' = row PROVE \A w \in Workers : RowAsIs(w)
BY DEF RowAsIs

-----------------------------------------------------------------------------
(* Telegram *)

(* The reply moves the worker that waits for it and nobody else. *)
LEMMA ReplyMoves ==
  ASSUME TypeOK, Rest, NEW r \in net, NEW pc, Reply(r, pc)
  PROVE  /\ \A w \in Workers : /\ wk'[w].note = wk[w].note /\ SameJob(w)
                               /\ \/ Still(w)
                                  \/ /\ r.by = w /\ wk[w].pc = "await" /\ Busy(w)
                                     /\ NextAfter(r.op) \in StepsOf(wk[w].act)
                                     /\ wk'[w].pc = pc
         /\ \A s \in net' : /\ s \in net /\ s # r
                            /\ s.by # None => s.by \in Workers
<1>1. /\ wk \in [Workers -> Local] /\ r.by \in Workers \cup {None}
      /\ \A s \in net : s.by \in Workers \cup {None}
  BY DEF TypeOK, Request
<1>2. r.by # None => /\ wk[r.by].pc = "await"
                     /\ NextAfter(r.op) \in StepsOf(wk[r.by].act)
  BY DEF Rest, NetInv
<1>3. \A s \in net' : /\ s \in net /\ s # r
                      /\ s.by # None => s.by \in Workers
  BY <1>1 DEF Reply
<1>4. CASE r.by = None
  BY <1>3, <1>4 DEF Reply, Still, SameJob
<1>5. CASE r.by # None
  <2> DEFINE l == [wk[r.by] EXCEPT !.pc = pc]
  <2>1. wk' = [wk EXCEPT ![r.by] = l] /\ r.by \in Workers
    BY <1>1, <1>5 DEF Reply
  <2>2. /\ l.pc = pc /\ l.job = wk[r.by].job /\ l.act = wk[r.by].act
        /\ l.have = wk[r.by].have /\ l.goal = wk[r.by].goal /\ l.left = wk[r.by].left
        /\ l.account = wk[r.by].account /\ l.note = wk[r.by].note
    BY <1>1, <2>1 DEF Local
  <2> HIDE DEF l
  <2>3. wk'[r.by] = l /\ \A w \in Workers \ {r.by} : wk'[w] = wk[w]
    BY <1>1, <2>1
  <2>4. Busy(r.by)
    BY <1>2, <1>5 DEF Busy, ProcessSteps
  <2>5. QED BY <1>2, <1>3, <1>5, <2>1, <2>2, <2>3, <2>4 DEF Still, SameJob
<1>6. QED BY <1>4, <1>5

(* Nothing comes back to the queue, and what is sent is taken away from those *)
(* that wait for it.                                                          *)
LEMMA ReplyFine ==
  ASSUME TypeOK, Rest, Fine, NEW r \in net, NEW pc \in Answers(r), Reply(r, pc),
         OnlyTelegram, Grows, QueueFine', \A n \in notices' : NoteFine(n)',
         IF r.op = "send" THEN Taken' \subseteq Taken \cup r.parts ELSE Taken' = Taken,
         r.op = "send" /\ pc = "accepted" => r.parts \subseteq Taken'
  PROVE  Fine'
<1>1. /\ row' = row /\ asks' = asks
      /\ \A s \in net : OwnRequest(s) /\ NewRequest(s)
  BY DEF OnlyTelegram, Fine, NetFine
<1>2. \A w \in Workers : Calm(w)
  <2> SUFFICES ASSUME NEW w \in Workers, ~Still(w) PROVE Calm(w)
    BY DEF Calm
  <2>1. /\ r.by = w /\ wk[w].pc = "await" /\ wk'[w].pc = pc /\ SameJob(w) /\ Busy(w)
        /\ NextAfter(r.op) \in StepsOf(wk[w].act)
    BY ReplyMoves
  <2>2. r.op \in {"send", "edit", "delete"} /\ pc \in {"accepted", "verify", "gone", "fail"}
    BY DEF TypeOK, Request, Answers, NextAfter
  <2>3. pc = "accepted" => r.op = "send"
    BY <2>2 DEF Answers, NextAfter
  <2>4. pc = "accepted" => Unit(w) \subseteq Taken'
    BY <1>1, <2>1, <2>3, NoneAssumption DEF OwnRequest
  <2>5. MayGo(w, pc)
    BY <2>1, <2>2, <2>4 DEF MayGo
  <2>6. QED BY <2>1, <2>5 DEF Calm
<1>3. RowsFine' /\ JobsFine'
  BY <1>1, <1>2, CalmStep, RowsAsTheyAre
<1>4. ASSUME NEW s \in net' PROVE OwnRequest(s)' /\ NewRequest(s)'
  <2>1. /\ s \in net /\ s # r /\ (s.by # None => s.by \in Workers)
    BY ReplyMoves
  <2>2. OwnRequest(s) /\ NewRequest(s)
    BY <1>1, <2>1
  <2>3. OwnRequest(s)'
    BY <2>1, <2>2, ReplyMoves, UnitStays DEF OwnRequest, SameJob
  <2>4. s.op = "send" => s.parts \cap Taken' = {}
    BY <1>1, <2>1, <2>2 DEF NewRequest
  <2>5. NewRequest(s)'
    BY <2>2, <2>4, ReplyMoves DEF NewRequest
  <2>6. QED BY <2>3, <2>5
<1>5. NotesFine'
  <2>1. \A w \in Workers : NoteFine(wk[w].note)'
    BY ReplyMoves DEF Fine, NotesFine, NoteFine, Grows
  <2>2. QED BY <2>1 DEF NotesFine
<1>6. QED BY <1>3, <1>4, <1>5 DEF Fine, NetFine

(* Requests that Telegram carries out, and those it does not. *)
LEMMA ServeFine ==
  ASSUME TypeOK, Rest, Fine, NEW r \in net,
         ServeSend(r) \/ ServeEdit(r) \/ ServeDelete(r) \/ Refuse(r)
  PROVE  Fine'
<1>1. /\ r \in Request /\ queue \in History /\ OnlyTelegram /\ QueueFine
      /\ \A n \in notices : NoteFine(n)
      /\ resolved' = resolved /\ Asked' = Asked
      /\ Queued(queue) \subseteq Asked /\ None \notin Message
      /\ NewRequest(r)
  BY NoneAssumption DEF TypeOK, ServeSend, ServeEdit, ServeDelete, Refuse, Fine, NotesFine,
     NetFine, OnlyTelegram, owner, Asked, Rest, NetInv
<1>2. CASE ServeSend(r)
  <2>1. \A x \in Parts : queue'[x] = IF x \in r.parts
                                     THEN [text |-> r.text[x], original |-> TRUE]
                                     ELSE queue[x]
    BY <1>2 DEF ServeSend
  <2>2. \A x \in Parts : [text |-> r.text[x], original |-> TRUE] \in Message
    BY <1>1 DEF Request, Message
  <2>0. /\ \A x \in r.parts : queue'[x] # None
        /\ r.parts \subseteq Parts
    <3>1. r.parts \subseteq Parts
      BY <1>1 DEF Request
    <3>2. QED BY <1>1, <2>1, <2>2, <3>1
  <2>3. Queued(queue)' = Queued(queue) \cup r.parts
    BY <2>0, <2>1 DEF Queued
  <2>4. /\ published' = published /\ deleted' = deleted /\ notices' = notices
        /\ r.op = "send" /\ \E pc \in Answers(r) : Reply(r, pc)
    BY <1>2 DEF ServeSend
  <2>5. Grows /\ Taken' = Taken \cup r.parts
    BY <1>1, <2>3, <2>4 DEF Grows, Taken, Left
  <2>6. QueueFine'
    BY <1>1, <2>3, <2>4 DEF QueueFine, NewRequest, Taken, Left
  <2>7. \A n \in notices' : NoteFine(n)'
    BY <1>1, <2>4 DEF NoteFine
  <2>8. QED BY <1>1, <2>4, <2>5, <2>6, <2>7, ReplyFine
<1>3. CASE ServeEdit(r)
  <2>1. /\ r.parts \subseteq Queued(queue)
        /\ \A x \in Parts : queue'[x] = IF x \in r.parts
                                        THEN [queue[x] EXCEPT !.text = r.text[x]]
                                        ELSE queue[x]
    BY <1>3 DEF ServeEdit
  <2>2. \A x \in r.parts : [queue[x] EXCEPT !.text = r.text[x]] \in Message
    BY <1>1, <2>1 DEF Request, Message, Queued, History
  <2>3. Queued(queue)' = Queued(queue)
    BY <1>1, <2>1, <2>2 DEF Queued, Request
  <2>4. /\ published' = published /\ deleted' = deleted /\ notices' = notices
        /\ r.op = "edit" /\ \E pc \in Answers(r) : Reply(r, pc)
    BY <1>3 DEF ServeEdit
  <2>5. Grows /\ Taken' = Taken
    BY <1>1, <2>3, <2>4 DEF Grows, Taken, Left
  <2>6. QueueFine'
    BY <1>1, <2>3, <2>4 DEF QueueFine, Left
  <2>7. \A n \in notices' : NoteFine(n)'
    BY <1>1, <2>4 DEF NoteFine
  <2>8. QED BY <1>1, <2>4, <2>5, <2>6, <2>7, ReplyFine
<1>4. CASE ServeDelete(r)
  <2> DEFINE gone == r.parts \cap Queued(queue)
  <2>1. /\ Remove(gone) /\ deleted' = deleted \cup gone /\ Notify(gone, FALSE)
        /\ published' = published
        /\ r.op = "delete" /\ \E pc \in Answers(r) : Reply(r, pc)
    BY <1>4 DEF ServeDelete
  <2>2. gone \subseteq Queued(queue)
    OBVIOUS
  <2> HIDE DEF gone
  <2>3. Queued(queue)' = Queued(queue) \ gone
    BY <2>1 DEF Remove, Queued
  <2>4. Grows /\ Taken' = Taken
    BY <1>1, <2>1, <2>2, <2>3 DEF Grows, Taken, Left
  <2>5. QueueFine'
    BY <1>1, <2>1, <2>2, <2>3 DEF QueueFine, Left
  <2>6. \A n \in notices' : NoteFine(n)'
    BY <1>1, <2>1 DEF NoteFine, Notify
  <2>7. QED BY <1>1, <2>1, <2>4, <2>5, <2>6, ReplyFine
<1>5. CASE Refuse(r)
  <2>1. /\ UNCHANGED <<queue, published, deleted, notices>> /\ Reply(r, "fail")
        /\ "fail" \in Answers(r)
    BY <1>5 DEF Refuse, telegram, Answers
  <2>2. Grows /\ Taken' = Taken /\ Queued(queue)' = Queued(queue)
    BY <1>1, <2>1 DEF Grows, Taken, Left
  <2>3. QueueFine' /\ \A n \in notices' : NoteFine(n)'
    BY <1>1, <2>1, <2>2 DEF QueueFine, Left, NoteFine
  <2>4. r.op = "send" => Taken' \subseteq Taken \cup r.parts
    BY <2>2
  <2>5. QED BY <1>1, <2>1, <2>2, <2>3, <2>4, ReplyFine
<1>6. QED BY <1>2, <1>3, <1>4, <1>5

(* What happens in Telegram without a request keeps what it has taken. *)
LEMMA OutsideFine ==
  ASSUME TypeOK, Rest, Fine, wk' = wk, net' = net, OnlyTelegram, Grows, Taken' = Taken,
         QueueFine', \A n \in notices' : NoteFine(n)'
  PROVE  Fine'
<1>1. \A w \in Workers : Calm(w)
  BY DEF Calm, Still, SameJob
<1>2. RowsFine' /\ JobsFine'
  BY <1>1, CalmStep, RowsAsTheyAre DEF OnlyTelegram
<1>3. NotesFine'
  BY DEF NotesFine, Fine, NoteFine, Grows
<1>4. NetFine'
  BY NetStays DEF Fine, TypeOK, Request
<1>5. QED BY <1>2, <1>3, <1>4 DEF Fine

LEMMA TelegramFine == ASSUME TypeOK, Rest, Fine, Telegram PROVE Fine'
<1>1. /\ queue \in History /\ QueueFine /\ None \notin Message
      /\ \A n \in notices : NoteFine(n)
      /\ Queued(queue) \subseteq Asked
      /\ OnlyTelegram => Asked' = Asked /\ resolved' = resolved
  BY NoneAssumption DEF TypeOK, Fine, NotesFine, OnlyTelegram, owner, Asked, Rest, NetInv
<1>2. ASSUME NEW x \in Parts, Publish(x) PROVE Fine'
  <2> DEFINE unit == IF x \in Photos THEN PartsOf(PostOf[x]) \cap Photos \cap Queued(queue)
                                     ELSE {x}
  <2>1. unit \subseteq Queued(queue)
    BY <1>2 DEF Publish, Queued
  <2>2. /\ Remove(unit) /\ Notify(unit, TRUE) /\ published' = published \cup unit
        /\ wk' = wk /\ net' = net /\ deleted' = deleted /\ OnlyTelegram
    BY <1>2 DEF Publish
  <2> HIDE DEF unit
  <2>3. Queued(queue)' = Queued(queue) \ unit
    BY <2>2 DEF Remove, Queued
  <2>4. Grows /\ Taken' = Taken
    BY <1>1, <2>1, <2>2, <2>3 DEF Grows, Taken, Left
  <2>5. QueueFine'
    BY <1>1, <2>1, <2>2, <2>3 DEF QueueFine, Left
  <2>6. \A n \in notices' : NoteFine(n)'
    BY <1>1, <2>2 DEF NoteFine, Notify
  <2>7. QED BY <2>2, <2>4, <2>5, <2>6, OutsideFine
<1>3. ASSUME NEW x \in Parts, ExternalDelete(x) PROVE Fine'
  <2>1. /\ Remove({x}) /\ Notify({x}, FALSE) /\ deleted' = deleted \cup {x}
        /\ wk' = wk /\ net' = net /\ published' = published /\ OnlyTelegram
        /\ x \in Queued(queue)
    BY <1>3 DEF ExternalDelete, Queued
  <2>2. Queued(queue)' = Queued(queue) \ {x}
    BY <2>1 DEF Remove, Queued
  <2>3. Grows /\ Taken' = Taken
    BY <1>1, <2>1, <2>2 DEF Grows, Taken, Left
  <2>4. QueueFine'
    BY <1>1, <2>1, <2>2 DEF QueueFine, Left
  <2>5. \A n \in notices' : NoteFine(n)'
    BY <1>1, <2>1 DEF NoteFine, Notify
  <2>6. QED BY <2>1, <2>3, <2>4, <2>5, OutsideFine
<1>4. ASSUME UNCHANGED <<wk, net, published, deleted>>, OnlyTelegram,
             Queued(queue)' = Queued(queue), notices' \subseteq notices
      PROVE  Fine'
  <2>1. Grows /\ Taken' = Taken /\ QueueFine' /\ \A n \in notices' : NoteFine(n)'
    BY <1>1, <1>4 DEF Grows, Taken, Left, QueueFine, NoteFine
  <2>2. QED BY <1>4, <2>1, OutsideFine
<1>5. ASSUME NEW x \in Parts, NEW m \in Message, ExternalEdit(x, m) PROVE Fine'
  <2>1. Queued(queue)' = Queued(queue)
    BY <1>1, <1>5 DEF ExternalEdit, Queued, History
  <2>2. QED BY <1>4, <1>5, <2>1 DEF ExternalEdit
<1>6. ASSUME NEW n \in notices, LoseNotice(n) PROVE Fine'
  BY <1>4, <1>6 DEF LoseNotice
<1>7. QED BY <1>2, <1>3, <1>5, <1>6, ServeFine DEF Telegram

-----------------------------------------------------------------------------
(* Steps that leave Telegram as it is *)

Untold == /\ queue' = queue /\ published' = published /\ deleted' = deleted
          /\ notices' \subseteq notices
          /\ Asked \subseteq Asked' /\ resolved \subseteq resolved'

\* No row changes under a worker that keeps its lease.
Gentle(p) ==
  /\ row'[p].status = "absent" => row[p].status = "absent"
  /\ row[p].status # "absent" => row'[p].account = row[p].account
  /\ \A w \in Workers : row'[p].lease = w => /\ row[p].lease = w
                                             /\ row'[p].ids = row[p].ids
                                             /\ row'[p].seen = row[p].seen

LEMMA GentleRows ==
  ASSUME NEW w \in Workers, \A p \in Posts : row'[p] = row[p] \/ Gentle(p)
  PROVE  RowAsIs(w)
BY DEF Gentle, RowAsIs

LEMMA WorkFine ==
  ASSUME Rest, Fine, Untold, NetFine',
         \A p \in Posts : \/ RowFine(p)'
                          \/ /\ row'[p] = row[p]
                             /\ row[p].status = "cancelled" => Untouched(p),
         \A w \in Workers : JobFine(w)' \/ (Calm(w) /\ RowAsIs(w)),
         \A w \in Workers : wk'[w].note = wk[w].note \/ NoteFine(wk[w].note)'
  PROVE  Fine'
<1>1. /\ Grows /\ Taken' = Taken /\ Left' = Left /\ Queued(queue)' = Queued(queue)
  BY DEF Untold, Grows, Taken, Left, Queued
<1>2. RowsFine'
  BY <1>1, RowStays DEF Fine, RowsFine
<1>3. ASSUME NEW w \in Workers, Calm(w), RowAsIs(w) PROVE JobFine(w)'
  <2>1. JobTrue(w) /\ JobFine(w) /\ Taken \subseteq Taken'
    BY <1>1 DEF Rest, JobsInv, Fine, JobsFine
  <2>2. CASE Still(w)
    BY <1>3, <2>1, <2>2, JobStays
  <2>3. CASE SameJob(w) /\ Busy(w) /\ MayGo(w, wk'[w].pc)
    BY <1>3, <2>1, <2>3, JobMoves
  <2>4. CASE wk'[w].pc \notin ProcessSteps
    BY <2>4, JobOver
  <2>5. QED BY <1>3, <2>2, <2>3, <2>4 DEF Calm
<1>4. JobsFine'
  BY <1>3 DEF JobsFine
<1>5. QueueFine'
  BY <1>1 DEF Untold, QueueFine, Fine
<1>6. NotesFine'
  BY DEF NotesFine, Fine, NoteFine, Untold
<1>7. QED BY <1>2, <1>4, <1>5, <1>6 DEF Fine

(* The requests of the others, when w waits for none. *)
LEMMA NetOfOthers ==
  ASSUME TypeOK, Rest, Fine, Untold, net' \subseteq net, NEW w \in Workers,
         wk[w].pc # "await",
         \A v \in Workers \ {w} : wk'[v].job = wk[v].job /\ wk'[v].have = wk[v].have
  PROVE  NetFine'
<1>1. Taken' = Taken
  BY DEF Untold, Taken, Queued
<1>2. ASSUME NEW r \in net', r.by # None
      PROVE  /\ r.by \in Workers
             /\ wk'[r.by].job = wk[r.by].job /\ wk'[r.by].have = wk[r.by].have
  BY <1>2 DEF TypeOK, Request, Rest, NetInv
<1>3. QED BY <1>1, <1>2, NetStays DEF Fine

(* Everyone keeps the job. *)
LEMMA NetOfAll ==
  ASSUME TypeOK, Fine, Untold, net' \subseteq net,
         \A v \in Workers : wk'[v].job = wk[v].job /\ wk'[v].have = wk[v].have
  PROVE  NetFine'
<1>1. Taken' = Taken
  BY DEF Untold, Taken, Queued
<1>2. \A r \in net' : r.by # None => r.by \in Workers
  BY DEF TypeOK, Request
<1>3. QED BY <1>1, <1>2, NetStays DEF Fine

(* Requests nobody waits for any more can still be carried out. *)
LEMMA NetOfOrphans ==
  ASSUME TypeOK, Rest, Fine, Untold, NEW w \in Workers, net' = Orphaned(w),
         \A v \in Workers \ {w} : wk'[v].job = wk[v].job /\ wk'[v].have = wk[v].have
  PROVE  NetFine'
<1>1. Taken' = Taken
  BY DEF Untold, Taken, Queued
<1>2. ASSUME NEW r \in net'
      PROVE  \E q \in net : /\ r = IF q.by = w THEN [q EXCEPT !.by = None] ELSE q
                            /\ r.op = q.op /\ r.parts = q.parts
                            /\ r.by # None => r.by = q.by /\ q.by \in Workers \ {w}
  <2>1. PICK q \in net : r = IF q.by = w THEN [q EXCEPT !.by = None] ELSE q
    BY DEF Orphaned
  <2>2. q \in Request
    BY DEF TypeOK
  <2>3. QED BY <2>1, <2>2 DEF Request
<1>3. ASSUME NEW r \in net' PROVE OwnRequest(r)' /\ NewRequest(r)'
  <2>1. PICK q \in net : /\ r = IF q.by = w THEN [q EXCEPT !.by = None] ELSE q
                         /\ r.op = q.op /\ r.parts = q.parts
                         /\ r.by # None => r.by = q.by /\ q.by \in Workers \ {w}
    BY <1>2
  <2>2. OwnRequest(q) /\ NewRequest(q)
    BY DEF Fine, NetFine
  <2>3. OwnRequest(r)'
    BY <2>1, <2>2, UnitStays DEF OwnRequest
  <2>4. ASSUME NEW s \in net', r.op = "send", s.op = "send", s # r
        PROVE  r.parts \cap s.parts = {}
    <3>1. PICK t \in net : /\ s = IF t.by = w THEN [t EXCEPT !.by = None] ELSE t
                           /\ s.op = t.op /\ s.parts = t.parts
      BY <1>2
    <3>2. QED BY <2>1, <2>2, <2>4, <3>1 DEF NewRequest
  <2>5. NewRequest(r)'
    BY <1>1, <2>1, <2>2, <2>4 DEF NewRequest
  <2>6. QED BY <2>3, <2>5
<1>4. QED BY <1>3 DEF NetFine

(* A worker that is in no job before or after. *)
LEMMA IdleFine ==
  ASSUME TypeOK, Rest, Fine, Untold, Asked' = Asked, NetFine', row' = row,
         NEW w \in Workers, wk'[w].pc \notin ProcessSteps,
         NoteFine(wk[w].note)',
         \A v \in Workers \ {w} : Still(v) /\ wk'[v].note = wk[v].note
  PROVE  Fine'
<1>1. \A v \in Workers : Calm(v) /\ RowAsIs(v)
  BY RowsAsTheyAre DEF Calm
<1>2. \A p \in Posts : Untouched(p)
  BY <1>1, CalmSends, NobodyBegins
<1>3. QED BY <1>1, <1>2, WorkFine

LEMMA AtNote ==
  ASSUME NEW w, NEW pc, NEW s, NEW a, wk'[w] = At(pc, s, a)
  PROVE  NoteFine(wk[w].note)' /\ wk'[w].pc = pc
BY DEF NoteFine, At, NoNotice

(* Only rows are written, and a job goes on as before. *)
LEMMA RowFineStep ==
  ASSUME TypeOK, Rest, Fine, Untold, Asked' = Asked, NetFine', NEW p \in Posts,
         \A q \in Posts \ {p} : row'[q] = row[q],
         row'[p] = row[p] \/ (RowFine(p)' /\ Gentle(p)),
         \A w \in Workers : Calm(w) /\ wk'[w].note = wk[w].note
  PROVE  Fine'
<1>1. \A q \in Posts : Untouched(q)
  BY CalmSends, NobodyBegins
<1>2. \A w \in Workers : RowAsIs(w)
  BY GentleRows
<1>3. \A q \in Posts : RowFine(q)' \/ row'[q] = row[q]
  OBVIOUS
<1>4. QED BY <1>1, <1>2, <1>3, WorkFine

(* What does not change the ids and texts of a row. *)
LEMMA KeepsFine ==
  ASSUME Fine, Untold, NEW p \in Posts,
         row'[p].ids = row[p].ids, row'[p].pubs = row[p].pubs,
         row'[p].cans = row[p].cans,
         row'[p].status \in Held => PartsOf(p) \subseteq row[p].ids,
         row'[p].status = "scheduled" =>
           \A x \in PartsOf(p) : row'[p].seen[x] = row'[p].snap[x],
         row'[p].status = "cancelled" /\ p \notin resolved' => Over(p)'
  PROVE  RowFine(p)'
<1>1. RowFine(p) /\ PartsOf(p)' = PartsOf(p)
  BY DEF Fine, RowsFine, PartsOf
<1>2. Taken' = Taken /\ deleted' = deleted
  BY DEF Untold, Taken, Queued
<1>3. QED BY <1>1, <1>2 DEF RowFine

LEMMA EnvironmentFine == ASSUME TypeOK, Rest, Fine, Environment PROVE Fine'
<1>1. Untold /\ Asked' = Asked
  BY DEF Environment, PermissionAges, LeaseLapses, Start, Crash, Untold, telegram, owner,
         Asked
<1>2. CASE PermissionAges
  <2>1. row' = row /\ net' = net /\ wk' = wk
    BY <1>2 DEF PermissionAges
  <2>2. NetFine'
    BY <1>1, <2>1, NetOfAll
  <2>3. \A w \in Workers : Calm(w) /\ RowAsIs(w) /\ wk'[w].note = wk[w].note
    BY <2>1, RowsAsTheyAre DEF Calm, Still, SameJob
  <2>4. \A p \in Posts : Untouched(p)
    BY <1>1, <2>3, CalmSends, NobodyBegins
  <2>5. QED BY <1>1, <2>1, <2>2, <2>3, <2>4, WorkFine
<1>3. ASSUME NEW w \in Workers, Start(w) PROVE Fine'
  <2>1. PICK s, a : wk' = [wk EXCEPT ![w] = At("idle", s, a)]
    BY <1>3 DEF Start
  <2>2. wk'[w] = At("idle", s, a) /\ \A v \in Workers \ {w} : wk'[v] = wk[v]
    BY <2>1, Alone
  <2>3. NoteFine(wk[w].note)' /\ wk'[w].pc = "idle"
    BY <2>2, AtNote
  <2>4. row' = row /\ net' = net /\ wk[w].pc = "down"
    BY <1>3 DEF Start
  <2>5. NetFine'
    BY <1>1, <2>2, <2>4, NetOfOthers
  <2>6. QED BY <1>1, <2>2, <2>3, <2>4, <2>5, IdleFine DEF Still, SameJob, ProcessSteps
<1>4. ASSUME NEW w \in Workers, Crash(w) PROVE Fine'
  <2>1. wk' = [wk EXCEPT ![w] = At("down", None, None)]
    BY <1>4 DEF Crash
  <2>2. wk'[w] = At("down", None, None) /\ \A v \in Workers \ {w} : wk'[v] = wk[v]
    BY <2>1, Alone
  <2>3. NoteFine(wk[w].note)' /\ wk'[w].pc = "down"
    BY <2>2, AtNote
  <2>4. row' = row /\ net' = Orphaned(w)
    BY <1>4 DEF Crash
  <2>5. NetFine'
    BY <1>1, <2>2, <2>4, NetOfOrphans
  <2>6. QED BY <1>1, <2>2, <2>3, <2>4, <2>5, IdleFine DEF Still, SameJob, ProcessSteps
<1>5. ASSUME NEW p \in Posts, LeaseLapses(p) PROVE Fine'
  <2> DEFINE r == [row[p] EXCEPT !.lapsed = TRUE]
  <2>1. row' = [row EXCEPT ![p] = r] /\ wk' = wk /\ net' = net
    BY <1>5 DEF LeaseLapses
  <2>2. /\ r.status = row[p].status /\ r.lease = row[p].lease /\ r.account = row[p].account
        /\ r.ids = row[p].ids /\ r.pubs = row[p].pubs /\ r.cans = row[p].cans
        /\ r.seen = row[p].seen /\ r.snap = row[p].snap
    BY DEF TypeOK, Row
  <2> HIDE DEF r
  <2>3. row'[p] = r /\ \A q \in Posts \ {p} : row'[q] = row[q]
    BY <2>1 DEF TypeOK
  <2>4. NetFine'
    BY <1>1, <2>1, NetOfAll
  <2>5. \A w \in Workers : Calm(w) /\ wk'[w].note = wk[w].note
    BY <2>1 DEF Calm, Still, SameJob
  <2>6. Gentle(p)
    BY <2>2, <2>3 DEF Gentle
  <2>7. RowFine(p) /\ PartsOf(p)' = PartsOf(p) /\ Grows /\ Untouched(p)
    BY <1>1, <2>5, CalmSends, NobodyBegins
       DEF Fine, RowsFine, PartsOf, Grows, Untold, Taken, Left, Queued
  <2>8. row[p].status = "cancelled" /\ p \notin resolved => Over(p)'
    BY <2>7, OverStays DEF RowFine
  <2>9. RowFine(p)'
    BY <1>1, <2>2, <2>3, <2>7, <2>8, KeepsFine DEF RowFine, Grows
  <2>10. QED BY <1>1, <2>3, <2>4, <2>5, <2>6, <2>9, RowFineStep
<1>6. QED BY <1>2, <1>3, <1>4, <1>5 DEF Environment

LEMMA RefreshPermissionsFine ==
  ASSUME TypeOK, Rest, Fine, NEW w \in Workers, RefreshPermissions(w) PROVE Fine'
<1>1. row' = row /\ net' = net /\ wk' = wk /\ Untold /\ Asked' = Asked
  BY DEF RefreshPermissions, Untold, telegram, owner, Asked
<1>2. NetFine'
  BY <1>1, NetOfAll
<1>3. \A v \in Workers : Calm(v) /\ RowAsIs(v) /\ wk'[v].note = wk[v].note
  BY <1>1, RowsAsTheyAre DEF Calm, Still, SameJob
<1>4. \A p \in Posts : Untouched(p)
  BY <1>1, <1>3, CalmSends, NobodyBegins
<1>5. QED BY <1>1, <1>2, <1>3, <1>4, WorkFine

-----------------------------------------------------------------------------
(* The owner's commands *)

(* A revision bump leaves every job as it is. *)
LEMMA BumpCalm ==
  ASSUME TypeOK, NEW S, wk' = Bump(wk, S), NEW w \in Workers
  PROVE  Calm(w) /\ Still(w) /\ wk'[w].note = wk[w].note
BY DEF TypeOK, Local, Bump, Calm, Still, SameJob

(* A command writes one row; the others and the jobs stay. *)
LEMMA CommandStep ==
  ASSUME TypeOK, Rest, Fine, NEW p \in Posts, NEW r, row' = [row EXCEPT ![p] = r],
         Command(p), resolved \subseteq resolved',
         row[p].status # "absent", r.status # "absent", r.account = row[p].account,
         r.lease = row[p].lease, r.seen = row[p].seen,
         r.ids = row[p].ids, r.pubs = row[p].pubs, r.cans = row[p].cans,
         r.status \in Held \ {"scheduled"} \/ r.status \in {"queued", "cancelled"},
         r.status \in Held => PartsOf(p) \subseteq r.ids,
         r.status = "cancelled" /\ p \notin resolved' => Over(p)
  PROVE  Fine'
<1>1. wk' = Bump(wk, {p}) /\ net' = net /\ Untold /\ Asked' = Asked
  BY DEF Command, telegram, Untold, Asked
<1>2. row'[p] = r /\ \A q \in Posts \ {p} : row'[q] = row[q]
  BY DEF TypeOK
<1>3. \A w \in Workers : Calm(w) /\ wk'[w].note = wk[w].note /\ Still(w)
  BY <1>1, BumpCalm
<1>4. NetFine'
  BY <1>1, <1>3, NetOfAll DEF Still, SameJob
<1>5. Gentle(p)
  BY <1>2 DEF Gentle
<1>6. Grows /\ Untouched(p)
  BY <1>1, <1>3, CalmSends, NobodyBegins DEF Grows, Untold, Taken, Left, Queued
<1>7. r.status = "cancelled" /\ p \notin resolved' => Over(p)'
  BY <1>6, OverStays
<1>8. RowFine(p)'
  BY <1>1, <1>2, <1>7, KeepsFine
<1>9. QED BY <1>1, <1>2, <1>3, <1>4, <1>5, <1>8, RowFineStep

(* A queued post that nobody claimed was never handed over. *)
LEMMA QueuedIsOver ==
  ASSUME TypeOK, Rest, NEW p \in Posts, CommandCancelQueued(p)
  PROVE  Over(p)
<1>1. row[p].status = "queued"
  BY DEF Rest, CommandMatchesStatus, CommandMatches, CommandCancelQueued
<1>2. PartsOf(p) \cap Asked = {}
  BY <1>1 DEF Rest, RowsInv, RowTrue, Untransferred
<1>3. \A w \in Workers : ~(Sending(w) /\ wk[w].job = p)
  BY <1>1 DEF Rest, SendInv, SendTrue, Untransferred
<1>4. QED BY <1>2, <1>3 DEF Over

LEMMA CreateFine ==
  ASSUME TypeOK, Rest, Fine, NEW p \in Posts, NEW c \in Contents, Create(p, c) PROVE Fine'
<1> DEFINE r == [NewRow EXCEPT !.status = "queued", !.action = "schedule",
                               !.snap = [x \in Parts |-> c], !.account = permission]
<1>1. /\ row' = [row EXCEPT ![p] = r] /\ wk' = wk /\ net' = net
      /\ row[p].status = "absent" /\ Untold /\ Asked' = Asked
  BY DEF Create, Untold, telegram, owner, Asked
<1>2. r.status = "queued" /\ r.lease = None /\ r.ids = {} /\ r.pubs = {} /\ r.cans = {}
  BY DEF NewRow
<1> HIDE DEF r
<1>3. row'[p] = r /\ \A q \in Posts \ {p} : row'[q] = row[q]
  BY <1>1 DEF TypeOK
<1>4. \A w \in Workers : Calm(w) /\ wk'[w].note = wk[w].note
  BY <1>1 DEF Calm, Still, SameJob
<1>5. NetFine'
  BY <1>1, NetOfAll
<1>6. Gentle(p)
  BY <1>1, <1>2, <1>3, NoneAssumption DEF Gentle
<1>7. RowFine(p)'
  BY <1>2, <1>3 DEF RowFine, Held
<1>8. QED BY <1>1, <1>3, <1>4, <1>5, <1>6, <1>7, RowFineStep

LEMMA OwnerFine == ASSUME TypeOK, Rest, Fine, Owner PROVE Fine'
<1> SUFFICES ASSUME NEW p \in Posts,
                    \/ CommandCancelQueued(p) \/ CommandCancel(p) \/ Resolve(p)
                    \/ \E c \in Contents : Create(p, c) \/ Retry(p, c) \/ CommandUpdate(p, c)
             PROVE  Fine'
  BY DEF Owner
<1> DEFINE old == row[p]
<1>1. old \in Row /\ RowFine(p)
  BY DEF TypeOK, Fine, RowsFine
<1>2. CASE CommandCancelQueued(p)
  <2> DEFINE r == [old EXCEPT !.status = "cancelled", !.action = None]
  <2>1. /\ row' = [row EXCEPT ![p] = r] /\ Command(p) /\ resolved' = resolved /\ Over(p)
        /\ old.status # "absent"
    BY <1>2, QueuedIsOver
       DEF CommandCancelQueued, Rest, CommandMatchesStatus, CommandMatches
  <2>2. /\ r.status = "cancelled" /\ r.account = old.account /\ r.lease = old.lease
        /\ r.seen = old.seen /\ r.ids = old.ids /\ r.pubs = old.pubs /\ r.cans = old.cans
    BY <1>1 DEF Row
  <2> HIDE DEF r
  <2>3. QED BY <2>1, <2>2, CommandStep DEF Held
<1>3. CASE CommandCancel(p)
  <2> DEFINE r == [old EXCEPT !.status = "cancelling", !.action = "cancel", !.pend = None]
  <2>1. /\ row' = [row EXCEPT ![p] = r] /\ Command(p) /\ resolved' = resolved
        /\ old.status # "absent" /\ PartsOf(p) \subseteq old.ids
    BY <1>3 DEF CommandCancel
  <2>2. /\ r.status = "cancelling" /\ r.account = old.account /\ r.lease = old.lease
        /\ r.seen = old.seen /\ r.ids = old.ids /\ r.pubs = old.pubs /\ r.cans = old.cans
    BY <1>1 DEF Row
  <2> HIDE DEF r
  <2>3. QED BY <2>1, <2>2, CommandStep DEF Held
<1>4. CASE Resolve(p)
  <2> DEFINE r == [old EXCEPT !.status = "cancelled"]
  <2>1. /\ row' = [row EXCEPT ![p] = r] /\ Command(p) /\ resolved' = resolved \cup {p}
        /\ old.status # "absent"
    BY <1>4 DEF Resolve
  <2>2. /\ r.status = "cancelled" /\ r.account = old.account /\ r.lease = old.lease
        /\ r.seen = old.seen /\ r.ids = old.ids /\ r.pubs = old.pubs /\ r.cans = old.cans
    BY <1>1 DEF Row
  <2> HIDE DEF r
  <2>3. QED BY <2>1, <2>2, CommandStep DEF Held
<1>5. ASSUME NEW c \in Contents, Retry(p, c) PROVE Fine'
  <2> DEFINE r == [old EXCEPT !.status = "queued", !.action = "schedule",
                              !.snap = [x \in Parts |-> c]]
  <2>1. /\ row' = [row EXCEPT ![p] = r] /\ Command(p) /\ resolved' = resolved
        /\ old.status # "absent"
    BY <1>5 DEF Retry
  <2>2. /\ r.status = "queued" /\ r.account = old.account /\ r.lease = old.lease
        /\ r.seen = old.seen /\ r.ids = old.ids /\ r.pubs = old.pubs /\ r.cans = old.cans
    BY <1>1 DEF Row
  <2> HIDE DEF r
  <2>3. QED BY <2>1, <2>2, CommandStep DEF Held
<1>6. ASSUME NEW c \in Contents, CommandUpdate(p, c) PROVE Fine'
  <2> DEFINE r == [old EXCEPT !.status = "updating", !.action = "update", !.pend = c]
  <2>1. /\ row' = [row EXCEPT ![p] = r] /\ Command(p) /\ resolved' = resolved
        /\ old.status = "scheduled"
    BY <1>6 DEF CommandUpdate
  <2>2. /\ r.status = "updating" /\ r.account = old.account /\ r.lease = old.lease
        /\ r.seen = old.seen /\ r.ids = old.ids /\ r.pubs = old.pubs /\ r.cans = old.cans
    BY <1>1 DEF Row
  <2>4. PartsOf(p) \subseteq old.ids
    BY <1>1, <2>1 DEF RowFine, Held
  <2> HIDE DEF r
  <2>3. QED BY <2>1, <2>2, <2>4, CommandStep DEF Held
<1>7. QED BY <1>2, <1>3, <1>4, <1>5, <1>6, CreateFine

-----------------------------------------------------------------------------
(* Process: the steps that write no row *)

LEMMA OnlyRowsUntold ==
  ASSUME OnlyRows, Asked \subseteq Asked'
  PROVE  Untold
BY DEF OnlyRows, Untold, telegram, owner

(* The fields of a worker that goes on in process. *)
LEMMA GoesTo ==
  ASSUME TypeOK, NEW w \in Workers, NEW pc, NEW risky,
         wk' = [wk EXCEPT ![w] = [@ EXCEPT !.pc = pc, !.risky = risky]]
  PROVE  /\ wk'[w].pc = pc /\ SameJob(w) /\ wk'[w].note = wk[w].note
         /\ \A v \in Workers \ {w} : Still(v) /\ wk'[v].note = wk[v].note
<1> DEFINE l == [wk[w] EXCEPT !.pc = pc, !.risky = risky]
<1>1. /\ l.pc = pc /\ l.job = wk[w].job /\ l.act = wk[w].act /\ l.have = wk[w].have
      /\ l.goal = wk[w].goal /\ l.left = wk[w].left
      /\ l.account = wk[w].account /\ l.note = wk[w].note
  BY DEF TypeOK, Local
<1> HIDE DEF l
<1>2. wk'[w] = l /\ \A v \in Workers \ {w} : wk'[v] = wk[v]
  BY Alone DEF l
<1>3. QED BY <1>1, <1>2 DEF Still, SameJob

LEMMA StepGoesTo ==
  ASSUME TypeOK, NEW w \in Workers, NEW pc, Step(w, pc)
  PROVE  wk' = [wk EXCEPT ![w] = [@ EXCEPT !.pc = pc, !.risky = wk[w].risky]]
<1>1. [wk[w] EXCEPT !.pc = pc] = [wk[w] EXCEPT !.pc = pc, !.risky = wk[w].risky]
  BY DEF TypeOK, Local
<1>2. QED BY <1>1 DEF Step

LEMMA GoesOnFine ==
  ASSUME TypeOK, Rest, Fine, NEW w \in Workers, Busy(w), NEW pc, NEW risky,
         wk' = [wk EXCEPT ![w] = [@ EXCEPT !.pc = pc, !.risky = risky]],
         MayGo(w, pc), row' = row, Untold, Asked' = Asked, NetFine'
  PROVE  Fine'
<1>1. \A v \in Workers : Calm(v) /\ RowAsIs(v) /\ wk'[v].note = wk[v].note
  BY GoesTo, RowsAsTheyAre DEF Calm
<1>2. \A p \in Posts : Untouched(p)
  BY <1>1, CalmSends, NobodyBegins
<1>3. QED BY <1>1, <1>2, WorkFine

LEMMA GivesUpFine ==
  ASSUME TypeOK, Rest, Fine, NEW w \in Workers, Busy(w), wk[w].pc # "await",
         Fails(w) \/ FailsAtRisk(w), Untold
  PROVE  Fine'
<1>1. \E risky : wk' = [wk EXCEPT ![w] = [@ EXCEPT !.pc = "fail", !.risky = risky]]
  BY StepGoesTo DEF Fails, FailsAtRisk
<1>2. row' = row /\ net' = net /\ Asked' = Asked
  BY DEF Fails, FailsAtRisk, Asked
<1>3. NetFine'
  BY <1>1, <1>2, GoesTo, NetOfOthers DEF Still, SameJob
<1>4. MayGo(w, "fail")
  BY DEF MayGo
<1>5. QED BY <1>1, <1>2, <1>3, <1>4, GoesOnFine

LEMMA PreflightFine ==
  ASSUME TypeOK, Rest, Fine, NEW w \in Workers, Preflight(w) PROVE Fine'
<1>1. Busy(w) /\ wk[w].pc = "check" /\ Untold
  BY ActOf DEF Preflight, Fails, Untold, telegram, owner, Asked
<1>2. CASE Fails(w)
  BY <1>1, <1>2, GivesUpFine
<1>3. CASE /\ wk[w].account = row[wk[w].job].account
           /\ Step(w, FirstStep(wk[w].act)) /\ UNCHANGED <<row, net, asks>>
  <2> DEFINE pc == FirstStep(wk[w].act)
  <2>1. /\ pc \in {"send", "edit", "cancel"} /\ row' = row /\ net' = net /\ Asked' = Asked
    BY <1>3 DEF FirstStep, Asked
  <2>2. wk' = [wk EXCEPT ![w] = [@ EXCEPT !.pc = pc, !.risky = wk[w].risky]]
    BY <1>3, StepGoesTo
  <2> HIDE DEF pc
  <2>3. MayGo(w, pc)
    BY <1>1, <1>3, <2>1 DEF MayGo
  <2>4. \A v \in Workers \ {w} : wk'[v].job = wk[v].job /\ wk'[v].have = wk[v].have
    BY <2>2, GoesTo DEF Still, SameJob
  <2>5. NetFine'
    BY <1>1, <2>1, <2>4, NetOfOthers
  <2>6. QED BY <1>1, <2>1, <2>2, <2>3, <2>5, GoesOnFine
<1>4. QED BY <1>2, <1>3 DEF Preflight

LEMMA TimeoutFine ==
  ASSUME TypeOK, Rest, Fine, NEW w \in Workers, Timeout(w) PROVE Fine'
<1>1. /\ Busy(w) /\ row' = row /\ net' = Orphaned(w) /\ Asked' = Asked /\ Untold
  BY ActOf, OnlyRowsUntold DEF Timeout, Asked
<1>2. wk' = [wk EXCEPT ![w] = [@ EXCEPT !.pc = "fail", !.risky = wk[w].risky]]
  BY StepGoesTo DEF Timeout
<1>3. NetFine'
  BY <1>1, <1>2, GoesTo, NetOfOrphans DEF Still, SameJob
<1>4. MayGo(w, "fail")
  BY DEF MayGo
<1>5. QED BY <1>1, <1>2, <1>3, <1>4, GoesOnFine

\* What Ask adds to the network
Asks(w, op, parts) == [op |-> op, parts |-> parts, text |-> wk[w].goal, by |-> w]

LEMMA AskMoves ==
  ASSUME TypeOK, Rest, Fine, NEW w \in Workers, NEW op, NEW parts, Ask(w, op, parts)
  PROVE  /\ wk' = [wk EXCEPT ![w] = [@ EXCEPT !.pc = "await", !.risky = TRUE]]
         /\ row' = row /\ net' = net \cup {Asks(w, op, parts)}
         /\ \A v \in Workers : /\ wk'[v].job = wk[v].job /\ wk'[v].have = wk[v].have
                               /\ Unit(v)' = Unit(v)
                               /\ PartsOf(wk[v].job)' = PartsOf(wk[v].job)
         /\ \A r \in net : r.by # None => r.by \in Workers
<1>1. wk' = [wk EXCEPT ![w] = [@ EXCEPT !.pc = "await", !.risky = TRUE]]
  BY DEF Ask
<1>2. \A v \in Workers : wk'[v].job = wk[v].job /\ wk'[v].have = wk[v].have
  BY <1>1, GoesTo DEF Still, SameJob
<1>3. \A v \in Workers : /\ Unit(v)' = Unit(v)
                         /\ PartsOf(wk[v].job)' = PartsOf(wk[v].job)
  BY <1>2, UnitStays
<1>4. QED BY <1>1, <1>2, <1>3 DEF Ask, Asks, TypeOK, Request

(* A change or a deletion is asked for. *)
LEMMA AskFine ==
  ASSUME TypeOK, Rest, Fine, NEW w \in Workers, Busy(w), NEW op \in {"edit", "delete"},
         NEW parts, parts \subseteq PartsOf(wk[w].job), Ask(w, op, parts),
         wk[w].pc \in {"edit", "cancel"}, Untold, Asked' = Asked
  PROVE  Fine'
<1> DEFINE new == Asks(w, op, parts)
<1>1. /\ new.op \in {"edit", "delete"} /\ new.parts = parts /\ new.by = w
  BY DEF Asks
<1>2. Taken' = Taken
  BY DEF Untold, Taken, Queued
<1>3. /\ wk' = [wk EXCEPT ![w] = [@ EXCEPT !.pc = "await", !.risky = TRUE]]
      /\ row' = row /\ net' = net \cup {new}
  BY AskMoves
<1> HIDE DEF new
<1>4. ASSUME NEW r \in net' PROVE OwnRequest(r)' /\ NewRequest(r)'
  <2>1. CASE r \in net
    <3>1. OwnRequest(r) /\ NewRequest(r)
      BY <2>1 DEF Fine, NetFine
    <3>2. OwnRequest(r)'
      BY <2>1, <3>1, AskMoves DEF OwnRequest
    <3>3. NewRequest(r)'
      BY <1>1, <1>2, <1>3, <3>1 DEF NewRequest
    <3>4. QED BY <3>2, <3>3
  <2>2. CASE r = new
    <3>1. OwnRequest(r)'
      BY <1>1, <2>2, AskMoves DEF OwnRequest
    <3>2. NewRequest(r)'
      BY <1>1, <2>2 DEF NewRequest
    <3>3. QED BY <3>1, <3>2
  <2>3. QED BY <1>3, <2>1, <2>2
<1>5. NetFine'
  BY <1>4 DEF NetFine
<1>6. MayGo(w, "await")
  BY DEF MayGo
<1>7. QED BY <1>3, <1>5, <1>6, GoesOnFine

LEMMA EditFine ==
  ASSUME TypeOK, Rest, Fine, NEW w \in Workers, Edit(w) PROVE Fine'
<1>1. Busy(w) /\ wk[w].pc = "edit" /\ JobFine(w)
  BY ActOf DEF Edit, Fine, JobsFine
<1>2. CASE FailsAtRisk(w)
  <2>1. Untold
    BY <1>2, OnlyRowsUntold DEF Edit, FailsAtRisk, Asked
  <2>2. QED BY <1>1, <1>2, <2>1, GivesUpFine
<1>3. CASE Ask(w, "edit", Oldest(wk[w].left)) /\ asks' = asks
  <2>1. Untold /\ Asked' = Asked
    BY <1>3, OnlyRowsUntold DEF Edit, Asked
  <2>2. Oldest(wk[w].left) \subseteq PartsOf(wk[w].job)
    BY <1>1 DEF JobFine, Oldest
  <2>3. QED BY <1>1, <1>3, <2>1, <2>2, AskFine
<1>4. QED BY <1>2, <1>3 DEF Edit

LEMMA CancelFine ==
  ASSUME TypeOK, Rest, Fine, NEW w \in Workers, Cancel(w) PROVE Fine'
<1>1. Busy(w) /\ wk[w].pc = "cancel"
  BY ActOf DEF Cancel
<1>2. CASE FailsAtRisk(w)
  <2>1. Untold
    BY <1>2, OnlyRowsUntold DEF Cancel, FailsAtRisk, Asked
  <2>2. QED BY <1>1, <1>2, <2>1, GivesUpFine
<1>3. CASE Ask(w, "delete", PartsOf(wk[w].job)) /\ asks' = asks
  <2>1. Untold /\ Asked' = Asked
    BY <1>3, OnlyRowsUntold DEF Cancel, Asked
  <2>2. QED BY <1>1, <1>3, <2>1, AskFine
<1>4. QED BY <1>2, <1>3 DEF Cancel

(* Messages of the post that were never handed over are. *)
LEMMA SendFine ==
  ASSUME TypeOK, Rest, Fine, NEW w \in Workers, Send(w) PROVE Fine'
<1> DEFINE p == wk[w].job
           unit == Unit(w)
           new == Asks(w, "send", unit)
<1>1. /\ Busy(w) /\ Sending(w) /\ wk[w].pc = "send" /\ p \in Posts
      /\ SendTrue(w) /\ Queued(queue) \cup published \subseteq Asked /\ deleted \subseteq Asked
  BY ActOf DEF Send, Sending, Rest, SendInv, NetInv, Fine, QueueFine
<1>2. CASE FailsAtRisk(w)
  <2>1. Untold
    BY <1>2, OnlyRowsUntold DEF Send, FailsAtRisk, Asked
  <2>2. QED BY <1>1, <1>2, <2>1, GivesUpFine
<1>3. CASE /\ Ask(w, "send", unit)
           /\ asks' = [x \in Parts |-> IF x \in unit THEN asks[x] + 1 ELSE asks[x]]
  <2>1. unit \subseteq PartsOf(p) /\ unit \cap Asked = {} /\ Taken \subseteq Asked
    BY <1>1, UnitMissing DEF SendTrue, Taken
  <2>2. Asked \subseteq Asked' /\ Asked' \subseteq Asked \cup unit
    BY <1>3 DEF Asked, TypeOK
  <2>3. Untold
    BY <2>2, OnlyRowsUntold DEF Send
  <2>4. /\ wk' = [wk EXCEPT ![w] = [@ EXCEPT !.pc = "await", !.risky = TRUE]]
        /\ row' = row /\ net' = net \cup {new}
    BY <1>3, AskMoves
  <2>5. new.op = "send" /\ new.parts = unit /\ new.by = w
    BY DEF Asks
  <2>6. \A r \in net : r.op = "send" => r.parts \cap unit = {}
    BY <2>1 DEF Rest, NetInv
  <2>7. Taken' = Taken
    BY <2>3 DEF Untold, Taken, Queued
  <2>8. /\ Unit(w)' = unit /\ PartsOf(wk[w].job)' = PartsOf(p)
        /\ \A v \in Workers : /\ Unit(v)' = Unit(v)
                              /\ PartsOf(wk[v].job)' = PartsOf(wk[v].job)
    BY <1>3, AskMoves
  <2> HIDE DEF new, unit
  <2>9. ASSUME NEW r \in net' PROVE OwnRequest(r)' /\ NewRequest(r)'
    <3>1. CASE r \in net
      <4>1. OwnRequest(r) /\ NewRequest(r) /\ (r.by # None => r.by \in Workers)
        BY <3>1 DEF Fine, NetFine, TypeOK, Request
      <4>2. OwnRequest(r)'
        BY <4>1, <2>4, <2>8 DEF OwnRequest
      <4>3. NewRequest(r)'
        BY <2>4, <2>5, <2>6, <2>7, <3>1, <4>1 DEF NewRequest
      <4>4. QED BY <4>2, <4>3
    <3>2. CASE r = new
      <4>1. OwnRequest(r)'
        BY <2>1, <2>5, <2>8, <3>2 DEF OwnRequest
      <4>2. NewRequest(r)'
        BY <2>1, <2>4, <2>5, <2>6, <2>7, <3>2 DEF NewRequest
      <4>3. QED BY <4>1, <4>2
    <3>3. QED BY <2>4, <3>1, <3>2
  <2>10. \A v \in Workers : Calm(v) /\ wk'[v].note = wk[v].note
    <3>1. MayGo(w, "await")
      BY <1>1 DEF MayGo
    <3>2. QED BY <1>1, <2>4, <3>1, GoesTo DEF Calm
  <2>11. ASSUME NEW q \in Posts PROVE RowFine(q)'
    <3>1. RowFine(q) /\ row'[q] = row[q]
      BY <2>4 DEF Fine, RowsFine
    <3>2. ASSUME row[q].status = "cancelled", q \notin resolved PROVE Untouched(q)
      <4>1. Over(q)
        BY <3>1, <3>2 DEF RowFine
      <4>2. PartsOf(q) \cap unit \subseteq Asked
        <5>1. CASE q = p
          BY <1>1, <2>1, <4>1, <5>1 DEF Over, Taken, Left
        <5>2. CASE q # p
          BY <2>1, <5>2 DEF PartsOf
        <5>3. QED BY <5>1, <5>2
      <4>3. QED BY <2>2, <2>10, <4>2, CalmSends DEF Untouched
    <3>3. Grows
      BY <2>3, <2>7 DEF Grows, Untold, Left
    <3>4. row[q].status = "cancelled" /\ q \notin resolved => Over(q)'
      BY <3>1, <3>2, <3>3, OverStays DEF RowFine
    <3>5. QED BY <2>3, <3>1, <3>3, <3>4, KeepsFine DEF RowFine, Grows
  <2>12. NetFine'
    BY <2>9 DEF NetFine
  <2>13. \A v \in Workers : RowAsIs(v)
    BY <2>4, RowsAsTheyAre
  <2>14. QED BY <2>3, <2>10, <2>11, <2>12, <2>13, WorkFine
<1>4. QED BY <1>2, <1>3 DEF Send

-----------------------------------------------------------------------------
(* Process: the steps that write the row *)

(* save_parts by the worker that still holds the lease *)
LEMMA SavedFields ==
  ASSUME NEW r \in Row, NEW w, NEW have, NEW seen, r.lease = w
  PROVE  LET s == SaveParts(r, w, have, seen)
         IN  /\ s.status = r.status /\ s.account = r.account /\ s.lease = w
             /\ s.ids = have /\ s.seen = seen /\ s.pubs = r.pubs /\ s.cans = r.cans
             /\ s.snap = r.snap
BY DEF SaveParts, Row

\* What a worker learned, once its row says it, is as JobFine wants it.
Learns(w, have, left, seen) ==
  LET mine == PartsOf(wk[w].job)
      goal == wk[w].goal
  IN  /\ wk[w].act = "schedule" => /\ wk[w].have \subseteq have
                                  /\ \A x \in mine \cap have : seen[x] = goal[x]
      /\ wk[w].act = "update" => /\ have = wk[w].have
                                /\ \A x \in mine \ left : seen[x] = goal[x]

LEMMA SaveFine ==
  ASSUME TypeOK, Rest, Fine, NEW w \in Workers, Busy(w),
         wk[w].pc \in {"accepted", "verify"}, wk[w].act \in {"schedule", "update"},
         NEW p \in Posts, p = wk[w].job, NEW have, NEW left, NEW pc, NEW seen,
         NEW l \in Local, l.pc = pc, l.job = p, l.act = wk[w].act, l.have = have,
         l.goal = wk[w].goal, l.left = left, l.account = wk[w].account,
         l.note = wk[w].note,
         wk' = [wk EXCEPT ![w] = l],
         row' = [row EXCEPT ![p] = SaveParts(@, w, have, seen)],
         row[p].lease = w => Learns(w, have, left, seen),
         have \subseteq Taken, left \subseteq PartsOf(p),
         pc \in {"send", "edit", "confirm"},
         wk[w].act = "schedule" /\ pc = "send" => PartsOf(p) \ have # {},
         wk[w].act = "update" /\ pc = "confirm" => left = {},
         net' = net, Untold, Asked' = Asked
  PROVE  Fine'
<1>1. wk'[w] = l /\ \A v \in Workers \ {w} : wk'[v] = wk[v]
  BY Alone
<1>2. \A v \in Workers \ {w} : Calm(v) /\ Still(v) /\ wk'[v].note = wk[v].note
  BY <1>1 DEF Calm, Still, SameJob
<1>3. NetFine'
  BY <1>2, NetOfOthers DEF Still, SameJob
<1>4. /\ row[p] \in Row /\ RowFine(p) /\ JobFine(w) /\ JobTrue(w) /\ CommandMatches(p)
      /\ row'[p] = SaveParts(row[p], w, have, seen)
      /\ \A q \in Posts \ {p} : row'[q] = row[q]
  BY DEF TypeOK, Fine, RowsFine, JobsFine, Rest, JobsInv, CommandMatchesStatus
<1>5. Grows /\ Taken' = Taken /\ PartsOf(p)' = PartsOf(p)
  BY DEF Untold, Grows, Taken, Left, Queued, PartsOf
<1>6. ASSUME row[p].lease = w
      PROVE  /\ row'[p].status = row[p].status /\ row'[p].account = row[p].account
             /\ row'[p].lease = w /\ row'[p].ids = have /\ row'[p].seen = seen
             /\ row'[p].pubs = row[p].pubs /\ row'[p].cans = row[p].cans
             /\ row'[p].snap = row[p].snap
             /\ row[p].action = wk[w].act
             /\ row[p].ids = wk[w].have
             /\ row[p].status \in {"queued", "transferring", "updating"}
  <2>1. Busy(w) /\ row[p].action = wk[w].act /\ Written(w)
    BY <1>4, <1>6 DEF JobTrue, JobFine
  <2>2. QED BY <1>4, <1>6, <2>1, SavedFields DEF Written, CommandMatches
<1>7. row[p].lease # w => row'[p] = row[p]
  BY <1>4 DEF SaveParts
<1>8. JobFine(w)'
  <2>1. row[p].lease = w => Written(w)'
    BY <1>1, <1>4, <1>5, <1>6 DEF Written, Learns, PartsOf
  <2>2. row[p].lease # w => Written(w)'
    BY <1>1, <1>7 DEF Written
  <2>3. /\ row'[p].status # "absent"
        /\ wk[w].account = row'[p].account
    BY <1>4, <1>6, <1>7 DEF JobFine
  <2>4. QED BY <1>1, <1>5, <2>1, <2>2, <2>3 DEF JobFine, PartsOf
<1>9. RowFine(p)' \/ row'[p] = row[p]
  <2>1. CASE row[p].lease = w
    <3>1. row[p].ids \subseteq have
      BY <1>6, <2>1 DEF Learns
    <3>2. row[p].status = "updating" => PartsOf(p) \subseteq have
      BY <1>4, <3>1 DEF RowFine, Held
    <3>3. QED BY <1>4, <1>5, <1>6, <2>1, <3>1, <3>2 DEF RowFine, Held, Untold
  <2>2. QED BY <1>7, <2>1
<1>10. \A v \in Workers \ {w} : RowAsIs(v)
  BY <1>4, <1>6, <1>7 DEF RowAsIs
<1>11. \A q \in Posts : Untouched(q)
  <2>1. \A v \in Workers : Sending(v)' => Sending(v) /\ wk'[v].job = wk[v].job
    BY <1>1, <1>2, CalmSends DEF Sending
  <2>2. QED BY <2>1, NobodyBegins
<1>12. QED BY <1>1, <1>2, <1>3, <1>4, <1>8, <1>9, <1>10, <1>11, WorkFine

LEMMA AcceptedFine ==
  ASSUME TypeOK, Rest, Fine, NEW w \in Workers, Accepted(w) PROVE Fine'
<1> DEFINE p == wk[w].job
           have == wk[w].have \cup Unit(w)
           seen == [x \in Parts |-> IF x \in Unit(w) THEN wk[w].goal[x] ELSE row[p].seen[x]]
           pc == IF PartsOf(p) \subseteq have THEN "confirm" ELSE "send"
           l == [wk[w] EXCEPT !.have = have, !.pc = pc]
<1>1. /\ Busy(w) /\ wk[w].act = "schedule" /\ p \in Posts /\ wk[w].pc = "accepted"
      /\ Untold /\ Asked' = Asked /\ net' = net
  BY ActOf, OnlyRowsUntold DEF Accepted, Asked
<1>2. /\ wk' = [wk EXCEPT ![w] = l]
      /\ row' = [row EXCEPT ![p] = SaveParts(@, w, have, seen)]
  BY DEF Accepted
<1>3. /\ wk[w].have \subseteq Taken /\ wk[w].left \subseteq PartsOf(p)
      /\ Unit(w) \subseteq Taken /\ Written(w)
  BY <1>1 DEF Fine, JobsFine, JobFine
<1>4. /\ pc \in {"send", "confirm"} /\ (pc = "send" => PartsOf(p) \ have # {})
      /\ have \subseteq Taken /\ wk[w].have \subseteq have /\ have \subseteq Parts
  BY <1>3 DEF Taken, Queued, TypeOK
<1>5. row[p].lease = w => Learns(w, have, wk[w].left, seen)
  BY <1>1, <1>3 DEF Learns, Written, PartsOf
<1> HIDE DEF pc, have, seen
<1>6. /\ l \in Local /\ l.pc = pc /\ l.job = p /\ l.act = wk[w].act /\ l.have = have
      /\ l.goal = wk[w].goal /\ l.left = wk[w].left /\ l.account = wk[w].account
      /\ l.note = wk[w].note
  BY <1>4 DEF TypeOK, Local, ProcessSteps
<1> HIDE DEF l, p
<1>7. p = wk[w].job
  BY DEF p
<1> DEFINE left == wk[w].left
<1>8. /\ l.left = left /\ left \subseteq PartsOf(p)
      /\ row[p].lease = w => Learns(w, have, left, seen)
  BY <1>3, <1>5, <1>6
<1> HIDE DEF left
<1>9. QED BY <1>1, <1>2, <1>4, <1>6, <1>7, <1>8, SaveFine

LEMMA VerifyFine ==
  ASSUME TypeOK, Rest, Fine, NEW w \in Workers, Verify(w) PROVE Fine'
<1> DEFINE p == wk[w].job
           unit == Oldest(wk[w].left)
           left == wk[w].left \ unit
           have == wk[w].have
           seen == [x \in Parts |-> IF x \in unit THEN wk[w].goal[x] ELSE row[p].seen[x]]
           pc == IF left = {} THEN "confirm" ELSE "edit"
           l == [wk[w] EXCEPT !.left = left, !.pc = pc]
<1>1. /\ Busy(w) /\ wk[w].act = "update" /\ p \in Posts /\ wk[w].pc = "verify"
      /\ Untold /\ Asked' = Asked
  BY ActOf, OnlyRowsUntold DEF Verify, Fails, Asked
<1>2. CASE Fails(w)
  BY <1>1, <1>2, GivesUpFine
<1>3. CASE ~Fails(w)
  <2>2. /\ wk' = [wk EXCEPT ![w] = l] /\ net' = net
        /\ row' = [row EXCEPT ![p] = SaveParts(@, w, have, seen)]
    BY <1>3 DEF Verify
  <2>3. have \subseteq Taken /\ wk[w].left \subseteq PartsOf(p) /\ Written(w)
    BY <1>1 DEF Fine, JobsFine, JobFine
  <2>4. /\ pc \in {"edit", "confirm"} /\ (pc = "confirm" => left = {})
        /\ left \subseteq PartsOf(p) /\ left \subseteq Parts
    BY <2>3 DEF PartsOf
  <2>5. row[p].lease = w => Learns(w, have, left, seen)
    BY <1>1, <2>3 DEF Learns, Written, PartsOf
  <2> HIDE DEF pc, left, seen
  <2>6. /\ l \in Local /\ l.pc = pc /\ l.job = p /\ l.act = wk[w].act /\ l.have = have
        /\ l.goal = wk[w].goal /\ l.left = left /\ l.account = wk[w].account
        /\ l.note = wk[w].note
    BY <2>4 DEF TypeOK, Local, ProcessSteps
  <2>7. p = wk[w].job
    OBVIOUS
  <2> HIDE DEF l, p, have
  <2>8. QED BY <1>1, <2>2, <2>3, <2>4, <2>5, <2>6, <2>7, SaveFine
<1>4. QED BY <1>2, <1>3

(* After finish the worker is idle and the others are as they were. *)
LEMMA FinishedMoves ==
  ASSUME TypeOK, NEW w \in Workers, NEW p, wk' = Finished(wk, w, p)
  PROVE  /\ wk'[w].pc = "idle" /\ NoteFine(wk[w].note)'
         /\ \A v \in Workers \ {w} : Still(v) /\ wk'[v].note = wk[v].note
<1> DEFINE f == [wk EXCEPT ![w] = At("idle", @.session, @.account)]
           S == IF row[p].lease = w THEN {p} ELSE {}
<1>1. f \in [Workers -> Local]
  BY AtType DEF TypeOK, Local
<1>2. wk' = Bump(f, S)
  BY DEF Finished
<1>3. /\ f[w].pc = "idle" /\ f[w].note = NoNotice
      /\ \A v \in Workers \ {w} : f[v] = wk[v]
  BY DEF TypeOK, At
<1> HIDE DEF f, S
<1>4. \A v \in Workers : /\ wk'[v].pc = f[v].pc /\ wk'[v].job = f[v].job
                         /\ wk'[v].act = f[v].act /\ wk'[v].have = f[v].have
                         /\ wk'[v].goal = f[v].goal /\ wk'[v].left = f[v].left
                         /\ wk'[v].account = f[v].account /\ wk'[v].note = f[v].note
  BY <1>1, <1>2 DEF Bump, Local
<1>5. QED BY <1>3, <1>4 DEF Still, SameJob, NoteFine, NoNotice

LEMMA FinishedRow ==
  ASSUME NEW r \in Row, NEW w, NEW s, NEW snap, r.lease = w
  PROVE  LET f == Finish(r, w, s, snap)
         IN  /\ f.status = s /\ f.lease = None /\ f.account = r.account
             /\ f.ids = r.ids /\ f.pubs = r.pubs /\ f.cans = r.cans
             /\ f.seen = r.seen /\ f.snap = snap
BY DEF Finish, Row

(* finish ends the command of a row still leased by w. *)
LEMMA FinishFine ==
  ASSUME TypeOK, Rest, Fine, NEW w \in Workers, Busy(w), wk[w].pc # "await",
         NEW p \in Posts, p = wk[w].job,
         NEW r \in Row, r.lease = row[p].lease, r.account = row[p].account,
         r.ids = row[p].ids, r.pubs = row[p].pubs, r.cans = row[p].cans,
         r.seen = row[p].seen, row[p].lease # w => r = row[p],
         NEW s \in {"scheduled", "cancelled", "needs_review", "failed"}, NEW snap,
         s = "scheduled" /\ row[p].lease = w =>
           /\ PartsOf(p) \subseteq row[p].ids
           /\ \A x \in PartsOf(p) : row[p].seen[x] = snap[x],
         s = "cancelled" /\ row[p].lease = w => PartsOf(p) \subseteq Left,
         row' = [row EXCEPT ![p] = Finish(r, w, s, snap)],
         wk' = Finished(wk, w, p), net' = net, Untold, Asked' = Asked
  PROVE  Fine'
<1>1. row'[p] = Finish(r, w, s, snap) /\ \A q \in Posts \ {p} : row'[q] = row[q]
  BY DEF TypeOK
<1>2. ASSUME row[p].lease = w
      PROVE  /\ row'[p].status = s /\ row'[p].lease = None
             /\ row'[p].account = row[p].account
             /\ row'[p].ids = row[p].ids /\ row'[p].pubs = row[p].pubs
             /\ row'[p].cans = row[p].cans /\ row'[p].seen = row[p].seen
             /\ row'[p].snap = snap
  BY <1>1, <1>2, FinishedRow
<1>3. row[p].lease # w => row'[p] = row[p]
  BY <1>1 DEF Finish
<1>4. \A v \in Workers : Calm(v)
  BY FinishedMoves DEF Calm, ProcessSteps
<1>5. \A q \in Posts : Untouched(q)
  BY <1>4, CalmSends, NobodyBegins
<1>6. NetFine'
  BY FinishedMoves, NetOfOthers DEF Still, SameJob
<1>7. ASSUME row[p].lease = w PROVE RowFine(p)' /\ Gentle(p)
  <2>1. Left' = Left
    BY DEF Untold, Left
  <2>2. s = "cancelled" => Over(p)'
    BY <1>7, <2>1 DEF Over, PartsOf
  <2>3. RowFine(p)'
    BY <1>2, <1>7, <2>2, KeepsFine DEF Held
  <2>4. QED BY <1>2, <1>7, <2>3, NoneAssumption DEF Gentle
<1>8. \A q \in Posts : /\ row'[q] = row[q] \/ RowFine(q)'
                       /\ row'[q] = row[q] \/ Gentle(q)
  BY <1>1, <1>3, <1>7
<1>9. \A v \in Workers : RowAsIs(v)
  BY <1>8, GentleRows
<1>10. \A v \in Workers : wk'[v].note = wk[v].note \/ NoteFine(wk[v].note)'
  BY FinishedMoves
<1>11. QED BY <1>4, <1>5, <1>6, <1>8, <1>9, <1>10, WorkFine

(* What the row of a worker's job is, while the worker holds its lease. *)
LEMMA LeasedRow ==
  ASSUME TypeOK, Rest, Fine, NEW w \in Workers, Busy(w)
  PROVE  LET p == wk[w].job
         IN  /\ p \in Posts /\ row[p] \in Row /\ RowFine(p) /\ JobFine(w)
             /\ row[p].lease = w => row[p].action = wk[w].act /\ Written(w)
             /\ row[p].lease = w /\ wk[w].act = "cancel" => row[p].status = "cancelling"
             /\ row[p].lease = w /\ wk[w].act = "update" => row[p].status = "updating"
<1>1. /\ wk[w].job \in Posts /\ JobFine(w)
      /\ row[wk[w].job].lease = w => row[wk[w].job].action = wk[w].act
  BY DEF Rest, JobsInv, JobTrue, Fine, JobsFine
<1>2. /\ row[wk[w].job] \in Row /\ RowFine(wk[w].job) /\ CommandMatches(wk[w].job)
  BY <1>1 DEF TypeOK, Fine, RowsFine, Rest, CommandMatchesStatus
<1>3. Written(w)
  BY <1>1 DEF JobFine
<1>4. QED BY <1>1, <1>2, <1>3 DEF CommandMatches

LEMMA GoneFine == ASSUME TypeOK, Rest, Fine, NEW w \in Workers, Gone(w) PROVE Fine'
<1> DEFINE p == wk[w].job
<1>1. Busy(w) /\ wk[w].act = "cancel" /\ wk[w].pc = "gone"
  BY ActOf DEF Gone
<1>2. Untold
  BY OnlyRowsUntold DEF Gone, Fails, FinishJob, Asked
<1>3. CASE Fails(w)
  BY <1>1, <1>2, <1>3, GivesUpFine
<1>4. CASE /\ PartsOf(p) \cap Queued(queue) = {}
           /\ FinishJob(w, "cancelled", row[p].snap)
  <2>1. /\ row' = [row EXCEPT ![p] = Finish(row[p], w, "cancelled", row[p].snap)]
        /\ wk' = Finished(wk, w, p) /\ net' = net /\ Asked' = Asked
    BY <1>4 DEF FinishJob, Asked
  <2>2. p \in Posts /\ row[p] \in Row
    BY <1>1, LeasedRow
  <2>3. row[p].lease = w => PartsOf(p) \subseteq Left
    BY <1>1, <1>4, LeasedRow DEF RowFine, Held, Taken, Left
  <2> HIDE DEF p
  <2>4. p = wk[w].job
    BY DEF p
  <2>5. QED BY <1>1, <1>2, <2>1, <2>2, <2>3, <2>4, FinishFine
<1>5. QED BY <1>3, <1>4 DEF Gone

LEMMA ConfirmFine == ASSUME TypeOK, Rest, Fine, NEW w \in Workers, Confirm(w) PROVE Fine'
<1> DEFINE p == wk[w].job
<1>1. /\ Busy(w) /\ wk[w].act \in {"schedule", "update"} /\ wk[w].pc = "confirm"
      /\ (wk[w].act = "schedule" => Sending(w))
  BY ActOf DEF Confirm, Sending
<1>2. Untold
  BY OnlyRowsUntold DEF Confirm, Fails, FinishJob, Asked
<1>3. CASE Fails(w)
  BY <1>1, <1>2, <1>3, GivesUpFine
<1>4. CASE FinishJob(w, "scheduled", wk[w].goal)
  <2>1. /\ row' = [row EXCEPT ![p] = Finish(row[p], w, "scheduled", wk[w].goal)]
        /\ wk' = Finished(wk, w, p) /\ net' = net /\ Asked' = Asked
    BY <1>4 DEF FinishJob, Asked
  <2>2. p \in Posts /\ row[p] \in Row
    BY <1>1, LeasedRow
  <2>3. ASSUME row[p].lease = w
        PROVE  /\ PartsOf(p) \subseteq row[p].ids
               /\ \A x \in PartsOf(p) : row[p].seen[x] = wk[w].goal[x]
    <3>1. CASE wk[w].act = "schedule"
      <4>1. PartsOf(p) \subseteq wk[w].have
        BY <1>1, <3>1 DEF Rest, SendInv, SendTrue
      <4>2. QED BY <1>1, <2>3, <3>1, <4>1, LeasedRow DEF Written
    <3>2. CASE wk[w].act = "update"
      <4>1. wk[w].left = {} /\ Written(w) /\ row[p].status = "updating" /\ RowFine(p)
        BY <1>1, <2>3, <3>2, LeasedRow DEF JobFine
      <4>2. QED BY <2>3, <3>2, <4>1 DEF Written, RowFine, Held
    <3>3. QED BY <1>1, <3>1, <3>2
  <2> HIDE DEF p
  <2>4. p = wk[w].job
    BY DEF p
  <2>5. QED BY <1>1, <1>2, <2>1, <2>2, <2>3, <2>4, FinishFine
<1>5. QED BY <1>3, <1>4 DEF Confirm

LEMMA FailFine == ASSUME TypeOK, Rest, Fine, NEW w \in Workers, Fail(w) PROVE Fine'
<1> DEFINE p == wk[w].job
           s == IF wk[w].risky THEN "needs_review" ELSE "failed"
           r == SaveParts(row[p], w, wk[w].have, row[p].seen)
<1>1. Busy(w) /\ wk[w].pc = "fail"
  BY ActOf DEF Fail
<1>2. /\ row' = [row EXCEPT ![p] = Finish(r, w, s, row[p].snap)]
      /\ wk' = Finished(wk, w, p) /\ net' = net /\ Asked' = Asked /\ Untold
  BY OnlyRowsUntold DEF Fail, Asked
<1>3. /\ p \in Posts /\ row[p] \in Row
      /\ row[p].lease = w => row[p].ids = wk[w].have
  BY <1>1, LeasedRow DEF Written
<1>4. r \in Row
  BY <1>3, SavePartsType DEF TypeOK, Local, Row
<1>5. /\ r.lease = row[p].lease /\ r.account = row[p].account /\ r.ids = row[p].ids
      /\ r.pubs = row[p].pubs /\ r.cans = row[p].cans /\ r.seen = row[p].seen
      /\ row[p].lease # w => r = row[p]
  BY <1>3, SavedFields DEF SaveParts
<1>6. s \in {"needs_review", "failed"}
  OBVIOUS
<1> HIDE DEF p, r, s
<1>7. p = wk[w].job
  BY DEF p
<1>8. QED BY <1>1, <1>2, <1>3, <1>4, <1>5, <1>6, <1>7, FinishFine

LEMMA ProcessFine == ASSUME TypeOK, Rest, Fine, NEW w \in Workers, Process(w) PROVE Fine'
BY PreflightFine, SendFine, AcceptedFine, EditFine, VerifyFine, CancelFine, GoneFine,
   ConfirmFine, TimeoutFine, FailFine
   DEF Process

-----------------------------------------------------------------------------
(* Claiming *)

LEMMA ExpiredRowSame ==
  ASSUME NEW r \in Row
  PROVE  LET e == ExpiredRow(r)
         IN  /\ e.status = "needs_review" /\ e.lease = None /\ e.account = r.account
             /\ e.ids = r.ids /\ e.pubs = r.pubs /\ e.cans = r.cans
BY DEF ExpiredRow, Row

LEMMA ClaimedRowSame ==
  ASSUME NEW r \in Row, NEW w
  PROVE  LET c == ClaimedRow(r, w)
         IN  /\ c.lease = w /\ c.account = r.account
             /\ c.status = IF r.action = "schedule" THEN "transferring" ELSE r.status
             /\ c.ids = r.ids /\ c.pubs = r.pubs /\ c.cans = r.cans
             /\ c.seen = r.seen /\ c.snap = r.snap
BY DEF ClaimedRow, Row

\* What a claim of the posts in C, at most one, does to the rows
Claims(w, C) == row' = [p \in Posts |-> IF p \in Expired THEN ExpiredRow(row[p])
                                        ELSE IF p \in C THEN ClaimedRow(row[p], w)
                                        ELSE row[p]]

(* The rows after a claim, and what they are to the workers that claimed none. *)
LEMMA ClaimRowsFine ==
  ASSUME TypeOK, Rest, Fine, Untold, NEW w \in Workers, NEW C, C \subseteq Claimable,
         Claims(w, C), NEW p \in Posts
  PROVE  /\ row'[p] = row[p] \/ RowFine(p)'
         /\ p \in C => RowFine(p)'
         /\ row'[p].status = "absent" => row[p].status = "absent"
         /\ row'[p].account = row[p].account
         /\ \A v \in Workers \ {w} : row'[p].lease = v => row'[p] = row[p]
         /\ p \in C => /\ row'[p].lease = w /\ row'[p].ids = row[p].ids
                       /\ row'[p].status # "absent"
<1>1. row[p] \in Row /\ RowFine(p) /\ CommandMatches(p)
  BY DEF TypeOK, Fine, RowsFine, Rest, CommandMatchesStatus
<1>2. CASE p \in Expired
  <2>1. /\ row'[p].status = "needs_review" /\ row'[p].lease = None
        /\ row'[p].account = row[p].account /\ row'[p].ids = row[p].ids
        /\ row'[p].pubs = row[p].pubs /\ row'[p].cans = row[p].cans
    BY <1>1, <1>2, ExpiredRowSame DEF Claims
  <2>2. RowFine(p)'
    BY <2>1, KeepsFine DEF Held
  <2>3. p \notin C
    BY <1>1, <1>2 DEF CommandMatches, Expired, Claimable
  <2>4. QED BY <2>1, <2>2, <2>3, NoneAssumption
<1>3. CASE p \notin Expired /\ p \in C
  <2>1. /\ row'[p].lease = w /\ row'[p].account = row[p].account
        /\ row'[p].status = IF row[p].action = "schedule" THEN "transferring"
                                                          ELSE row[p].status
        /\ row'[p].ids = row[p].ids /\ row'[p].pubs = row[p].pubs
        /\ row'[p].cans = row[p].cans /\ row'[p].seen = row[p].seen
        /\ row'[p].snap = row[p].snap
    BY <1>1, <1>3, ClaimedRowSame DEF Claims
  <2>2. row[p].action \in Actions
    BY <1>1, <1>3 DEF Claimable, Row
  <2>3. row'[p].status \in {"transferring", "updating", "cancelling"}
    BY <1>1, <2>1, <2>2 DEF CommandMatches, Actions
  <2>4. row'[p].status \in Held => row'[p].status = row[p].status
    BY <2>1, <2>3 DEF Held
  <2>5. RowFine(p)'
    BY <1>1, <2>1, <2>3, <2>4, KeepsFine DEF RowFine, Held
  <2>6. QED BY <1>1, <2>1, <2>3, <2>5
<1>4. CASE p \notin Expired /\ p \notin C
  BY <1>4 DEF Claims
<1>5. QED BY <1>2, <1>3, <1>4

(* A revision bump leaves everything but the batches. *)
LEMMA BumpKeeps ==
  ASSUME NEW f \in [Workers -> Local], NEW S, wk' = Bump(f, S), NEW v \in Workers
  PROVE  /\ wk'[v].pc = f[v].pc /\ wk'[v].job = f[v].job /\ wk'[v].act = f[v].act
         /\ wk'[v].have = f[v].have /\ wk'[v].goal = f[v].goal
         /\ wk'[v].left = f[v].left /\ wk'[v].account = f[v].account
         /\ wk'[v].note = f[v].note
BY DEF Bump, Local

LEMMA ClaimFine ==
  ASSUME TypeOK, PendingInv, Rest, Fine, NEW w \in Workers, Claim(w) PROVE Fine'
<1>1. /\ wk[w].pc = "idle" /\ net' = net /\ Asked' = Asked /\ Untold
  BY DEF Claim, Asked, Untold, telegram, owner
<1>2. CASE /\ row' = [p \in Posts |-> IF p \in Expired THEN ExpiredRow(row[p]) ELSE row[p]]
           /\ wk' = Bump(wk, Expired)
  <2> DEFINE C == {}
  <2>1. C \subseteq Claimable /\ Claims(w, C)
    BY <1>2 DEF Claims
  <2> HIDE DEF C
  <2>2. \A v \in Workers : Calm(v) /\ Still(v) /\ wk'[v].note = wk[v].note
    BY <1>2, BumpCalm
  <2>3. NetFine'
    BY <1>1, <2>2, NetOfAll DEF Still, SameJob
  <2>4. \A p \in Posts : row'[p] = row[p] \/ (RowFine(p)' /\ Gentle(p))
    <3> SUFFICES ASSUME NEW p \in Posts, row'[p] # row[p] PROVE RowFine(p)' /\ Gentle(p)
      OBVIOUS
    <3>1. p \in Expired /\ row[p] \in Row
      BY <1>2 DEF TypeOK
    <3>2. row'[p].lease = None
      BY <1>2, <3>1, ExpiredRowSame
    <3>3. QED BY <1>1, <2>1, <3>2, ClaimRowsFine, NoneAssumption DEF Gentle
  <2>5. \A v \in Workers : RowAsIs(v)
    BY <2>4, GentleRows
  <2>6. \A p \in Posts : Untouched(p)
    BY <1>1, <2>2, CalmSends, NobodyBegins
  <2>7. QED BY <1>1, <2>2, <2>3, <2>4, <2>5, <2>6, WorkFine
<1>3. ASSUME NEW q \in Oldest(Claimable),
             row' = [p \in Posts |-> IF p \in Expired THEN ExpiredRow(row[p])
                                     ELSE IF p = q THEN ClaimedRow(row[p], w)
                                     ELSE row[p]],
             wk' = Bump([wk EXCEPT ![w] = Claimed(w, q)], Expired)
      PROVE  Fine'
  <2> DEFINE C == {q}
             l == Claimed(w, q)
             f == [wk EXCEPT ![w] = l]
  <2>1. /\ C \subseteq Claimable /\ Claims(w, C) /\ q \in Posts /\ q \in C
        /\ row[q].lease = None /\ row[q].action # None
    BY <1>3 DEF Claims, Oldest, Claimable
  <2>2. row[q] \in Row /\ RowFine(q) /\ RowTrue(q) /\ CommandMatches(q)
    BY <2>1 DEF TypeOK, Fine, RowsFine, Rest, RowsInv, CommandMatchesStatus
  <2>3. /\ l.pc = "check" /\ l.job = q /\ l.act = row[q].action /\ l.have = row[q].ids
        /\ l.left = (IF row[q].action = "update" THEN PartsOf(q) ELSE {})
        /\ l.note = NoNotice
    BY DEF Claimed, At
  <2>4. l \in Local
    BY <2>1, ClaimedType
  <2> HIDE DEF l
  <2>5. f \in [Workers -> Local] /\ f[w] = l /\ \A v \in Workers \ {w} : f[v] = wk[v]
    BY <2>4 DEF TypeOK
  <2>6. wk' = Bump(f, Expired)
    BY <1>3 DEF l
  <2> HIDE DEF f
  <2>7. /\ wk'[w].pc = "check" /\ wk'[w].job = q /\ wk'[w].act = row[q].action
        /\ wk'[w].have = row[q].ids
        /\ wk'[w].left = (IF row[q].action = "update" THEN PartsOf(q) ELSE {})
        /\ wk'[w].note = NoNotice
    BY <2>3, <2>5, <2>6, BumpKeeps
  <2>8. \A v \in Workers \ {w} : Calm(v) /\ Still(v) /\ wk'[v].note = wk[v].note
    BY <2>5, <2>6, BumpKeeps DEF Calm, Still, SameJob
  <2>9. NetFine'
    BY <1>1, <2>8, NetOfOthers DEF Still, SameJob
  <2>10. /\ RowFine(q)' /\ row'[q].lease = w /\ row'[q].ids = row[q].ids
         /\ row'[q].status # "absent"
    BY <1>1, <2>1, ClaimRowsFine
  <2>11. row[q].action = "schedule" => PartsOf(q) \cap row[q].ids = {}
    BY <2>1, <2>2 DEF CommandMatches, RowTrue, Untransferred
  <2>12. PartsOf(q) # {} /\ PartsOf(wk[w].job)' = PartsOf(q)
    BY <2>1, <2>7, ConstantsAssumption DEF PartsOf
  <2>13. Taken' = Taken
    BY <1>1 DEF Untold, Taken, Queued
  <2>14. JobFine(w)'
    <3>1. Written(w)'
      BY <2>7, <2>10, <2>11, <2>12 DEF Written
    <3>2. wk'[w].have \subseteq Taken'
      BY <2>2, <2>7, <2>13 DEF RowFine
    <3>3. QED BY <2>7, <2>10, <2>11, <2>12, <3>1, <3>2 DEF JobFine
  <2>15. \A v \in Workers \ {w} : RowAsIs(v)
    BY <1>1, <2>1, ClaimRowsFine DEF RowAsIs
  <2>16. ASSUME NEW p \in Posts, p # q PROVE Untouched(p)
    <3>1. \A v \in Workers : Sending(v)' /\ wk'[v].job = p => Sending(v) /\ wk[v].job = p
      BY <2>7, <2>8, <2>16, CalmSends
    <3>2. QED BY <1>1, <3>1 DEF Untouched
  <2>17. \A p \in Posts : RowFine(p)' \/ (row'[p] = row[p] /\ Untouched(p))
    BY <1>1, <2>1, <2>10, <2>16, ClaimRowsFine
  <2>18. NoteFine(wk[w].note)'
    BY <2>7 DEF NoteFine, NoNotice
  <2>19. QED BY <1>1, <2>8, <2>9, <2>14, <2>15, <2>17, <2>18, WorkFine
<1>4. QED BY <1>2, <1>3 DEF Claim

-----------------------------------------------------------------------------
(* Reconciliation *)

LEMMA ReconcileUntold ==
  ASSUME OnlyReconcile, notices' \subseteq notices
  PROVE  Untold /\ Asked' = Asked /\ net' = net
BY DEF OnlyReconcile, Untold, owner, Asked

(* A worker outside process goes on with its batch. *)
LEMMA BatchGoesOn ==
  ASSUME TypeOK, Rest, Fine, OnlyReconcile, notices' \subseteq notices, row' = row,
         NEW w \in Workers, NEW l, wk' = [wk EXCEPT ![w] = l], wk[w].pc # "await",
         l.pc \notin ProcessSteps, l.note = wk[w].note \/ NoteFine(l.note)
  PROVE  Fine'
<1>1. wk'[w] = l /\ \A v \in Workers \ {w} : wk'[v] = wk[v]
  BY Alone
<1>2. Untold /\ Asked' = Asked /\ net' = net
  BY ReconcileUntold
<1>3. NetFine'
  BY <1>1, <1>2, NetOfOthers
<1>4. NoteFine(wk[w].note)'
  BY <1>1, <1>2 DEF Fine, NotesFine, NoteFine, Untold
<1>5. QED BY <1>1, <1>2, <1>3, <1>4, IdleFine DEF Still, SameJob

LEMMA ReadFine ==
  ASSUME TypeOK, Rest, Fine, NEW w \in Workers, OnlyReconcile,
         ReconcileRead(w) \/ \E n \in notices : UpdateRead(w, n)
  PROVE  Fine'
<1>1. CASE ReconcileRead(w)
  <2> DEFINE l == [wk[w] EXCEPT !.pc = "reconcile", !.todo = ReconcileRows]
  <2>1. /\ wk' = [wk EXCEPT ![w] = l] /\ wk[w].pc = "idle" /\ notices' = notices
        /\ row' = row
    BY <1>1 DEF ReconcileRead
  <2>2. l.pc = "reconcile" /\ l.note = wk[w].note
    BY DEF TypeOK, Local
  <2> HIDE DEF l
  <2>3. QED BY <2>1, <2>2, BatchGoesOn DEF ProcessSteps
<1>2. ASSUME NEW n \in notices, UpdateRead(w, n) PROVE Fine'
  <2> DEFINE S == {p \in ReconcileRows : row[p].account = wk[w].account}
             l == [wk[w] EXCEPT !.pc = "handle", !.note = n, !.todo = S]
  <2>1. /\ wk' = [wk EXCEPT ![w] = l] /\ wk[w].pc = "idle" /\ notices' \subseteq notices
        /\ row' = row
    BY <1>2 DEF UpdateRead
  <2>2. l.pc = "handle" /\ l.note = n
    BY DEF TypeOK, Local
  <2> HIDE DEF l
  <2>3. NoteFine(n)
    BY DEF Fine, NotesFine
  <2>4. QED BY <2>1, <2>2, <2>3, BatchGoesOn DEF ProcessSteps
<1>3. QED BY <1>1, <1>2

LEMMA BatchDoneFine ==
  ASSUME TypeOK, Rest, Fine, NEW w \in Workers, BatchDone(w), OnlyReconcile PROVE Fine'
<1> DEFINE l == At("idle", wk[w].session, wk[w].account)
<1>1. /\ wk' = [wk EXCEPT ![w] = l] /\ wk[w].pc # "await" /\ row' = row
      /\ notices' = notices
  BY DEF BatchDone, BatchSteps
<1>2. l.pc = "idle" /\ NoteFine(l.note)
  BY DEF At, NoteFine, NoNotice
<1> HIDE DEF l
<1>3. QED BY <1>1, <1>2, BatchGoesOn DEF ProcessSteps

(* The row is left as it is. *)
LEMMA PassFine ==
  ASSUME TypeOK, Rest, Fine, NEW w \in Workers, NEW p, Pass(w, p), OnlyReconcile
  PROVE  Fine'
<1>1. wk' = [wk EXCEPT ![w].todo = @ \ {p}] /\ row' = row /\ notices' = notices
  BY DEF Pass
<1>2. \A v \in Workers : Calm(v) /\ Still(v) /\ wk'[v].note = wk[v].note
  BY <1>1 DEF TypeOK, Local, Calm, Still, SameJob
<1>3. Untold /\ Asked' = Asked /\ net' = net
  BY <1>1, ReconcileUntold
<1>4. NetFine'
  BY <1>2, <1>3, NetOfAll DEF Still, SameJob
<1>5. \A q \in Posts : Untouched(q)
  BY <1>2, <1>3, CalmSends, NobodyBegins
<1>6. \A v \in Workers : RowAsIs(v)
  BY <1>1, RowsAsTheyAre
<1>7. QED BY <1>1, <1>2, <1>3, <1>4, <1>5, <1>6, WorkFine

(* A row that did not change since it was read is written. *)
LEMMA ConfirmedUpdateFine ==
  ASSUME TypeOK, Rest, Fine, NEW w \in Workers, NEW p \in Posts, p \in wk[w].todo,
         NEW r, ConfirmedUpdate(w, p, r), OnlyReconcile,
         r.status # "absent", r.account = row[p].account, r.lease = row[p].lease,
         r.ids = row[p].ids, r.pubs \subseteq r.ids, r.cans \subseteq deleted,
         r.status \in Held => PartsOf(p) \subseteq r.ids,
         r.status = "scheduled" => \A x \in PartsOf(p) : r.seen[x] = r.snap[x],
         r.status = "cancelled" => PartsOf(p) \subseteq deleted
  PROVE  Fine'
<1>1. row' = [row EXCEPT ![p] = r] /\ wk' = Bump(wk, {p}) /\ notices' = notices
  BY DEF ConfirmedUpdate
<1>2. row'[p] = r /\ \A q \in Posts \ {p} : row'[q] = row[q]
  BY <1>1 DEF TypeOK
<1>3. \A v \in Workers : Calm(v) /\ Still(v) /\ wk'[v].note = wk[v].note
  BY <1>1, BumpCalm
<1>4. Untold /\ Asked' = Asked /\ net' = net
  BY <1>1, ReconcileUntold
<1>5. NetFine'
  BY <1>3, <1>4, NetOfAll DEF Still, SameJob
<1>6. row[p].lease = None
  BY BatchRows
<1>7. Gentle(p)
  BY <1>2, <1>6, NoneAssumption DEF Gentle
<1>8. RowFine(p)'
  <2>1. RowFine(p) /\ Taken' = Taken /\ deleted' = deleted /\ PartsOf(p)' = PartsOf(p)
    BY <1>4 DEF Fine, RowsFine, Untold, Taken, Queued, PartsOf
  <2>2. r.status = "cancelled" => Over(p)'
    BY <2>1 DEF Over, Left
  <2>3. QED BY <1>2, <2>1, <2>2 DEF RowFine
<1>9. QED BY <1>2, <1>3, <1>4, <1>5, <1>7, <1>8, RowFineStep

LEMMA NeedsReviewFine ==
  ASSUME TypeOK, Rest, Fine, NEW w \in Workers, NEW p \in Posts, p \in wk[w].todo,
         NeedsReview(w, p), OnlyReconcile
  PROVE  Fine'
<1> DEFINE r == [row[p] EXCEPT !.status = "needs_review"]
<1>1. CASE Pass(w, p)
  BY <1>1, PassFine
<1>2. CASE ConfirmedUpdate(w, p, r)
  <2>1. /\ r.status = "needs_review" /\ r.account = row[p].account
        /\ r.lease = row[p].lease /\ r.ids = row[p].ids /\ r.pubs = row[p].pubs
        /\ r.cans = row[p].cans
    BY DEF TypeOK, Row
  <2> HIDE DEF r
  <2>2. RowFine(p)
    BY DEF Fine, RowsFine
  <2>3. QED BY <1>2, <2>1, <2>2, ConfirmedUpdateFine DEF RowFine, Held
<1>3. QED BY <1>1, <1>2 DEF NeedsReview

(* What an update about messages makes of the row *)
LEMMA UpdateRowFine ==
  ASSUME TypeOK, Rest, Fine, NEW w \in Workers, NEW p \in Posts, UpdateRow(w, p),
         OnlyReconcile
  PROVE  Fine'
<1> DEFINE n == wk[w].note
           hit == n.parts \cap row[p].ids
           pubs == IF n.sent THEN row[p].pubs \cup hit ELSE row[p].pubs
           cans == IF n.sent THEN row[p].cans ELSE row[p].cans \cup hit
           s == IF PartsOf(p) \subseteq pubs THEN "published"
                ELSE IF PartsOf(p) \subseteq cans THEN "cancelled" ELSE "needs_review"
           r == [row[p] EXCEPT !.pubs = pubs, !.cans = cans, !.status = s]
<1>1. CASE Pass(w, p)
  BY <1>1, PassFine
<1>2. CASE ConfirmedUpdate(w, p, UpdatedRow(p, n))
  <2>1. ConfirmedUpdate(w, p, r) /\ p \in wk[w].todo
    BY <1>2 DEF UpdatedRow, UpdateRow
  <2>2. RowFine(p) /\ NoteFine(n)
    BY DEF Fine, RowsFine, NotesFine
  <2>3. /\ pubs \subseteq row[p].ids /\ cans \subseteq deleted
        /\ s \in {"published", "cancelled", "needs_review"}
        /\ s = "published" => PartsOf(p) \subseteq pubs
        /\ s = "cancelled" => PartsOf(p) \subseteq cans
    BY <2>2 DEF RowFine, NoteFine
  <2> HIDE DEF pubs, cans, s
  <2>4. /\ r.status = s /\ r.account = row[p].account /\ r.lease = row[p].lease
        /\ r.ids = row[p].ids /\ r.pubs = pubs /\ r.cans = cans
    BY DEF TypeOK, Row
  <2> HIDE DEF r
  <2>5. QED BY <2>1, <2>3, <2>4, ConfirmedUpdateFine DEF Held
<1>3. QED BY <1>1, <1>2 DEF UpdateRow

(* What the history shows becomes the snapshot. *)
LEMMA AdoptedFine ==
  ASSUME TypeOK, Rest, Fine, NEW w \in Workers, NEW p \in Posts, p \in wk[w].todo,
         NEW h, ConfirmedUpdate(w, p, AdoptedRow(p, h)), OnlyReconcile,
         PartsOf(p) \subseteq row[p].ids
  PROVE  Fine'
<1> DEFINE seen == [x \in Parts |-> IF x \in PartsOf(p) THEN h[x].text ELSE row[p].seen[x]]
           snap == Texts(p, h)
           s == IF Coherent(p, h) THEN "scheduled" ELSE "needs_review"
           r == [row[p] EXCEPT !.seen = seen, !.snap = snap, !.status = s]
<1>1. ConfirmedUpdate(w, p, r)
  BY DEF AdoptedRow
<1>2. \A x \in PartsOf(p) : seen[x] = snap[x]
  BY DEF Texts, PartsOf
<1>3. s \in {"scheduled", "needs_review"}
  OBVIOUS
<1> HIDE DEF seen, snap, s
<1>4. /\ r.status = s /\ r.account = row[p].account /\ r.lease = row[p].lease
      /\ r.ids = row[p].ids /\ r.pubs = row[p].pubs /\ r.cans = row[p].cans
      /\ r.seen = seen /\ r.snap = snap
  BY DEF TypeOK, Row
<1> HIDE DEF r
<1>5. RowFine(p)
  BY DEF Fine, RowsFine
<1>6. QED BY <1>1, <1>2, <1>3, <1>4, <1>5, ConfirmedUpdateFine DEF RowFine

LEMMA ReconcileFine == ASSUME TypeOK, Rest, Fine, NEW w \in Workers, Reconcile(w) PROVE Fine'
<1>1. OnlyReconcile
  BY DEF Reconcile
<1>2. ASSUME NEW p \in Posts, ReconcileRow(w, p) PROVE Fine'
  <2>1. p \in wk[w].todo
    BY <1>2 DEF ReconcileRow
  <2>2. CASE NeedsReview(w, p)
    BY <1>1, <2>1, <2>2, NeedsReviewFine
  <2>3. CASE Pass(w, p)
    BY <1>1, <2>3, PassFine
  <2>4. CASE ReadHistory(w, p)
    <3> DEFINE l == [wk[w] EXCEPT !.pc = "compare", !.hist = queue]
    <3>1. /\ wk' = [wk EXCEPT ![w] = l] /\ wk[w].pc # "await" /\ row' = row
          /\ notices' = notices
      BY <2>4 DEF ReadHistory
    <3>2. l.pc = "compare" /\ l.note = wk[w].note
      BY DEF TypeOK, Local
    <3> HIDE DEF l
    <3>3. QED BY <1>1, <3>1, <3>2, BatchGoesOn DEF ProcessSteps
  <2>5. ASSUME NEW h, ConfirmedUpdate(w, p, AdoptedRow(p, h)),
               PartsOf(p) \subseteq row[p].ids
        PROVE  Fine'
    BY <1>1, <2>1, <2>5, AdoptedFine
  <2>6. QED BY <1>2, <2>2, <2>3, <2>4, <2>5
            DEF ReconcileRow, OtherAccount, LeaveAlone, CompareRow
<1>3. QED BY <1>1, <1>2, ReadFine, BatchDoneFine, UpdateRowFine DEF Reconcile

-----------------------------------------------------------------------------
(* The invariant and what follows from it *)

LEMMA FineInit == Init => Fine
<1> SUFFICES ASSUME Init PROVE Fine
  OBVIOUS
<1>1. RowsFine
  BY DEF Init, RowsFine, RowFine, NewRow, Held
<1>2. JobsFine
  BY DEF Init, JobsFine, JobFine, Busy, ProcessSteps, At
<1>3. NetFine /\ QueueFine
  BY DEF Init, NetFine, QueueFine, Queued, EmptyHistory, Left
<1>4. NotesFine
  BY DEF Init, NotesFine, NoteFine, At, NoNotice
<1>5. QED BY <1>1, <1>2, <1>3, <1>4 DEF Fine

LEMMA FineStutter == ASSUME Rest, TypeOK, Fine, UNCHANGED vars PROVE Fine'
<1>1. row' = row /\ wk' = wk /\ net' = net /\ Untold /\ Asked' = Asked
  BY DEF vars, Untold, Asked
<1>2. NetFine'
  BY <1>1, NetOfAll
<1>3. \A v \in Workers : Calm(v) /\ RowAsIs(v) /\ wk'[v].note = wk[v].note
  BY <1>1, RowsAsTheyAre DEF Calm, Still, SameJob
<1>4. \A p \in Posts : Untouched(p)
  BY <1>1, <1>3, CalmSends, NobodyBegins
<1>5. QED BY <1>1, <1>2, <1>3, <1>4, WorkFine

LEMMA FineStep == ASSUME IInv, Fine, [Next]_vars PROVE Fine'
<1>1. TypeOK /\ PendingInv /\ Rest
  BY DEF IInv, Rest
<1>2. QED BY <1>1, OwnerFine, EnvironmentFine, TelegramFine, RefreshPermissionsFine,
             ClaimFine, ProcessFine, ReconcileFine, FineStutter
          DEF Next

(* The rows and the workers are right about Telegram in every state. *)
THEOREM TelegramIsKnown == Spec => [](IInv /\ Fine)
<1>1. IInv /\ Fine /\ [Next]_vars => Fine'
  BY FineStep
<1>2. QED BY Inductive, FineInit, <1>1, PTL DEF Spec

(* A post is shown as scheduled only when Telegram took every message of it. *)
THEOREM AcceptedBeforeScheduled == Spec => []ScheduledIsAccepted
<1>1. Fine => ScheduledIsAccepted
  BY DEF Fine, RowsFine, RowFine, ScheduledIsAccepted, Held
<1>2. QED BY TelegramIsKnown, <1>1, PTL

(* Of a cancelled post nothing is in the schedule queue or on its way to it. *)
THEOREM CancelledIsGone == Spec => []CancelledLeavesNothing
<1>1. ASSUME IInv, Fine PROVE CancelledLeavesNothing
  <2> SUFFICES ASSUME NEW p \in Posts, row[p].status = "cancelled", p \notin resolved
               PROVE  /\ PartsOf(p) \cap Queued(queue) = {}
                      /\ \A r \in net : r.op = "send" => r.parts \cap PartsOf(p) = {}
    BY DEF CancelledLeavesNothing
  <2>1. Over(p)
    BY <1>1 DEF Fine, RowsFine, RowFine
  <2>2. CASE PartsOf(p) \subseteq Left
    BY <1>1, <2>2 DEF Fine, QueueFine, NetFine, NewRequest, Taken, Left
  <2>3. CASE PartsOf(p) \cap Asked = {}
    BY <1>1, <2>3 DEF IInv, NetInv
  <2>4. QED BY <2>1, <2>2, <2>3 DEF Over
<1>2. QED BY TelegramIsKnown, <1>1, PTL

(* What the calendar shows of a scheduled post is what Telegram confirmed. *)
THEOREM CalendarIsConfirmed == Spec => []SnapshotIsConfirmed
<1>1. Fine => SnapshotIsConfirmed
  BY DEF Fine, RowsFine, RowFine, SnapshotIsConfirmed
<1>2. QED BY TelegramIsKnown, <1>1, PTL

(* A request for a post comes from a worker logged in as the post's account. *)
THEOREM AccountIsOwn == Spec => []OwnAccountOnly
<1>1. ASSUME IInv, Fine PROVE OwnAccountOnly
  <2> SUFFICES ASSUME NEW r \in net, r.by # None, NEW x \in r.parts
               PROVE  wk[r.by].account = row[PostOf[x]].account
    BY DEF OwnAccountOnly
  <2>1. r.by \in Workers /\ wk[r.by].pc = "await" /\ OwnRequest(r)
    BY <1>1 DEF IInv, TypeOK, Request, NetInv, Fine, NetFine
  <2>2. Busy(r.by) /\ JobFine(r.by)
    BY <1>1, <2>1 DEF Busy, ProcessSteps, Fine, JobsFine
  <2>3. PostOf[x] = wk[r.by].job
    BY <2>1 DEF OwnRequest, PartsOf
  <2>4. QED BY <2>1, <2>2, <2>3 DEF JobFine
<1>2. QED BY TelegramIsKnown, <1>1, PTL
=============================================================================
