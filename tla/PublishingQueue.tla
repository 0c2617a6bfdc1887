--------------------------- MODULE PublishingQueue ---------------------------
(***************************************************************************)
(* The durable publishing queue of TGhost: the scheduled_posts rows, the   *)
(* web commands that write them, the worker that carries them out through  *)
(* the Telegram user session, and its periodic and event driven            *)
(* reconciliation with Telegram's own schedule queue                       *)
(* (app/publishing/{repository,worker,telegram}.py).                       *)
(*                                                                         *)
(* What is abstracted:                                                     *)
(*  - a revision number is never reused, so "the row still has the         *)
(*    revision I read" is "nobody bumped it since": a bump removes the     *)
(*    post from every batch of rows a worker has read (todo). A web        *)
(*    command carrying an older revision changes nothing and is not an     *)
(*    action.                                                              *)
(*  - a lease token is the worker that claimed the row: a worker processes *)
(*    one row at a time, and a crash drops the token with the local state. *)
(*  - text, caption and date of one version are one member of Contents;    *)
(*    Slot gives its date. The clock is the nondeterminism of the guards   *)
(*    that read it: a lease lapses, a date becomes too close, Telegram     *)
(*    publishes what is queued.                                            *)
(*  - one channel. Its activity, the posting right, the peer lookup and    *)
(*    the length limits are one nondeterministic verdict of Preflight.     *)
(*  - Telegram answers a send with the ids of all messages of the request  *)
(*    or with something accepted() refuses.                                *)
(***************************************************************************)
EXTENDS Integers, FiniteSets

CONSTANTS
  Posts,        \* the posts, numbered in the order of created_at
  Parts,        \* the messages they consist of, in the order of row.parts
  PostOf,       \* the post of each part
  Photos,       \* the parts sent together as one album; the others are texts
  Contents,     \* versions of a message: text and date
  Slot,         \* the date of a version
  Workers,      \* worker processes (the deployment runs one)
  Accounts,     \* Telegram accounts
  None,         \* SQL NULL, Python None
  MaxCommands,  \* bound: owner commands after creation
  MaxEdits,     \* bound: edits made outside TGhost, in a Telegram client
  MaxCrashes    \* bound: worker crashes

PartsOf(p) == {x \in Parts : PostOf[x] = p}

ASSUME ConstantsAssumption ==
  /\ Posts \subseteq Nat
  /\ Parts \subseteq Nat
  /\ PostOf \in [Parts -> Posts]
  /\ \A p \in Posts : PartsOf(p) # {}        \* make_parts never returns []
  /\ Photos \subseteq Parts
  /\ Contents # {}
  /\ {MaxCommands, MaxEdits, MaxCrashes} \subseteq Nat

VARIABLES
  row,        \* table scheduled_posts
  wk,         \* the worker processes: program counter and local variables
  permission, \* account with a fresh positive check in publishing_channels
  queue,      \* Telegram: the messages waiting in the schedule queue
  published,  \* Telegram: parts that were published
  deleted,    \* Telegram: parts that were deleted from the queue
  net,        \* mutating requests on their way to Telegram
  notices,    \* UpdateDeleteScheduledMessages on their way to the worker
  asks,       \* ghost: how often each part was put into a send request
  resolved,   \* ghost: posts closed by the owner's manual resolution
  commands, edits, crashes    \* counters for the bounds

owner    == <<resolved, commands>>
telegram == <<queue, published, deleted, notices, edits>>
vars == <<row, wk, permission, queue, published, deleted, net, notices, asks,
          resolved, commands, edits, crashes>>

-----------------------------------------------------------------------------
(* Types *)

Statuses == {"queued", "transferring", "scheduled", "updating", "cancelling",
             "published", "cancelled", "failed", "needs_review"}
Actions == {"schedule", "update", "cancel"}

\* "absent" stands for a row that was not inserted yet.
Row ==
  [status  : Statuses \cup {"absent"},
   action  : Actions \cup {None},
   lease   : Workers \cup {None},
   lapsed  : BOOLEAN,                       \* lease_until < now()
   ids     : SUBSET Parts,                  \* parts with a scheduled_id
   pubs    : SUBSET Parts,                  \* parts with a published_id
   cans    : SUBSET Parts,                  \* parts marked cancelled
   seen    : [Parts -> Contents \cup {None}],  \* text and date Telegram showed
   snap    : [Parts -> Contents],           \* snapshot and scheduled_at
   pend    : Contents \cup {None},          \* pending_snapshot and pending_at
   account : Accounts \cup {None}]          \* telegram_user_id

Message == [text : Contents, original : BOOLEAN]   \* still our image?
History == [Parts -> Message \cup {None}]

ASSUME NoneAssumption ==
  /\ None \notin Posts /\ None \notin Contents /\ None \notin Workers
  /\ None \notin Accounts /\ None \notin Actions /\ None \notin Message

Notice == [parts : SUBSET Parts, sent : BOOLEAN]

Request == [op : {"send", "edit", "delete"}, parts : SUBSET Parts,
            text : [Parts -> Contents], by : Workers \cup {None}]

\* Where the worker's only coroutine that holds PublishingWorker.lock stands.
ProcessSteps == {"check", "send", "accepted", "edit", "verify", "cancel",
                 "gone", "confirm", "await", "fail"}
BatchSteps == {"reconcile", "compare", "handle"}

Local ==
  [pc      : {"down", "idle"} \cup ProcessSteps \cup BatchSteps,
   job     : Posts \cup {None},             \* the claimed row
   act     : Actions \cup {None},
   goal    : [Parts -> Contents],           \* value and at
   have    : SUBSET Parts,                  \* scheduled_id in the local parts
   risky   : BOOLEAN,                       \* a failure now needs review
   left    : SUBSET Parts,                  \* parts still to edit
   todo    : SUBSET Posts,                  \* rows read and not modified since
   hist    : History,                       \* history_by_channel
   note    : Notice,                        \* the update being handled
   session : Accounts \cup {None},          \* the account logged in
   account : Accounts \cup {None}]          \* adapter.account_id

EmptyHistory == [x \in Parts |-> None]
Queued(h) == {x \in Parts : h[x] # None}
NoNotice == [parts |-> {}, sent |-> FALSE]
AnyContent == [x \in Parts |-> CHOOSE c \in Contents : TRUE]

At(step, session, account) ==
  [pc |-> step, job |-> None, act |-> None, goal |-> AnyContent, have |-> {},
   risky |-> FALSE, left |-> {}, todo |-> {}, hist |-> EmptyHistory,
   note |-> NoNotice, session |-> session, account |-> account]

TypeOK ==
  /\ row \in [Posts -> Row]
  /\ wk \in [Workers -> Local]
  /\ permission \in Accounts \cup {None}
  /\ queue \in History
  /\ published \subseteq Parts
  /\ deleted \subseteq Parts
  /\ net \subseteq Request
  /\ notices \subseteq Notice
  /\ asks \in [Parts -> Nat]
  /\ resolved \subseteq Posts
  /\ {commands, edits, crashes} \subseteq Nat

NewRow ==
  [status |-> "absent", action |-> None, lease |-> None, lapsed |-> FALSE,
   ids |-> {}, pubs |-> {}, cans |-> {}, seen |-> [x \in Parts |-> None],
   snap |-> AnyContent, pend |-> None, account |-> None]

Init ==
  /\ row = [p \in Posts |-> NewRow]
  /\ wk = [w \in Workers |-> At("down", None, None)]
  /\ permission = None
  /\ queue = EmptyHistory
  /\ published = {} /\ deleted = {} /\ net = {} /\ notices = {}
  /\ asks = [x \in Parts |-> 0]
  /\ resolved = {}
  /\ commands = 0 /\ edits = 0 /\ crashes = 0

-----------------------------------------------------------------------------
(* Row updates shared by several actions *)

\* Variant: batches write without the revision guard
Bump_Unguarded(locals, S) == locals

\* A revision bump of the posts in S: no batch read earlier can change them.
Bump(locals, S) == [w \in Workers |-> [locals[w] EXCEPT !.todo = @ \ S]]

\* UPDATE ... SET parts, lease_until WHERE lease_token = :token
SaveParts(r, w, have, seen) ==
  IF r.lease = w
  THEN [r EXCEPT !.ids = have, !.seen = seen, !.lapsed = FALSE]
  ELSE r

\* Variant: finish without the lease_token condition
Finish_AnyToken(r, w, status, snap) ==
  [r EXCEPT !.status = status, !.action = None, !.lease = None,
            !.lapsed = FALSE, !.snap = snap, !.pend = None]

\* UPDATE ... SET status, action = NULL, lease = NULL, snapshot, pending = NULL
Finish(r, w, status, snap) ==
  IF r.lease = w
  THEN [r EXCEPT !.status = status, !.action = None, !.lease = None,
                 !.lapsed = FALSE, !.snap = snap, !.pend = None]
  ELSE r

\* finish bumps the revision of the row it matched
Finished(locals, w, p) ==
  Bump([locals EXCEPT ![w] = At("idle", @.session, @.account)],
       IF row[p].lease = w THEN {p} ELSE {})

-----------------------------------------------------------------------------
(* Web commands. Each locks the row and checks the revision the owner saw. *)

\* PublishingRepository.create, for a request with a fresh idempotency key
Create(p, c) ==
  /\ row[p].status = "absent"
  /\ \A q \in Posts : q < p => row[q].status # "absent"
  /\ permission # None
  /\ row' = [row EXCEPT ![p] = [NewRow EXCEPT
               !.status = "queued", !.action = "schedule",
               !.snap = [x \in Parts |-> c], !.account = permission]]
  /\ UNCHANGED <<wk, permission, telegram, net, asks, owner, crashes>>

Command(p) ==
  /\ commands < MaxCommands
  /\ commands' = commands + 1
  /\ wk' = Bump(wk, {p})
  /\ UNCHANGED <<permission, telegram, net, asks, crashes>>

\* retry: same parts and random ids, new text and date
Retry(p, c) ==
  /\ row[p].status = "failed" /\ row[p].action = None /\ row[p].ids = {}
  /\ row' = [row EXCEPT ![p] = [@ EXCEPT !.status = "queued", !.action = "schedule",
                                          !.snap = [x \in Parts |-> c]]]
  /\ Command(p) /\ UNCHANGED resolved

\* Variant: the lease is not looked at
CommandCancelQueued_Leased(p) ==
  /\ row[p].action = "schedule" /\ row[p].ids = {}
  /\ row' = [row EXCEPT ![p] = [@ EXCEPT !.status = "cancelled", !.action = None,
                                          !.lease = None]]
  /\ Command(p) /\ UNCHANGED resolved

\* command('cancel') before the transfer starts
CommandCancelQueued(p) ==
  /\ row[p].action = "schedule" /\ row[p].lease = None /\ row[p].ids = {}
  /\ row' = [row EXCEPT ![p] = [@ EXCEPT !.status = "cancelled", !.action = None]]
  /\ Command(p) /\ UNCHANGED resolved

\* Variant: unknown message ids do not matter
CommandCancel_UnknownIds(p) ==
  /\ row[p].action = None /\ row[p].status \in {"scheduled", "needs_review"}
  /\ row' = [row EXCEPT ![p] = [@ EXCEPT !.status = "cancelling",
                                          !.action = "cancel", !.pend = None]]
  /\ Command(p) /\ UNCHANGED resolved

\* command('cancel') of a post Telegram holds
CommandCancel(p) ==
  /\ row[p].action = None /\ row[p].status \in {"scheduled", "needs_review"}
  /\ PartsOf(p) \subseteq row[p].ids /\ row[p].pubs = {}
  /\ row' = [row EXCEPT ![p] = [@ EXCEPT !.status = "cancelling",
                                          !.action = "cancel", !.pend = None]]
  /\ Command(p) /\ UNCHANGED resolved

\* command('update'): new text and date for a scheduled post
CommandUpdate(p, c) ==
  /\ row[p].action = None /\ row[p].status = "scheduled"
  /\ row' = [row EXCEPT ![p] = [@ EXCEPT !.status = "updating",
                                          !.action = "update", !.pend = c]]
  /\ Command(p) /\ UNCHANGED resolved

\* resolve: the owner says that nothing of the post is left in Telegram
Resolve(p) ==
  /\ row[p].status = "needs_review" /\ row[p].action = None
  /\ row' = [row EXCEPT ![p] = [@ EXCEPT !.status = "cancelled"]]
  /\ resolved' = resolved \cup {p}
  /\ Command(p)

-----------------------------------------------------------------------------
(* Worker process: start, crash, permissions, claim *)

\* start_worker and load_limits; get_me may fail and leave account_id None
Start(w) ==
  /\ wk[w].pc = "down"
  /\ \E s \in Accounts : \E a \in {s, None} :
       wk' = [wk EXCEPT ![w] = At("idle", s, a)]
  /\ UNCHANGED <<row, permission, telegram, net, asks, owner, crashes>>

\* A request the worker no longer waits for may still reach Telegram.
Orphaned(w) == {IF r.by = w THEN [r EXCEPT !.by = None] ELSE r : r \in net}

\* The process dies, is cancelled, or its database call raises out of process.
Crash(w) ==
  /\ wk[w].pc # "down" /\ crashes < MaxCrashes
  /\ crashes' = crashes + 1
  /\ wk' = [wk EXCEPT ![w] = At("down", None, None)]
  /\ net' = Orphaned(w)
  /\ UNCHANGED <<row, permission, telegram, asks, owner>>

RefreshPermissions(w) ==
  /\ wk[w].pc = "idle"
  /\ permission' \in {wk[w].account, None}
  /\ UNCHANGED <<row, wk, telegram, net, asks, owner, crashes>>

\* checked_at becomes older than 180 seconds
PermissionAges ==
  /\ permission # None
  /\ permission' = None
  /\ UNCHANGED <<row, wk, telegram, net, asks, owner, crashes>>

\* lease_until passes without a renewal
LeaseLapses(p) ==
  /\ row[p].lease # None /\ ~row[p].lapsed
  /\ row' = [row EXCEPT ![p] = [@ EXCEPT !.lapsed = TRUE]]
  /\ UNCHANGED <<wk, permission, telegram, net, asks, owner, crashes>>

\* Variant: a row that was never leased counts as expired
Expired_Unleased == {p \in Posts : /\ row[p].action # None
                                   /\ row[p].lapsed \/ row[p].lease = None}
\* Variant: dead leases are left alone
Expired_Never == {}

Expired == {p \in Posts : row[p].action # None /\ row[p].lapsed}
Claimable == {p \in Posts : row[p].action # None /\ row[p].lease = None}
Oldest(S) == {p \in S : \A q \in S : p <= q}

\* Variant: an interrupted transfer is put back into the queue
ExpiredRow_Requeued(r) ==
  [r EXCEPT !.status = "queued", !.lease = None, !.lapsed = FALSE]
\* Variant: a status the CHECK constraint does not know
ExpiredRow_Unknown(r) ==
  [r EXCEPT !.status = "interrupted", !.action = None, !.lease = None,
            !.lapsed = FALSE]

ExpiredRow(r) ==
  [r EXCEPT !.status = "needs_review", !.action = None, !.lease = None,
            !.lapsed = FALSE]

ClaimedRow(r, w) ==
  [r EXCEPT !.lease = w, !.lapsed = FALSE,
            !.status = IF r.action = "schedule" THEN "transferring" ELSE @]

\* The local variables of process(row)
Claimed(w, p) ==
  [At("check", wk[w].session, wk[w].account) EXCEPT
     !.job = p, !.act = row[p].action, !.have = row[p].ids,
     !.goal = IF row[p].action = "update" THEN [x \in Parts |-> row[p].pend]
                                          ELSE row[p].snap,
     !.risky = row[p].ids # {} \/ row[p].action # "schedule",
     !.left = IF row[p].action = "update" THEN PartsOf(p) ELSE {}]

\* claim: every dead lease becomes needs_review, then the oldest command is
\* taken, in one transaction
Claim(w) ==
  /\ wk[w].pc = "idle"
  /\ \/ /\ Claimable = {} /\ Expired # {}
        /\ row' = [p \in Posts |-> IF p \in Expired THEN ExpiredRow(row[p]) ELSE row[p]]
        /\ wk' = Bump(wk, Expired)
     \/ \E q \in Oldest(Claimable) :
          /\ row' = [p \in Posts |-> IF p \in Expired THEN ExpiredRow(row[p])
                                     ELSE IF p = q THEN ClaimedRow(row[p], w)
                                     ELSE row[p]]
          /\ wk' = Bump([wk EXCEPT ![w] = Claimed(w, q)], Expired)
  /\ UNCHANGED <<permission, telegram, net, asks, owner, crashes>>

-----------------------------------------------------------------------------
(* PublishingWorker.process, one action per await that matters *)

Step(w, pc) == wk' = [wk EXCEPT ![w] = [@ EXCEPT !.pc = pc]]
Fails(w) == Step(w, "fail") /\ UNCHANGED <<row, net, asks>>
\* The mutating call is entered, and raises before its request leaves.
FailsAtRisk(w) ==
  /\ wk' = [wk EXCEPT ![w] = [@ EXCEPT !.pc = "fail", !.risky = TRUE]]
  /\ UNCHANGED <<row, net, asks>>
OnlyRows == UNCHANGED <<permission, telegram, owner, crashes>>

FirstStep(act) == CASE act = "cancel" -> "cancel"
                    [] act = "schedule" -> "send"
                    [] OTHER -> "edit"

\* Variant: the connected account is not compared
Preflight_AnyAccount(w) ==
  /\ wk[w].pc = "check"
  /\ Step(w, FirstStep(wk[w].act))
  /\ UNCHANGED <<row, net, asks, permission, telegram, owner, crashes>>

\* Account, channel, permission, peer and snapshot checks before any request
Preflight(w) ==
  /\ wk[w].pc = "check"
  /\ \/ /\ Fails(w)                      \* refused, or the account differs
        /\ permission' \in {permission} \cup
             IF wk[w].account = row[wk[w].job].account THEN {wk[w].account, None}
                                                       ELSE {}
     \/ /\ wk[w].account = row[wk[w].job].account
        /\ Step(w, FirstStep(wk[w].act))
        /\ permission' = wk[w].account
        /\ UNCHANGED <<row, net, asks>>
  /\ UNCHANGED <<telegram, owner, crashes>>

\* All photos in one request, then each text
Unit(w) ==
  LET mine == PartsOf(wk[w].job)
      missing == mine \ wk[w].have
  IN  IF missing \cap Photos # {} THEN mine \cap Photos ELSE Oldest(missing)

\* Variant: the mutating flag is forgotten
Ask_NotRisky(w, op, parts) ==
  /\ net' = net \cup {[op |-> op, parts |-> parts, text |-> wk[w].goal, by |-> w]}
  /\ Step(w, "await")
  /\ UNCHANGED row

Ask(w, op, parts) ==
  /\ net' = net \cup {[op |-> op, parts |-> parts, text |-> wk[w].goal, by |-> w]}
  /\ wk' = [wk EXCEPT ![w] = [@ EXCEPT !.pc = "await", !.risky = TRUE]]
  /\ UNCHANGED row

\* send_photos and send_text up to the request
Send(w) ==
  /\ wk[w].pc = "send"
  /\ \/ FailsAtRisk(w)                   \* image missing, upload, date too close
     \/ /\ Ask(w, "send", Unit(w))
        /\ asks' = [x \in Parts |-> IF x \in Unit(w) THEN asks[x] + 1 ELSE asks[x]]
  /\ OnlyRows

\* accepted and save_parts: the ids of the unit are known
Accepted(w) ==
  LET p == wk[w].job
      have == wk[w].have \cup Unit(w)
      seen == [x \in Parts |-> IF x \in Unit(w) THEN wk[w].goal[x] ELSE row[p].seen[x]]
  IN  /\ wk[w].pc = "accepted"
      /\ wk' = [wk EXCEPT ![w] = [@ EXCEPT !.have = have,
                  !.pc = IF PartsOf(p) \subseteq have THEN "confirm" ELSE "send"]]
      /\ row' = [row EXCEPT ![p] = SaveParts(@, w, have, seen)]
      /\ UNCHANGED <<net, asks>>
      /\ OnlyRows

\* edit up to the request: the message must still be queued
Edit(w) ==
  /\ wk[w].pc = "edit"
  /\ \/ FailsAtRisk(w)                   \* date too close, history not read
     \/ /\ Oldest(wk[w].left) \subseteq Queued(queue)
        /\ Ask(w, "edit", Oldest(wk[w].left))
        /\ UNCHANGED asks
  /\ OnlyRows

\* edit after the reply: read the message back, then save_parts
Verify(w) ==
  LET p == wk[w].job
      unit == Oldest(wk[w].left)
      left == wk[w].left \ unit
      seen == [x \in Parts |-> IF x \in unit THEN wk[w].goal[x] ELSE row[p].seen[x]]
  IN  /\ wk[w].pc = "verify"
      /\ \/ Fails(w)
         \/ /\ \A x \in unit : queue[x] # None /\ queue[x].text = wk[w].goal[x]
            /\ wk' = [wk EXCEPT ![w] = [@ EXCEPT !.left = left,
                        !.pc = IF left = {} THEN "confirm" ELSE "edit"]]
            /\ row' = [row EXCEPT ![p] = SaveParts(@, w, wk[w].have, seen)]
            /\ UNCHANGED <<net, asks>>
      /\ OnlyRows

\* cancel up to the request: every message must still be queued
Cancel(w) ==
  /\ wk[w].pc = "cancel"
  /\ \/ FailsAtRisk(w)
     \/ /\ PartsOf(wk[w].job) \subseteq Queued(queue)
        /\ Ask(w, "delete", PartsOf(wk[w].job))
        /\ UNCHANGED asks
  /\ OnlyRows

FinishJob(w, status, snap) ==
  LET p == wk[w].job
  IN  /\ row' = [row EXCEPT ![p] = Finish(@, w, status, snap)]
      /\ wk' = Finished(wk, w, p)
      /\ UNCHANGED <<net, asks>>

\* cancel after the reply: nothing may be left, then finish('cancelled')
Gone(w) ==
  /\ wk[w].pc = "gone"
  /\ \/ Fails(w)
     \/ /\ PartsOf(wk[w].job) \cap Queued(queue) = {}
        /\ FinishJob(w, "cancelled", row[wk[w].job].snap)
  /\ OnlyRows

\* Variant: finish is called without the value
Confirm_KeepsSnapshot(w) ==
  /\ wk[w].pc = "confirm"
  /\ PartsOf(wk[w].job) \subseteq Queued(queue)
  /\ FinishJob(w, "scheduled", row[wk[w].job].snap)
  /\ OnlyRows

\* Every message must still be in the queue, then finish('scheduled')
Confirm(w) ==
  /\ wk[w].pc = "confirm"
  /\ \/ Fails(w)
     \/ /\ PartsOf(wk[w].job) \subseteq Queued(queue)
        /\ FinishJob(w, "scheduled", wk[w].goal)
  /\ OnlyRows

\* mutate gives up after 30 seconds
Timeout(w) ==
  /\ wk[w].pc = "await"
  /\ Step(w, "fail")
  /\ net' = Orphaned(w)
  /\ UNCHANGED <<row, asks>>
  /\ OnlyRows

\* The except branch: save_parts and finish with the verdict. What is left out
\* is a reply of Telegram that contradicts itself: accepted() then keeps the
\* ids it had assigned so far, here a refused reply leaves none.
Fail(w) ==
  LET p == wk[w].job
      status == IF wk[w].risky THEN "needs_review" ELSE "failed"
  IN  /\ wk[w].pc = "fail"
      /\ row' = [row EXCEPT ![p] = Finish(SaveParts(@, w, wk[w].have, @.seen),
                                          w, status, @.snap)]
      /\ wk' = Finished(wk, w, p)
      /\ UNCHANGED <<net, asks>>
      /\ OnlyRows

Process(w) ==
  \/ Preflight(w) \/ Send(w) \/ Accepted(w) \/ Edit(w) \/ Verify(w)
  \/ Cancel(w) \/ Gone(w) \/ Confirm(w) \/ Timeout(w) \/ Fail(w)

-----------------------------------------------------------------------------
(* Telegram, as the code uses it *)

NextAfter(op) == CASE op = "send" -> "accepted"
                   [] op = "edit" -> "verify"
                   [] op = "delete" -> "gone"

\* The reply of request r reaches the worker that still waits for it.
Reply(r, pc) ==
  /\ net' = net \ {r}
  /\ wk' = IF r.by = None THEN wk ELSE [wk EXCEPT ![r.by] = [@ EXCEPT !.pc = pc]]

OnlyTelegram == UNCHANGED <<row, permission, asks, owner, crashes>>

Answers(r) == {NextAfter(r.op), "fail"}    \* the reply may be unusable

ServeSend(r) ==
  /\ r.op = "send"
  /\ queue' = [x \in Parts |-> IF x \in r.parts
                               THEN [text |-> r.text[x], original |-> TRUE]
                               ELSE queue[x]]
  /\ \E pc \in Answers(r) : Reply(r, pc)
  /\ UNCHANGED <<published, deleted, notices, edits>> /\ OnlyTelegram

ServeEdit(r) ==
  /\ r.op = "edit" /\ r.parts \subseteq Queued(queue)
  /\ queue' = [x \in Parts |-> IF x \in r.parts
                               THEN [queue[x] EXCEPT !.text = r.text[x]]
                               ELSE queue[x]]
  /\ \E pc \in Answers(r) : Reply(r, pc)
  /\ UNCHANGED <<published, deleted, notices, edits>> /\ OnlyTelegram

Remove(S) == queue' = [x \in Parts |-> IF x \in S THEN None ELSE queue[x]]
Notify(S, sent) == notices' = notices \cup {[parts |-> S, sent |-> sent]}

\* Messages that left the queue meanwhile are passed over.
ServeDelete(r) ==
  LET gone == r.parts \cap Queued(queue)
  IN  /\ r.op = "delete" /\ gone # {}
      /\ Remove(gone)
      /\ deleted' = deleted \cup gone
      /\ Notify(gone, FALSE)
      /\ \E pc \in Answers(r) : Reply(r, pc)
      /\ UNCHANGED <<published, edits>> /\ OnlyTelegram

\* An RPC error, or a request lost on the way: nothing happened.
Refuse(r) ==
  /\ Reply(r, "fail")
  /\ UNCHANGED telegram /\ OnlyTelegram

\* The date of queued messages arrives; an album goes out as one.
Publish(x) ==
  LET unit == IF x \in Photos THEN PartsOf(PostOf[x]) \cap Photos \cap Queued(queue)
                              ELSE {x}
  IN  /\ queue[x] # None
      /\ Remove(unit)
      /\ published' = published \cup unit
      /\ Notify(unit, TRUE)
      /\ UNCHANGED <<wk, net, deleted, edits>> /\ OnlyTelegram

\* Someone deletes, edits or replaces the image of a message in Telegram.
Outside == edits < MaxEdits /\ edits' = edits + 1

ExternalDelete(x) ==
  /\ queue[x] # None
  /\ Remove({x})
  /\ deleted' = deleted \cup {x}
  /\ Notify({x}, FALSE)
  /\ Outside
  /\ UNCHANGED <<wk, net, published>> /\ OnlyTelegram

ExternalEdit(x, m) ==
  /\ queue[x] # None /\ m # queue[x]
  /\ m.original => queue[x].original      \* a new image has a new photo id
  /\ x \in Photos \/ m.original
  /\ queue' = [queue EXCEPT ![x] = m]
  /\ Outside
  /\ UNCHANGED <<wk, net, published, deleted, notices>> /\ OnlyTelegram

\* The worker is offline, or the update is never delivered.
LoseNotice(n) ==
  /\ notices' = notices \ {n}
  /\ UNCHANGED <<wk, net, queue, published, deleted, edits>> /\ OnlyTelegram

Telegram ==
  \/ \E r \in net : \/ ServeSend(r) \/ ServeEdit(r) \/ ServeDelete(r) \/ Refuse(r)
  \/ \E x \in Parts : \/ Publish(x) \/ ExternalDelete(x)
                      \/ \E m \in Message : ExternalEdit(x, m)
  \/ \E n \in notices : LoseNotice(n)

-----------------------------------------------------------------------------
(* Reconciliation: rows are read, then each is written if still unchanged *)

ReconcileRows == {p \in Posts : /\ row[p].action = None
                                /\ row[p].status \in {"scheduled", "needs_review"}}

OnlyReconcile == UNCHANGED <<permission, queue, published, deleted, edits, net,
                             asks, owner, crashes>>

\* confirmed_update: the revision guard is p \in todo
ConfirmedUpdate(w, p, r) ==
  /\ row' = [row EXCEPT ![p] = r]
  /\ wk' = Bump(wk, {p})
  /\ UNCHANGED notices

Pass(w, p) ==
  /\ wk' = [wk EXCEPT ![w].todo = @ \ {p}]
  /\ UNCHANGED <<row, notices>>

\* update: the lock is taken and the rows are read
UpdateRead(w, n) ==
  /\ wk[w].pc = "idle" /\ n \in notices
  /\ notices' = notices \ {n}
  /\ wk' = [wk EXCEPT ![w] = [@ EXCEPT !.pc = "handle", !.note = n,
              !.todo = {p \in ReconcileRows : row[p].account = wk[w].account}]]
  /\ UNCHANGED row

\* Variant: one published message publishes the post
UpdatedRow_AnySent(p, n) ==
  LET hit == n.parts \cap row[p].ids
  IN  [row[p] EXCEPT !.pubs = IF n.sent THEN @ \cup hit ELSE @,
         !.status = IF n.sent /\ hit # {} THEN "published" ELSE "needs_review"]

UpdatedRow(p, n) ==
  LET hit == n.parts \cap row[p].ids
      pubs == IF n.sent THEN row[p].pubs \cup hit ELSE row[p].pubs
      cans == IF n.sent THEN row[p].cans ELSE row[p].cans \cup hit
  IN  [row[p] EXCEPT !.pubs = pubs, !.cans = cans,
         !.status = IF PartsOf(p) \subseteq pubs THEN "published"
                    ELSE IF PartsOf(p) \subseteq cans THEN "cancelled"
                    ELSE "needs_review"]

UpdateRow(w, p) ==
  /\ wk[w].pc = "handle" /\ p \in wk[w].todo
  /\ IF \/ wk[w].note.parts \cap row[p].ids # {}
        \/ row[p].status = "needs_review"
     THEN ConfirmedUpdate(w, p, UpdatedRow(p, wk[w].note))
     ELSE Pass(w, p)

\* reconcile: the rows are read
ReconcileRead(w) ==
  /\ wk[w].pc = "idle" /\ ReconcileRows # {}
  /\ wk' = [wk EXCEPT ![w] = [@ EXCEPT !.pc = "reconcile",
                                        !.todo = ReconcileRows]]
  /\ UNCHANGED <<row, notices>>

\* Variant: a vanished message is not reported
NeedsReview_Silent(w, p) == Pass(w, p)

NeedsReview(w, p) ==
  IF row[p].status = "needs_review" THEN Pass(w, p)
  ELSE ConfirmedUpdate(w, p, [row[p] EXCEPT !.status = "needs_review"])

OtherAccount(w, p) ==
  /\ row[p].account # wk[w].account
  /\ NeedsReview(w, p)

\* The schedule history is read once for all rows of the channel.
ReadHistory(w, p) ==
  /\ wk[w].pc = "reconcile"
  /\ row[p].account = wk[w].account /\ PartsOf(p) \subseteq row[p].ids
  /\ wk' = [wk EXCEPT ![w] = [@ EXCEPT !.pc = "compare", !.hist = queue]]
  /\ UNCHANGED <<row, notices>>

\* Ids are missing, or the history could not be read: the row is left alone.
LeaveAlone(w, p) ==
  /\ wk[w].pc = "reconcile" \/ ~(PartsOf(p) \subseteq row[p].ids)
  /\ row[p].account = wk[w].account
  /\ Pass(w, p)

Texts(p, h) == [x \in Parts |-> IF x \in PartsOf(p) THEN h[x].text ELSE row[p].snap[x]]
Coherent(p, h) == \A x, y \in PartsOf(p) : Slot[h[x].text] = Slot[h[y].text]

\* Variant: the texts are remembered, the snapshot is not rewritten
AdoptedRow_KeepsSnapshot(p, h) ==
  [row[p] EXCEPT !.seen = [x \in Parts |-> IF x \in PartsOf(p) THEN h[x].text
                                                              ELSE row[p].seen[x]],
                 !.status = "scheduled"]

\* All messages are there: copy what Telegram shows.
AdoptedRow(p, h) ==
  [row[p] EXCEPT !.seen = [x \in Parts |-> IF x \in PartsOf(p) THEN h[x].text
                                                              ELSE row[p].seen[x]],
                 !.snap = Texts(p, h),
                 !.status = IF Coherent(p, h) THEN "scheduled" ELSE "needs_review"]

CompareRow(w, p) ==
  LET h == wk[w].hist
      absent == PartsOf(p) \ Queued(h)
  IN  /\ wk[w].pc = "compare"
      /\ row[p].account = wk[w].account /\ PartsOf(p) \subseteq row[p].ids
      /\ \/ /\ ~(absent \subseteq row[p].pubs \cup row[p].cans)   \* vanished
            /\ NeedsReview(w, p)
         \/ /\ absent # {} /\ absent \subseteq row[p].pubs \cup row[p].cans
            /\ Pass(w, p)
         \/ /\ absent = {} /\ \E x \in PartsOf(p) : ~h[x].original
            /\ NeedsReview(w, p)
         \/ /\ absent = {} /\ \A x \in PartsOf(p) : h[x].original
            /\ IF \/ row[p].status = "needs_review"
                  \/ \E x \in PartsOf(p) : row[p].seen[x] # h[x].text
               THEN ConfirmedUpdate(w, p, AdoptedRow(p, h))
               ELSE Pass(w, p)

ReconcileRow(w, p) ==
  /\ wk[w].pc \in {"reconcile", "compare"} /\ p \in wk[w].todo
  /\ OtherAccount(w, p) \/ ReadHistory(w, p) \/ LeaveAlone(w, p) \/ CompareRow(w, p)

\* The lock is released.
BatchDone(w) ==
  /\ wk[w].pc \in BatchSteps /\ wk[w].todo = {}
  /\ wk' = [wk EXCEPT ![w] = At("idle", @.session, @.account)]
  /\ UNCHANGED <<row, notices>>

Reconcile(w) ==
  /\ \/ ReconcileRead(w)
     \/ \E n \in notices : UpdateRead(w, n)
     \/ \E p \in Posts : UpdateRow(w, p) \/ ReconcileRow(w, p)
     \/ BatchDone(w)
  /\ OnlyReconcile

-----------------------------------------------------------------------------
Owner == \E p \in Posts :
  \/ CommandCancelQueued(p) \/ CommandCancel(p) \/ Resolve(p)
  \/ \E c \in Contents : Create(p, c) \/ Retry(p, c) \/ CommandUpdate(p, c)

Environment == \/ PermissionAges
               \/ \E p \in Posts : LeaseLapses(p)
               \/ \E w \in Workers : Start(w) \/ Crash(w)

Next == \/ Owner \/ Environment \/ Telegram
        \/ \E w \in Workers : \/ RefreshPermissions(w) \/ Claim(w)
                              \/ Process(w) \/ Reconcile(w)

Spec == Init /\ [][Next]_vars

-----------------------------------------------------------------------------
(* Safety *)

\* A message is never handed to Telegram twice, whatever was lost, delayed or
\* retried: "never blindly resent" (worker.py:39, repository.py:191).
NoBlindResend == \A x \in Parts : asks[x] <= 1

\* What is shown as queued or failed never left for Telegram, so cancelling it
\* at once and retrying it are safe (repository.py:125, 169; worker.py:90).
QueuedAndFailedAreUntouched ==
  \A p \in Posts : row[p].status \in {"queued", "failed"} =>
    \A x \in PartsOf(p) : asks[x] = 0

\* A post leaves the transfer as scheduled only with the ids of all its
\* messages, and each id is of a message Telegram took (worker.py:82-85).
Taken == Queued(queue) \cup published \cup deleted
ScheduledIsAccepted ==
  \A p \in Posts :
    /\ row[p].ids \subseteq Taken
    /\ row[p].status \in {"scheduled", "updating", "cancelling", "published"} =>
         PartsOf(p) \subseteq row[p].ids

\* "Published" is never guessed from an absence (worker.py:161, 166-168).
PublishedIsConfirmed ==
  \A p \in Posts : row[p].status = "published" => PartsOf(p) \subseteq published

\* A cancelled post that nobody closed by hand has no message left in the
\* schedule queue, and none still on its way to it (telegram.py:127-129).
CancelledLeavesNothing ==
  \A p \in Posts : row[p].status = "cancelled" /\ p \notin resolved =>
    /\ PartsOf(p) \cap Queued(queue) = {}
    /\ \A r \in net : r.op = "send" => r.parts \cap PartsOf(p) = {}

\* The text and date the calendar shows for a scheduled post are those Telegram
\* last confirmed for every message of it, after partly applied updates,
\* interrupted ones and edits from outside too (worker.py:76-85, 124-140).
SnapshotIsConfirmed ==
  \A p \in Posts : row[p].status = "scheduled" =>
    \A x \in PartsOf(p) : row[p].seen[x] = row[p].snap[x]

\* The pending command and the status never disagree, only a row with a pending
\* command is leased, only a lease lapses, and no transfer is left without one
\* (repository.py:113, 169, 180, 191, 200, 227).
CommandMatches(p) ==
  /\ row[p].action = "schedule" <=> row[p].status \in {"queued", "transferring"}
  /\ row[p].action = "update" <=> row[p].status = "updating"
  /\ row[p].action = "cancel" <=> row[p].status = "cancelling"
  /\ row[p].lease # None => row[p].action # None /\ row[p].status # "queued"
  /\ row[p].status = "transferring" => row[p].lease # None
  /\ row[p].lapsed => row[p].lease # None
CommandMatchesStatus == \A p \in Posts : CommandMatches(p)

\* No request for a post leaves from another account's session (worker.py:42).
OwnAccountOnly ==
  \A r \in net : r.by # None => \A x \in r.parts :
    wk[r.by].account = row[PostOf[x]].account

-----------------------------------------------------------------------------
(* Action properties *)

\* A command the owner confirmed is ended only by the worker that carries it
\* out, by the expiry of that worker's lease, or by the owner's cancellation
\* before transfer; reconciliation that read the row earlier never wipes it out
\* (repository.py:247).
CommandsAreNotOverwritten ==
  [][\A p \in Posts : row[p].action # None /\ row'[p].action = None =>
       \/ row[p].lease # None
       \/ row[p].status = "queued" /\ row'[p].status = "cancelled"]_vars
-----------------------------------------------------------------------------
(* The inductive invariant behind the theorems of PublishingQueueProofs *)

Asked == {x \in Parts : asks[x] > 0}
Untransferred == {"absent", "queued", "failed"}
Held == {"scheduled", "updating", "cancelling", "published"}
Busy(w) == wk[w].pc \in ProcessSteps
Sending(w) == Busy(w) /\ wk[w].act = "schedule"

StepsOf(act) == CASE act = "schedule" -> {"check", "send", "await", "accepted", "confirm", "fail"}
                  [] act = "update" -> {"check", "edit", "await", "verify", "confirm", "fail"}
                  [] act = "cancel" -> {"check", "cancel", "await", "gone", "fail"}

\* A pending update has something to write.
PendingInv == \A p \in Posts : row[p].action = "update" => row[p].pend # None

\* A status is a true statement about what was handed over and published.
RowTrue(p) ==
  /\ row[p].ids \subseteq Asked
  /\ row[p].pubs \subseteq published
  /\ row[p].status \in Untransferred => PartsOf(p) \cap Asked = {}
  /\ row[p].status \in Held => PartsOf(p) \subseteq Asked
  /\ row[p].status = "published" => PartsOf(p) \subseteq published
RowsInv == \A p \in Posts : RowTrue(p)

\* A worker stands in its own action's steps, and while it holds the lease the
\* row still carries that action.
JobTrue(w) ==
  Busy(w) =>
    /\ wk[w].job \in Posts
    /\ wk[w].act \in Actions
    /\ wk[w].pc \in StepsOf(wk[w].act)
    /\ row[wk[w].job].lease = w => row[wk[w].job].action = wk[w].act
    /\ wk[w].have \subseteq Asked
    /\ wk[w].act # "schedule" => wk[w].risky
JobsInv == \A w \in Workers : JobTrue(w)

\* What a transferring worker has not sent yet was never sent, and while it may
\* still call the transfer failed, nothing was.
SendTrue(w) ==
  LET mine == PartsOf(wk[w].job)
      have == wk[w].have
  IN  Sending(w) =>
        /\ row[wk[w].job].status \notin Untransferred
        /\ wk[w].pc \in {"check", "send"} => (mine \ have) \cap Asked = {}
        /\ wk[w].pc \in {"await", "accepted"} =>
             Unit(w) \subseteq Asked /\ (mine \ (have \cup Unit(w))) \cap Asked = {}
        /\ wk[w].pc = "confirm" => mine \subseteq have
        /\ ~wk[w].risky => mine \cap Asked = {}
        /\ mine \cap Photos \cap have = {} \/ mine \cap Photos \subseteq have
OneSender == \A v, w \in Workers :
  Sending(v) /\ Sending(w) /\ wk[v].job = wk[w].job => v = w
SendInv == (\A w \in Workers : SendTrue(w)) /\ OneSender

\* The rows of a batch are still as they were read.
BatchTrue(w) ==
  /\ \A p \in wk[w].todo : /\ row[p].action = None
                           /\ row[p].status \in {"scheduled", "needs_review"}
  /\ wk[w].note.sent => wk[w].note.parts \subseteq published
BatchInv == \A w \in Workers : BatchTrue(w)

\* Telegram knows only what it was asked to take.
NetInv ==
  /\ Queued(queue) \cup published \subseteq Asked
  /\ \A n \in notices : n.sent => n.parts \subseteq published
  /\ \A r \in net :
       /\ r.op = "send" => r.parts \subseteq Asked
       /\ r.by # None => /\ wk[r.by].pc = "await"
                         /\ NextAfter(r.op) \in StepsOf(wk[r.by].act)
  /\ \A r, s \in net : r.by = s.by /\ r.by # None => r = s

IInv == /\ TypeOK /\ PendingInv /\ CommandMatchesStatus /\ RowsInv /\ JobsInv
        /\ SendInv /\ BatchInv /\ NetInv /\ NoBlindResend

-----------------------------------------------------------------------------
(* The queue keeps the calendar's promise *)

Promise == INSTANCE SchedulePromise
  WITH shown <- [p \in Posts |-> row[p].status], handed <- asks, out <- published

\* Every behaviour of queue, worker and Telegram is, for the owner who looks at
\* the calendar, one the promise allows.
KeepsPromise == Promise!Spec

-----------------------------------------------------------------------------
(* Liveness *)

\* The loop of run() claims in every cycle and reconciles every 30 seconds, and
\* asyncio.Lock is FIFO, so the update handlers cannot keep it out: strong
\* fairness for what starts when the lock is free. A process that ended is
\* restarted, time passes, and a history that is asked for again and again is
\* read some time. Nothing makes Telegram answer or the owner act.
Fairness ==
  /\ \A w \in Workers :
       /\ WF_vars(Start(w)) /\ WF_vars(Process(w))
       /\ SF_vars(Claim(w))
       /\ SF_vars(ReconcileRead(w) /\ OnlyReconcile)
       /\ WF_vars(Reconcile(w) /\ wk[w].pc # "idle")
       /\ \A p \in Posts : SF_vars(ReconcileRow(w, p) /\ ReadHistory(w, p) /\ OnlyReconcile)
  /\ \A p \in Posts : WF_vars(LeaseLapses(p))

FairSpec == Spec /\ Fairness

\* Every command the owner confirmed comes to an end, whatever is lost and
\* whenever the worker dies; nothing stays "transferring" (worker.py:86-92,
\* repository.py:191-196).
CommandSettles ==
  \A p \in Posts : (row[p].action # None) ~> (row[p].action = None)

\* A post whose messages left Telegram's queue does not stay "scheduled", even
\* when the update about it is lost (worker.py:111-114).
VanishingIsNoticed ==
  \A p \in Posts :
    (row[p].status = "scheduled" /\ ~(PartsOf(p) \subseteq Queued(queue)))
      ~> row[p].status # "scheduled"

\* An edit made in Telegram reaches the calendar (worker.py:123-140).
EditIsAdopted ==
  \A x \in Parts, c \in Contents :
    LET same == /\ row[PostOf[x]].status = "scheduled"
                /\ queue[x] # None /\ queue[x].text = c
    IN  same ~> (~same \/ row[PostOf[x]].snap[x] = c)

-----------------------------------------------------------------------------
(* What the documentation says and the code does not keep *)

\* docs/publishing.md:18, "Cancel post cancels every constituent scheduled
\* message": no message of a post recorded as cancelled was published, unless
\* the owner closed the post by hand.
CancelledIsUnpublished ==
  \A p \in Posts : row[p].status = "cancelled" /\ p \notin resolved =>
    PartsOf(p) \cap published = {}

\* worker.py:176, "Telegram caption limits unavailable; using conservative
\* limit": a worker that is logged in to the account that made a schedule, and
\* found it intact in Telegram, does not put it up for review.
Intact(p) == \A x \in PartsOf(p) :
  queue[x] # None /\ queue[x].original /\ queue[x].text = row[p].seen[x]
IntactScheduleStays ==
  [][\A p \in Posts, w \in Workers :
       /\ row[p].status = "scheduled" /\ Intact(p)
       /\ wk[w].session = row[p].account
       /\ wk[w].pc = "reconcile" /\ p \in wk[w].todo /\ wk'[w].todo # wk[w].todo
       => row'[p].status # "needs_review"]_vars

=============================================================================
