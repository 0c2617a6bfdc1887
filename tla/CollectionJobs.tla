---------------------------- MODULE CollectionJobs ----------------------------
(***************************************************************************)
(* Collection of Telegram channels by TGhost: the channels, posts,         *)
(* comments and collection_jobs tables, the collector processes that scan  *)
(* channels into them, and the owner's changes of the channel list         *)
(* (app/collector.py, app/postgres_db.py, app/main.py).                    *)
(*                                                                         *)
(* A scan is cut at its awaits: one step is one call to Telegram or to the *)
(* database with the code up to the next one. Two processes overlap when   *)
(* an old one is still alive as its successor starts.                      *)
(*                                                                         *)
(* What is abstracted:                                                     *)
(*  - message ids of a channel grow with their dates, so a date is an id.  *)
(*    Which cutoff a scan takes depends on clocks: any of Windows.         *)
(*  - a collector has at most one scan, hence at most one job per channel  *)
(*    that matters: job[c][w] is its last one. Finished jobs are pruned    *)
(*    after seven days and never read but for health.                      *)
(*  - a comment is "none", "retired", or live with the sync that saw it    *)
(*    last: a running one (its collector) or an "earlier" one.             *)
(*  - text, metrics and snapshots are left out.                            *)
(***************************************************************************)
EXTENDS Integers, FiniteSets

CONSTANTS
  Channels,    \* identifiers
  Collectors,  \* processes with a Telegram session
  Comments,    \* comments a post may have
  None,        \* SQL NULL, Python None
  Seeds,       \* channels of the environment, settings.channel_list
  Windows,     \* cutoffs a scan may take; 0 for none
  Cap,         \* settings.backfill_limit; 0 for no limit
  PageSize,    \* messages of one Telegram request
  MaxMsg,      \* bound: messages of a channel
  MaxRows,     \* bound: rows ever created in channels
  MaxEdits,    \* bound: removals and comment changes on Telegram
  MaxFaults    \* bound: flood waits, failed calls, crashes and stops

ASSUME CollectionAssumption ==
  /\ {Cap, MaxMsg, MaxRows, MaxEdits, MaxFaults} \subseteq Nat
  /\ PageSize \in Nat \ {0}
  /\ Windows \subseteq 0..(MaxMsg + 1) /\ Windows # {}
  /\ Seeds \subseteq Channels

VARIABLES
  tg,      \* Telegram: the messages and comments of each channel
  chan,    \* table channels, with posts and comments
  job,     \* table collection_jobs
  proc,    \* per process: memory that outlives a scan
  scan,    \* per process: poll_all and poll_channel
  rows, edits, faults   \* counters for the bounds

vars == <<tg, chan, job, proc, scan, rows, edits, faults>>

-----------------------------------------------------------------------------
(* State *)

Msgs == 1..MaxMsg
Tokens == Collectors \cup {"earlier"}

Row ==
  [id       : 1..MaxRows,
   active   : BOOLEAN,
   resolved : BOOLEAN,                                   \* chat_id is set
   posts    : [Msgs -> {"none", "live", "retired"}],
   comments : [Msgs -> [Comments -> Tokens \cup {"none", "retired"}]]]

Job == [status : {"running", "succeeded", "failed", "expired"}, lapsed : BOOLEAN]

ASSUME NoneAssumption == None \notin Row \cup Job \cup Channels
ASSUME TokenAssumption == Collectors \cap {"none", "retired", "earlier"} = {}

Scanning == {"resolve", "read", "thread", "replies", "retire", "finish"}

Scan ==
  [pc     : {"idle", "next"} \cup Scanning,
   todo   : SUBSET (Channels \X (1..MaxRows)),   \* channels, not yet polled
   ch     : Channels \cup {None},
   id     : 0..MaxRows,                \* ch["id"]
   since  : Windows,                   \* cutoff
   pos    : 1..(MaxMsg + 1),           \* messages from here on were fetched
   got    : Nat,                       \* how many were
   page   : SUBSET Msgs,               \* fetched and not yet handled
   seen   : SUBSET Msgs,               \* seen_message_ids
   known  : SUBSET Msgs,               \* commented_ids
   msg    : 0..MaxMsg,                 \* the post whose thread is read
   thread : SUBSET Comments,           \* its comments, fetched, not yet stored
   failed : BOOLEAN,                   \* channel_failed
   alone  : BOOLEAN,                   \* ghost: no other scan of the row overlapped
   calm   : BOOLEAN,                   \* ghost: no change on Telegram since the start
   quiet  : BOOLEAN]                   \* ghost: nor of the thread, nor another sync in
                                       \* it, since it was fetched

Proc ==
  [up       : BOOLEAN,
   entities : SUBSET Channels,         \* _entities
   flood    : BOOLEAN,                 \* _next_allowed_at is ahead
   leaving  : BOOLEAN]                 \* the process shuts down

Idle ==
  [pc |-> "idle", todo |-> {}, ch |-> None, id |-> 0,
   since |-> CHOOSE w \in Windows : TRUE, pos |-> MaxMsg + 1,
   got |-> 0, page |-> {}, seen |-> {}, known |-> {}, msg |-> 0, thread |-> {},
   failed |-> FALSE, alone |-> TRUE, calm |-> TRUE, quiet |-> TRUE]

Down == [up |-> FALSE, entities |-> {}, flood |-> FALSE, leaving |-> FALSE]

FreshRow(id, resolved) ==
  [id |-> id, active |-> TRUE, resolved |-> resolved,
   posts |-> [m \in Msgs |-> "none"],
   comments |-> [m \in Msgs |-> [k \in Comments |-> "none"]]]

TypeOK ==
  /\ tg \in [Channels -> [top : 0..MaxMsg, posts : SUBSET Msgs,
                          said : [Msgs -> SUBSET Comments]]]
  /\ chan \in [Channels -> Row \cup {None}]
  /\ job \in [Channels -> [Collectors -> Job \cup {None}]]
  /\ proc \in [Collectors -> Proc]
  /\ scan \in [Collectors -> Scan]
  /\ rows \in 0..MaxRows /\ edits \in 0..MaxEdits /\ faults \in 0..MaxFaults

Init ==
  /\ tg = [c \in Channels |-> [top |-> 0, posts |-> {}, said |-> [m \in Msgs |-> {}]]]
  /\ chan = [c \in Channels |-> None]
  /\ job = [c \in Channels |-> [w \in Collectors |-> None]]
  /\ proc = [w \in Collectors |-> Down]
  /\ scan = [w \in Collectors |-> Idle]
  /\ rows = 0 /\ edits = 0 /\ faults = 0

-----------------------------------------------------------------------------
(* Operators *)

Newest(S) == CHOOSE m \in S : \A n \in S : n <= m
Oldest(S) == CHOOSE m \in S : \A n \in S : m <= n

Here(c, id) == chan[c] # None /\ chan[c].id = id

\* The scan of w still has the row it was started for.
Mine(w) == Here(scan[w].ch, scan[w].id)

InScan(w) == scan[w].pc \in Scanning

ScansOf(c, id) == {w \in Collectors : InScan(w) /\ scan[w].ch = c /\ scan[w].id = id}

\* The next Telegram page below pos: newest first, within the cap.
NextPage(w) ==
  LET c == scan[w].ch
      room == IF Cap = 0 THEN PageSize
              ELSE IF Cap - scan[w].got < PageSize THEN Cap - scan[w].got ELSE PageSize
      below == {m \in tg[c].posts : m < scan[w].pos}
  IN  {m \in below : Cardinality({n \in below : n > m}) < room}

Goto(w, s, pc) == scan' = [scan EXCEPT ![w] = [s EXCEPT !.pc = pc]]

\* poll_channel is over: "failed" after an exception.
Over(w, failed) == Goto(w, [scan[w] EXCEPT !.failed = failed], "finish")

Fault == faults < MaxFaults /\ faults' = faults + 1

\* A change on Telegram ends the calm of the scans that read the channel, and
\* the quiet of those that are in the thread of the message.
Disturbed(c, m) ==
  [w \in Collectors |->
     IF scan[w].ch # c THEN scan[w]
     ELSE [scan[w] EXCEPT !.calm = FALSE, !.quiet = @ /\ scan[w].msg # m]]

-----------------------------------------------------------------------------
(* Start and sync_channels *)

\* Variant: a running job is taken for a leftover whatever its lease says
Recovered_AnyLease(j) == IF j # None /\ j.status = "running" THEN [j EXCEPT !.status = "failed"] ELSE j

\* Variant: the job gets a status of another table
Recovered_Interrupted(j) ==
  IF j # None /\ j.status = "running" /\ j.lapsed THEN [j EXCEPT !.status = "interrupted"] ELSE j

\* expire_stale_collection_jobs
Recovered(j) ==
  IF j # None /\ j.status = "running" /\ j.lapsed THEN [j EXCEPT !.status = "failed"] ELSE j

\* upsert_channel from resolve_entity: an existing row keeps what it has.
Resolved(c) ==
  IF chan[c] = None THEN FreshRow(rows + 1, TRUE) ELSE [chan[c] EXCEPT !.resolved = TRUE]

\* sync_channels: the seeds, and the active rows that have no chat_id
Wanted == Seeds \cup {c \in Channels : chan[c] # None /\ chan[c].active /\ ~chan[c].resolved}

\* amain up to the scheduler: stale jobs are failed, then the wanted channels are
\* resolved. Of those that are lost Telegram does
\* not answer for some, and the row of the kept ones cannot be written. (Bound:
\* one new row.)
Start(w) ==
  /\ ~proc[w].up
  /\ \E lost \in SUBSET Wanted : \E kept \in SUBSET lost :
       LET new == {c \in Wanted \ lost : chan[c] = None}
       IN  /\ IF lost = {} THEN UNCHANGED faults ELSE Fault
           /\ \A c, d \in new : c = d
           /\ new # {} => rows < MaxRows
           /\ rows' = IF new = {} THEN rows ELSE rows + 1
           /\ chan' = [c \in Channels |-> IF c \in Wanted \ lost THEN Resolved(c) ELSE chan[c]]
           /\ proc' = [proc EXCEPT ![w] =
                [Down EXCEPT !.up = TRUE, !.entities = (Wanted \ lost) \cup kept]]
  /\ job' = [c \in Channels |-> [v \in Collectors |-> Recovered(job[c][v])]]
  /\ UNCHANGED <<tg, scan, edits>>

-----------------------------------------------------------------------------
(* poll_all *)

Begin(w) ==
  /\ proc[w].up /\ scan[w].pc = "idle"
  /\ Goto(w, [scan[w] EXCEPT !.todo =
       {<<c, chan[c].id>> : c \in {d \in Channels : chan[d] # None /\ chan[d].active}}], "next")
  /\ UNCHANGED <<tg, chan, job, proc, rows, edits, faults>>

\* Channels are polled in the order of their ids.
First(w) == CHOOSE t \in scan[w].todo : \A u \in scan[w].todo : t[2] <= u[2]
Rest(w) == [scan[w] EXCEPT !.todo = @ \ {First(w)}]

EndCycle(w) ==
  /\ scan[w].pc = "next" /\ scan[w].todo = {}
  /\ scan' = [scan EXCEPT ![w] = Idle]
  /\ UNCHANGED <<tg, chan, job, proc, rows, edits, faults>>

SkipInFlood(w) ==
  /\ scan[w].pc = "next" /\ scan[w].todo # {} /\ proc[w].flood
  /\ Goto(w, Rest(w), "next")
  /\ UNCHANGED <<tg, chan, job, proc, rows, edits, faults>>

\* Variant: a lapsed job is not taken for one that still runs, nor expired
Expired_Never(j) == j

\* The first statement of claim_collection_job
Expired(j) ==
  IF j # None /\ j.status = "running" /\ j.lapsed THEN [j EXCEPT !.status = "expired"] ELSE j

\* The row exists and the unique index on running jobs admits one more.
Claimable(c, id) ==
  /\ Here(c, id)
  /\ \A v \in Collectors : Expired(job[c][v]) # None => Expired(job[c][v]).status # "running"

Claim(w) ==
  LET c == First(w)[1]
      id == First(w)[2]
      others == ScansOf(c, id) \ {w}
      mine == [Rest(w) EXCEPT !.pc = "resolve", !.ch = c, !.id = id, !.alone = (others = {})]
  IN  /\ scan[w].pc = "next" /\ scan[w].todo # {} /\ ~proc[w].flood
      /\ IF Claimable(c, id)
         THEN /\ job' = [job EXCEPT ![c] = [v \in Collectors |->
                   IF v = w THEN [status |-> "running", lapsed |-> FALSE] ELSE Expired(job[c][v])]]
              /\ \E since \in Windows :
                   scan' = [v \in Collectors |->
                     IF v = w THEN [mine EXCEPT !.since = since]
                     ELSE IF v \in others THEN [scan[v] EXCEPT !.alone = FALSE] ELSE scan[v]]
         ELSE Goto(w, Rest(w), "next") /\ UNCHANGED job
      /\ UNCHANGED <<tg, chan, proc, rows, edits, faults>>

\* The claim raises, its row stored or not: the cycle is over.
ClaimBreaks(w) ==
  LET c == First(w)[1]
  IN  /\ scan[w].pc = "next" /\ scan[w].todo # {} /\ ~proc[w].flood /\ Fault
      /\ \/ /\ Claimable(c, First(w)[2])
            /\ job' = [job EXCEPT ![c] = [v \in Collectors |->
                 IF v = w THEN [status |-> "running", lapsed |-> FALSE] ELSE Expired(job[c][v])]]
         \/ UNCHANGED job
      /\ scan' = [scan EXCEPT ![w] = Idle]
      /\ UNCHANGED <<tg, chan, proc, rows, edits>>

\* finish_collection_job does not look at the status it overwrites.
Finish(w) ==
  LET c == scan[w].ch
      left == [Idle EXCEPT !.todo = scan[w].todo, !.pc = "next"]
  IN  /\ scan[w].pc = "finish"
      /\ job' = IF job[c][w] = None THEN job
                ELSE [job EXCEPT ![c][w].status = IF scan[w].failed THEN "failed" ELSE "succeeded"]
      /\ scan' = [scan EXCEPT ![w] = IF proc[w].leaving THEN Idle ELSE left]
      /\ proc' = [proc EXCEPT ![w] = IF proc[w].leaving THEN Down ELSE proc[w]]
      /\ UNCHANGED <<tg, chan, rows, edits, faults>>

\* The call raises and poll_all with it: the job keeps its lease.
FinishBreaks(w) ==
  /\ scan[w].pc = "finish" /\ Fault
  /\ scan' = [scan EXCEPT ![w] = Idle]
  /\ proc' = [proc EXCEPT ![w] = IF proc[w].leaving THEN Down ELSE proc[w]]
  /\ UNCHANGED <<tg, chan, job, rows, edits>>

-----------------------------------------------------------------------------
(* poll_channel *)

\* An entity is written to its row only when it was not in memory.
Stored(w, c) == c \notin proc[w].entities

\* resolve_entity and post_ids_with_comments
Resolve(w) ==
  LET c == scan[w].ch
  IN  /\ scan[w].pc = "resolve"
      /\ (Stored(w, c) /\ chan[c] = None) => rows < MaxRows
      /\ chan' = IF Stored(w, c) THEN [chan EXCEPT ![c] = Resolved(c)] ELSE chan
      /\ rows' = IF Stored(w, c) /\ chan[c] = None THEN rows + 1 ELSE rows
      /\ proc' = [proc EXCEPT ![w].entities = @ \cup {c}]
      /\ Goto(w, [scan[w] EXCEPT !.known =
           IF Mine(w) THEN {m \in Msgs : \E k \in Comments :
                              chan[c].comments[m][k] \in Tokens} ELSE {}], "read")
      /\ UNCHANGED <<tg, job, edits, faults>>

\* get_entity raises, or the upsert after the entity was kept in memory.
ResolveBreaks(w) ==
  /\ scan[w].pc = "resolve" /\ scan[w].ch \notin proc[w].entities /\ Fault
  /\ \E kept \in {{}, {scan[w].ch}} : proc' = [proc EXCEPT ![w].entities = @ \cup kept]
  /\ Over(w, TRUE)
  /\ UNCHANGED <<tg, chan, job, rows, edits>>

\* iter_messages asks for a page when the last one is used up.
Fetch(w) ==
  LET page == NextPage(w)
  IN  /\ scan[w].pc = "read" /\ scan[w].page = {}
      /\ IF page = {} THEN Goto(w, scan[w], "retire")
         ELSE Goto(w, [scan[w] EXCEPT !.page = page, !.pos = Oldest(page),
                                      !.got = @ + Cardinality(page)], "read")
      /\ UNCHANGED <<tg, chan, job, proc, rows, edits, faults>>

\* FloodWaitError, anywhere in poll_channel where Telegram is asked
FloodWait(w) ==
  /\ \/ scan[w].pc = "resolve" /\ scan[w].ch \notin proc[w].entities
     \/ scan[w].pc = "read" /\ scan[w].page = {}
     \/ scan[w].pc = "thread"
     \/ scan[w].pc = "replies" /\ scan[w].thread # {}
  /\ Fault
  /\ proc' = [proc EXCEPT ![w].flood = TRUE]
  /\ Over(w, TRUE)
  /\ UNCHANGED <<tg, chan, job, rows, edits>>

Renewed(j) == IF j # None /\ j.status = "running" THEN [j EXCEPT !.lapsed = FALSE] ELSE j

\* upsert_post: a post that was retired and is seen again is live.
Upserted(row, m) == [row EXCEPT !.posts[m] = "live"]

\* One message of the page. A lapsed lease is older than sixty seconds, so it is
\* renewed here. Without the channel's row the post cannot be stored.
Store(w) ==
  LET c == scan[w].ch
      m == Newest(scan[w].page)
      s == [scan[w] EXCEPT !.page = @ \ {m}, !.seen = @ \cup {m}]
  IN  /\ scan[w].pc = "read" /\ scan[w].page # {} /\ m >= scan[w].since
      /\ job' = [job EXCEPT ![c][w] = Renewed(job[c][w])]
      /\ IF Mine(w)
         THEN /\ chan' = [chan EXCEPT ![c] = Upserted(chan[c], m)]
              /\ IF tg[c].said[m] # {} \/ m \in scan[w].known
                 THEN Goto(w, [s EXCEPT !.msg = m], "thread") ELSE Goto(w, s, "read")
         ELSE Over(w, TRUE) /\ UNCHANGED chan
      /\ UNCHANGED <<tg, proc, rows, edits, faults>>

\* A message before the cutoff ends the loop.
ReachCutoff(w) ==
  /\ scan[w].pc = "read" /\ scan[w].page # {} /\ Newest(scan[w].page) < scan[w].since
  /\ Goto(w, scan[w], "retire")
  /\ UNCHANGED <<tg, chan, job, proc, rows, edits, faults>>

\* Telegram or the database fails while messages are read.
ReadBreaks(w) ==
  /\ scan[w].pc = "read" /\ Fault
  /\ Over(w, TRUE)
  /\ UNCHANGED <<tg, chan, job, proc, rows, edits>>

\* The syncs that have fetched the thread w is at and are not through with it.
Inside(w) ==
  {v \in ScansOf(scan[w].ch, scan[w].id) \ {w} :
     scan[v].pc = "replies" /\ scan[v].msg = scan[w].msg}

\* sync_comments draws its token and fetches the thread.
FetchThread(w) ==
  LET c == scan[w].ch
      m == scan[w].msg
  IN  /\ scan[w].pc = "thread"
      /\ chan' = IF Mine(w)
                 THEN [chan EXCEPT ![c].comments[m] = [k \in Comments |->
                        IF chan[c].comments[m][k] = w THEN "earlier" ELSE chan[c].comments[m][k]]]
                 ELSE chan
      /\ scan' = [v \in Collectors |->
           IF v = w THEN [scan[w] EXCEPT !.pc = "replies", !.thread = tg[c].said[m],
                                         !.quiet = (Inside(w) = {})]
           ELSE IF v \in Inside(w) THEN [scan[v] EXCEPT !.quiet = FALSE] ELSE scan[v]]
      /\ UNCHANGED <<tg, job, proc, rows, edits, faults>>

\* upsert_comment
StoreComment(w) ==
  LET c == scan[w].ch
      k == CHOOSE x \in scan[w].thread : TRUE
  IN  /\ scan[w].pc = "replies" /\ scan[w].thread # {} /\ Mine(w)
      /\ chan' = [chan EXCEPT ![c].comments[scan[w].msg][k] = w]
      /\ Goto(w, [scan[w] EXCEPT !.thread = @ \ {k}], "replies")
      /\ UNCHANGED <<tg, job, proc, rows, edits, faults>>

\* Variant: a comment is retired though this sync has just seen it
Unseen_Any(w, t) == t \in Tokens

\* mark_unseen_comments_deleted: live and last seen by another sync
Unseen(w, t) == t \in Tokens \ {w}

RetireComments(w) ==
  LET c == scan[w].ch
      m == scan[w].msg
  IN  /\ scan[w].pc = "replies" /\ scan[w].thread = {}
      /\ chan' = IF Mine(w)
                 THEN [chan EXCEPT ![c].comments[m] = [k \in Comments |->
                        IF Unseen(w, chan[c].comments[m][k]) THEN "retired"
                        ELSE chan[c].comments[m][k]]]
                 ELSE chan
      /\ Goto(w, [scan[w] EXCEPT !.msg = 0, !.quiet = TRUE], "read")
      /\ UNCHANGED <<tg, job, proc, rows, edits, faults>>

\* Any other error of sync_comments leaves the thread and goes on to the next post.
SkipThread(w) ==
  /\ \/ scan[w].pc = "replies" /\ scan[w].thread # {} /\ ~Mine(w) /\ UNCHANGED faults
     \/ scan[w].pc \in {"thread", "replies"} /\ Fault
  /\ Goto(w, [scan[w] EXCEPT !.msg = 0, !.thread = {}, !.quiet = TRUE], "read")
  /\ UNCHANGED <<tg, chan, job, proc, rows, edits>>

\* Variant: posts older than the messages read are retired as well
Missed_Older(w, m) == m \notin scan[w].seen /\ m >= scan[w].since

\* Variant: only an unlimited read retires
Missed_Unlimited(w, m) ==
  Cap = 0 /\ m \notin scan[w].seen /\ m >= scan[w].since /\ m >= Oldest(scan[w].seen)

\* The window of mark_unseen_posts_deleted
Missed(w, m) ==
  m \notin scan[w].seen /\ m >= scan[w].since /\ m >= Oldest(scan[w].seen)

\* mark_unseen_posts_deleted
Retired(w) ==
  [m \in Msgs |->
     IF m \in scan[w].seen /\ chan[scan[w].ch].posts[m] = "retired" THEN "live"
     ELSE IF chan[scan[w].ch].posts[m] = "live" /\ Missed(w, m) THEN "retired"
     ELSE chan[scan[w].ch].posts[m]]

\* A failure is only logged.
Retire(w) ==
  /\ scan[w].pc = "retire"
  /\ \/ /\ chan' = IF Mine(w) /\ scan[w].seen # {}
                   THEN [chan EXCEPT ![scan[w].ch].posts = Retired(w)] ELSE chan
        /\ UNCHANGED faults
     \/ Fault /\ UNCHANGED chan
  /\ Over(w, FALSE)
  /\ UNCHANGED <<tg, job, proc, rows, edits>>

Poll(w) ==
  \/ Begin(w) \/ EndCycle(w) \/ SkipInFlood(w) \/ Claim(w) \/ Resolve(w) \/ Fetch(w)
  \/ Store(w) \/ ReachCutoff(w) \/ FetchThread(w) \/ StoreComment(w)
  \/ RetireComments(w) \/ Retire(w) \/ Finish(w)

Breaks(w) ==
  \/ ClaimBreaks(w) \/ FinishBreaks(w) \/ ResolveBreaks(w) \/ FloodWait(w)
  \/ ReadBreaks(w) \/ SkipThread(w)

-----------------------------------------------------------------------------
(* Time, shutdown, crash *)

\* 180 seconds without a renewal. A collector between two messages may be slow.
LeaseLapses(c, w) ==
  /\ job[c][w] # None /\ job[c][w].status = "running" /\ ~job[c][w].lapsed
  /\ job' = [job EXCEPT ![c][w].lapsed = TRUE]
  /\ UNCHANGED <<tg, chan, proc, scan, rows, edits, faults>>

FloodPasses(w) ==
  /\ proc[w].flood
  /\ proc' = [proc EXCEPT ![w].flood = FALSE]
  /\ UNCHANGED <<tg, chan, job, scan, rows, edits, faults>>

\* A shutdown cancels the cycle: CancelledError is no Exception, and the finally
\* clause still ends the job.
Stop(w) ==
  /\ proc[w].up /\ ~proc[w].leaving /\ Fault
  /\ IF InScan(w)
     THEN /\ proc' = [proc EXCEPT ![w].leaving = TRUE]
          /\ Goto(w, scan[w], "finish")
     ELSE /\ proc' = [proc EXCEPT ![w] = Down]
          /\ scan' = [scan EXCEPT ![w] = Idle]
  /\ UNCHANGED <<tg, chan, job, rows, edits>>

Crash(w) ==
  /\ proc[w].up /\ Fault
  /\ proc' = [proc EXCEPT ![w] = Down]
  /\ scan' = [scan EXCEPT ![w] = Idle]
  /\ UNCHANGED <<tg, chan, job, rows, edits>>

-----------------------------------------------------------------------------
(* The owner *)

\* add_channel of the table: a new row has no chat_id, an old one is activated.
Added(c) ==
  IF chan[c] = None THEN FreshRow(rows + 1, FALSE) ELSE [chan[c] EXCEPT !.active = TRUE]

AddChannel(c) ==
  /\ chan[c] = None => rows < MaxRows
  /\ chan[c] # None => ~chan[c].active
  /\ rows' = IF chan[c] = None THEN rows + 1 ELSE rows
  /\ chan' = [chan EXCEPT ![c] = Added(c)]
  /\ UNCHANGED <<tg, job, proc, scan, edits, faults>>

DeactivateChannel(c) ==
  /\ chan[c] # None /\ chan[c].active /\ edits < MaxEdits
  /\ edits' = edits + 1
  /\ chan' = [chan EXCEPT ![c].active = FALSE]
  /\ UNCHANGED <<tg, job, proc, scan, rows, faults>>

\* delete_channel, confirmed and without active schedules: the foreign keys
\* delete posts, comments and jobs with the row.
DeleteChannel(c) ==
  /\ chan[c] # None
  /\ chan' = [chan EXCEPT ![c] = None]
  /\ job' = [job EXCEPT ![c] = [w \in Collectors |-> None]]
  /\ UNCHANGED <<tg, proc, scan, rows, edits, faults>>

-----------------------------------------------------------------------------
(* Telegram *)

Publish(c) ==
  /\ tg[c].top < MaxMsg
  /\ tg' = [tg EXCEPT ![c].top = @ + 1, ![c].posts = @ \cup {tg[c].top + 1}]
  /\ scan' = Disturbed(c, tg[c].top + 1)
  /\ UNCHANGED <<chan, job, proc, rows, edits, faults>>

Remove(c, m) ==
  /\ m \in tg[c].posts /\ edits < MaxEdits
  /\ tg' = [tg EXCEPT ![c].posts = @ \ {m}, ![c].said[m] = {}]
  /\ edits' = edits + 1
  /\ scan' = Disturbed(c, m)
  /\ UNCHANGED <<chan, job, proc, rows, faults>>

Comment(c, m, k) ==
  /\ m \in tg[c].posts /\ edits < MaxEdits
  /\ \/ k \notin tg[c].said[m] /\ tg' = [tg EXCEPT ![c].said[m] = @ \cup {k}]
     \/ k \in tg[c].said[m] /\ tg' = [tg EXCEPT ![c].said[m] = @ \ {k}]
  /\ edits' = edits + 1
  /\ scan' = Disturbed(c, m)
  /\ UNCHANGED <<chan, job, proc, rows, faults>>

World ==
  \E c \in Channels :
    \/ AddChannel(c) \/ DeactivateChannel(c) \/ DeleteChannel(c) \/ Publish(c)
    \/ \E m \in Msgs : Remove(c, m) \/ \E k \in Comments : Comment(c, m, k)

Next ==
  \/ \E w \in Collectors :
       \/ Start(w) \/ Poll(w) \/ Breaks(w) \/ FloodPasses(w) \/ Stop(w) \/ Crash(w)
       \/ \E c \in Channels : LeaseLapses(c, w)
  \/ World

Spec == Init /\ [][Next]_vars

\* Compose restarts a process that ended; the scheduler starts a cycle every few
\* minutes and a cycle goes on; a flood wait and an unattended lease run out.
Fairness ==
  \A w \in Collectors :
    /\ WF_vars(Start(w)) /\ WF_vars(Poll(w)) /\ WF_vars(FloodPasses(w))
    /\ \A c \in Channels : WF_vars(LeaseLapses(c, w) /\ scan[w].ch # c)

FairSpec == Spec /\ Fairness

-----------------------------------------------------------------------------
(* Properties *)

\* A scan that had the row to itself, or that met no change on Telegram, retires
\* no post that Telegram still has, however short its read was and whatever was
\* published, removed or stored by another scan meanwhile (poll_channel,
\* mark_unseen_posts_deleted).
RetiresOnlyGone ==
  [][\A w \in Collectors :
       /\ scan[w].pc = "retire" /\ scan'[w].pc = "finish" /\ Mine(w)
       /\ scan[w].alone \/ scan[w].calm
       => \A m \in tg[scan[w].ch].posts :
            chan[scan[w].ch].posts[m] = "live" => chan'[scan[w].ch].posts[m] = "live"]_vars

\* A sync that ends in a thread which nothing changed and no other sync read
\* since it was fetched leaves of its comments exactly those that Telegram shows:
\* whatever an interrupted or an overlapping sync had stored, left or wrongly
\* retired there before, under whichever token, is mended (sync_comments,
\* upsert_comment, mark_unseen_comments_deleted).
ThreadIsFaithful ==
  [][\A w \in Collectors :
       LET c == scan[w].ch
           m == scan[w].msg
       IN  /\ scan[w].pc = "replies" /\ scan'[w].pc = "read" /\ faults' = faults
           /\ scan[w].quiet /\ Mine(w)
           => \A k \in Comments :
                chan'[c].comments[m][k] \in Tokens <=> k \in tg[c].said[m]]_vars

\* After a scan that ended by itself and met no change on Telegram the archive
\* is what Telegram shows, from the oldest post it read on, whatever scans of
\* other processes did to the row meanwhile.
ScanIsFaithful ==
  [][\A w \in Collectors :
       LET c == scan[w].ch
       IN  /\ scan[w].pc = "retire" /\ scan'[w].pc = "finish" /\ faults' = faults
           /\ ~proc[w].leaving /\ scan[w].calm /\ Mine(w) /\ scan[w].seen # {}
           => \A m \in Msgs : m >= Oldest(scan[w].seen) /\ m >= scan[w].since =>
                (chan'[c].posts[m] = "live" <=> m \in tg[c].posts)]_vars

\* A scan loses its job only after its lease had lapsed: neither a process that
\* starts nor one that claims takes a job whose lease is renewed
\* (expire_stale_collection_jobs, claim_collection_job, renew_collection_job).
ScanKeepsItsJob ==
  \A w \in Collectors : InScan(w) /\ Mine(w) =>
    LET j == job[scan[w].ch][w] IN j # None /\ (j.status = "running" \/ j.lapsed)

\* An active channel is scanned again and again: neither a crashed collector's
\* job nor a flood wait stops it for good.
ChannelsAreCollected ==
  \A c \in Channels :
    []<>(chan[c] = None \/ ~chan[c].active \/ \E w \in Collectors :
           scan[w].pc = "finish" /\ scan[w].ch = c)

\* "Insert with chat_id NULL so next poll resolves it" (add_channel): a poll of
\* a channel that succeeds leaves it resolved.
PolledIsResolved ==
  \A w \in Collectors :
    scan[w].pc \in {"read", "retire"} /\ Mine(w) => chan[scan[w].ch].resolved
=============================================================================
