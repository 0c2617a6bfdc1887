------------------------------- MODULE Drafts -------------------------------
(***************************************************************************)
(* Drafts, their versions and images, the requests that schedule one, and  *)
(* the deletion of a conversation or of a channel with all it holds.       *)
(*                                                                         *)
(* A database transaction that takes its locks and reads in one statement  *)
(* and writes in a later one is two or more steps here: it sits in a       *)
(* request slot, req[q], from its first lock to its commit, and the locks  *)
(* are what the open requests hold.  Abort is everything that rolls a      *)
(* transaction back: a lost connection, a crash, a deadlock broken by the  *)
(* database.  One conversation of one channel is modelled; texts, images   *)
(* and times are opaque, an image counts one unit of the image quota.      *)
(***************************************************************************)
EXTENDS Naturals, FiniteSets, Sequences

CONSTANTS Drafts,       \* identities of drafts of the conversation
          Texts,        \* bodies the owner types or the agent writes
          Images,       \* identities of uploaded images
          Tabs,         \* browser tabs of the owner
          Keys,         \* idempotency keys: one per confirmation dialog
          Times,        \* publication times a dialog can ask for
          Reqs,         \* transactions open at the same time
          None,
          Quota,        \* images the workspace has room for (500 MB)
          MaxPics,      \* images of one post (10)
          MaxRevision   \* bound on the revision of a draft

ASSUME DraftsAssumption ==
  /\ {Quota, MaxPics, MaxRevision} \subseteq Nat
  /\ None \notin Drafts \cup Tabs \cup Keys

VARIABLES draft,      \* rows of studio_drafts
          versions,   \* rows of studio_draft_versions, by version number
          image,      \* studio_media: the draft of an image, None once orphaned
          stored,     \* the images that are stored
          active,     \* studio_conversations.active_draft_id
          chat,       \* the conversation: open or gone
          channel,    \* the channel's row: present or gone
          post,       \* scheduled_posts, by idempotency key
          req,        \* open transactions
          tab,        \* the saved draft a tab shows
          dialog,     \* the saved draft a confirmation dialog shows
          told        \* the last answer to a scheduling request

draftVars == <<draft, versions, image, stored, active, chat, channel, post,
               req, tab, dialog, told>>

Content == [body : Texts, pics : SUBSET Images]
Row     == [rev : Nat, body : Texts, pics : SUBSET Images, cur : Nat]
View    == [of : Drafts, rev : Nat, body : Texts, pics : SUBSET Images]
Post    == [of : Drafts, body : Texts, pics : SUBSET Images, at : Times,
            state : {"active", "failed", "ended"}, retried : BOOLEAN]

Told == [at : Times, says : {"accepted", "refused", "late"}]

Requests ==
  [op : {"write"}, of : Drafts, was : Row, by : Tabs \cup {None},
   seen : View \cup {None}, body : Texts, pics : SUBSET Images, new : BOOLEAN]
  \cup [op : {"choose"}, of : Drafts, was : Row, by : Tabs, to : Nat \ {0}]
  \cup [op : {"upload"}, of : Drafts, image : Images, room : BOOLEAN]
  \cup [op : {"schedule"}, of : Drafts, key : Keys, at : Times,
        stage : {"keyed", "locked", "inserted"}, content : Content \cup {None}]
  \cup [op : {"purge"}]

ASSUME DraftsNoneAssumption == None \notin Row \cup View \cup Post \cup Requests

DraftsTypeOK ==
  /\ draft \in [Drafts -> Row \cup {None}]
  /\ versions \in [Drafts -> Seq(Content)]
  /\ image \in [Images -> Drafts \cup {None}]
  /\ stored \subseteq Images
  /\ active \in Drafts \cup {None}
  /\ chat \in {"open", "gone"}
  /\ channel \in {"present", "gone"}
  /\ post \in [Keys -> Post \cup {None}]
  /\ req \in [Reqs -> Requests \cup {None}]
  /\ tab \in [Tabs -> View \cup {None}]
  /\ dialog \in [Keys -> View \cup {None}]
  /\ told \in [Keys -> Told \cup {None}]

DraftsInit ==
  /\ draft = [d \in Drafts |-> None]
  /\ versions = [d \in Drafts |-> <<>>]
  /\ image = [i \in Images |-> None]
  /\ stored = {}
  /\ active = None
  /\ chat = "open"
  /\ channel = "present"
  /\ post = [k \in Keys |-> None]
  /\ req = [q \in Reqs |-> None]
  /\ tab = [t \in Tabs |-> None]
  /\ dialog = [k \in Keys |-> None]
  /\ told = [k \in Keys |-> None]

-----------------------------------------------------------------------------
(* Locks and reads. *)

ContentOf(x) == [body |-> x.body, pics |-> x.pics]
Shown(d) == [of |-> d, rev |-> draft[d].rev, body |-> draft[d].body,
             pics |-> draft[d].pics]

\* assets: images of another draft, and those that are gone, are refused.
ImagesOf(d) == {i \in stored : image[i] = d}
Attachable(d, pics) == pics \subseteq ImagesOf(d)

\* get_draft finds a draft by its identity, get_current_draft the active one.
Found(d) == draft[d] # None
CurrentDraft == active

Open(op) == {q \in Reqs : req[q] # None /\ req[q].op = op}

\* SELECT ... FROM studio_drafts ... FOR UPDATE is held until the commit.
HoldsDraft(q, d) ==
  /\ req[q] # None
  /\ req[q].op # "purge"
  /\ req[q].of = d
  /\ req[q].op = "schedule" => req[q].stage # "keyed"
Locked(d) == \E q \in Reqs : HoldsDraft(q, d)

\* Variant: the sum is read without the lock
SpaceLocked_Never == FALSE
\* The row of the workspace is locked from the sum of its images on.
SpaceLocked == \E q \in Open("upload") : req[q].room

\* The advisory lock on an idempotency key.
KeyLocked(k) == \E q \in Open("schedule") : req[q].key = k

\* An inserted post holds its channel's row against a deletion (foreign key).
ChannelShared == \E q \in Open("schedule") : req[q].stage = "inserted"

Start(q, r) == req' = [req EXCEPT ![q] = r]
Close(q) == req' = [req EXCEPT ![q] = None]

-----------------------------------------------------------------------------
(* Drafts and versions. *)

\* create_draft: the agent's first text of a new draft.
CreateDraft(d, body) ==
  /\ draft[d] = None /\ versions[d] = <<>>
  /\ chat = "open" /\ channel = "present" /\ Open("purge") = {}
  /\ draft' = [draft EXCEPT ![d] =
                 [rev |-> 1, body |-> body, pics |-> {}, cur |-> 1]]
  /\ versions' = [versions EXCEPT ![d] = <<[body |-> body, pics |-> {}]>>]
  /\ active' = d
  /\ UNCHANGED <<image, stored, chat, channel, post, req, tab, dialog, told>>

\* A tab opens a draft by its identity.
Load(t, d) ==
  /\ Found(d)
  /\ tab' = [tab EXCEPT ![t] = Shown(d)]
  /\ UNCHANGED <<draft, versions, image, stored, active, chat, channel, post,
                 req, dialog, told>>

\* A tab opens the conversation and shows its active draft.
LoadActive(t) ==
  /\ chat = "open" /\ CurrentDraft # None
  /\ tab' = [tab EXCEPT ![t] = Shown(CurrentDraft)]
  /\ UNCHANGED <<draft, versions, image, stored, active, chat, channel, post,
                 req, dialog, told>>

\* Variant: no expected revision
Stale_Never(t) == FALSE
\* DraftConflictError: the tab was given an older revision.
Stale(t) == draft[tab[t].of].rev # tab[t].rev

\* The answer to a stale save carries the row, which the tab then shows.
Conflict(t) ==
  /\ tab[t] # None /\ draft[tab[t].of] # None /\ ~Locked(tab[t].of)
  /\ Stale(t)
  /\ tab' = [tab EXCEPT ![t] = Shown(tab[t].of)]
  /\ UNCHANGED <<draft, versions, image, stored, active, chat, channel, post,
                 req, dialog, told>>

\* A tab's request has the lock on its draft and the revision it expects.
Current(q, t) ==
  /\ req[q] = None
  /\ tab[t] # None /\ draft[tab[t].of] # None /\ ~Locked(tab[t].of)
  /\ ~Stale(t)
  /\ draft[tab[t].of].rev < MaxRevision

\* save_draft: the owner saves what a tab holds, in place or as a new version.
Save(q, t, body, pics, new) ==
  /\ Current(q, t)
  /\ Attachable(tab[t].of, pics) /\ Cardinality(pics) <= MaxPics
  /\ Start(q, [op |-> "write", of |-> tab[t].of, was |-> draft[tab[t].of],
               by |-> t, seen |-> tab[t], body |-> body, pics |-> pics,
               new |-> new])
  /\ UNCHANGED <<draft, versions, image, stored, active, chat, channel, post,
                 tab, dialog, told>>

\* The agent writes: a new version, with the images that the row has.
AgentWrites(q, d, body) ==
  /\ req[q] = None
  /\ draft[d] # None /\ ~Locked(d) /\ draft[d].rev < MaxRevision
  /\ Start(q, [op |-> "write", of |-> d, was |-> draft[d], by |-> None,
               seen |-> None, body |-> body, pics |-> draft[d].pics,
               new |-> TRUE])
  /\ UNCHANGED <<draft, versions, image, stored, active, chat, channel, post,
                 tab, dialog, told>>

\* revise_draft expects no revision.
Revise(q, d, body) == AgentWrites(q, d, body)

\* The agent's save_draft expects the revision that the model names.
AgentSave(q, d, body, expected) ==
  /\ draft[d] # None /\ draft[d].rev = expected
  /\ AgentWrites(q, d, body)

\* update_draft's writes: the version's row first, then the draft's.
CommitWrite(q) ==
  /\ q \in Open("write")
  /\ LET r == req[q]
         text == ContentOf(r)
         vs == IF r.new THEN Append(versions[r.of], text)
                        ELSE [versions[r.of] EXCEPT ![r.was.cur] = text]
         row == [rev |-> r.was.rev + 1, body |-> r.body, pics |-> r.pics,
                 cur |-> IF r.new THEN Len(vs) ELSE r.was.cur]
     IN  /\ versions' = [versions EXCEPT ![r.of] = vs]
         /\ draft' = [draft EXCEPT ![r.of] = row]
         /\ tab' = [t \in Tabs |-> IF t # r.by THEN tab[t] ELSE
                      [of |-> r.of, rev |-> row.rev, body |-> r.body,
                       pics |-> r.pics]]
  /\ Close(q)
  /\ UNCHANGED <<image, stored, active, chat, channel, post, dialog, told>>

\* list_draft_versions: what the owner, and the agent, can choose from.
Listed(d) == DOMAIN versions[d]

\* choose_draft_version; the version that is current already changes nothing.
Choose(q, t, v) ==
  /\ Current(q, t)
  /\ v \in Listed(tab[t].of) /\ v # draft[tab[t].of].cur
  /\ Start(q, [op |-> "choose", of |-> tab[t].of, was |-> draft[tab[t].of],
               by |-> t, to |-> v])
  /\ UNCHANGED <<draft, versions, image, stored, active, chat, channel, post,
                 tab, dialog, told>>

\* Variant: the images are left as they are
ChosenRow_KeepsImages(d, was, v) ==
  [rev |-> was.rev + 1, body |-> versions[d][v].body, pics |-> was.pics,
   cur |-> v]
\* The row that shows version v: its text, its images and its number.
ChosenRow(d, was, v) ==
  [rev |-> was.rev + 1, body |-> versions[d][v].body,
   pics |-> versions[d][v].pics, cur |-> v]

CommitChoose(q) ==
  /\ q \in Open("choose")
  /\ LET r == req[q]
         row == ChosenRow(r.of, r.was, r.to)
     IN  /\ draft' = [draft EXCEPT ![r.of] = row]
         /\ tab' = [tab EXCEPT ![r.by] =
                      [of |-> r.of, rev |-> row.rev, body |-> row.body,
                       pics |-> row.pics]]
  /\ Close(q)
  /\ UNCHANGED <<versions, image, stored, active, chat, channel, post, dialog,
                 told>>

-----------------------------------------------------------------------------
(* Images. *)

\* upload: the lock on the draft, then the one on the workspace and the sum.
Upload(q, d, i) ==
  /\ req[q] = None
  /\ Found(d) /\ ~Locked(d)
  /\ i \notin stored /\ \A p \in Open("upload") : req[p].image # i
  /\ Start(q, [op |-> "upload", of |-> d, image |-> i, room |-> FALSE])
  /\ UNCHANGED <<draft, versions, image, stored, active, chat, channel, post,
                 tab, dialog, told>>

\* Orphaned images count: the sum is over the workspace.
MeasureSpace(q) ==
  /\ q \in Open("upload") /\ ~req[q].room /\ ~SpaceLocked
  /\ IF Cardinality(stored) + 1 > Quota
       THEN Close(q) ELSE req' = [req EXCEPT ![q].room = TRUE]
  /\ UNCHANGED <<draft, versions, image, stored, active, chat, channel, post,
                 tab, dialog, told>>

CommitUpload(q) ==
  /\ q \in Open("upload") /\ req[q].room
  /\ stored' = stored \cup {req[q].image}
  /\ image' = [image EXCEPT ![req[q].image] = req[q].of]
  /\ Close(q)
  /\ UNCHANGED <<draft, versions, active, chat, channel, post, tab, dialog,
                 told>>

-----------------------------------------------------------------------------
(* Scheduling a draft. *)

\* The dialog opens on the saved draft a tab shows, with a key of its own.
Confirm(t, k) ==
  /\ tab[t] # None /\ dialog[k] = None
  /\ dialog' = [dialog EXCEPT ![k] = tab[t]]
  /\ UNCHANGED <<draft, versions, image, stored, active, chat, channel, post,
                 req, tab, told>>

Answer(k, at, says) == told' = [told EXCEPT ![k] = [at |-> at, says |-> says]]

\* local_to_utc comes before anything is looked up: a time that is less than
\* two minutes away is refused, that of a post the key already has included.
\* Which times are depends on the clock: any.
TooLate(k, at) ==
  /\ dialog[k] # None
  /\ Answer(k, at, "late")
  /\ UNCHANGED <<draft, versions, image, stored, active, chat, channel, post,
                 req, tab, dialog>>

\* Variant: the draft is looked at before the key
Repeat_ChecksTheDraft(k, at) ==
  /\ dialog[k] # None /\ post[k] # None /\ ~KeyLocked(k)
  /\ draft[dialog[k].of] # None
  /\ Answer(k, at, IF draft[dialog[k].of].rev = dialog[k].rev
                     THEN "accepted" ELSE "refused")
  /\ UNCHANGED <<draft, versions, image, stored, active, chat, channel, post,
                 req, tab, dialog>>
\* The post a key already has answers a repeated request that is in time,
\* whatever became of the draft's text; a request with other details than the
\* post now has is told so, and one for a draft that has gone is not found.
Repeat(k, at) ==
  /\ dialog[k] # None /\ post[k] # None /\ ~KeyLocked(k)
  /\ Answer(k, at, IF draft[dialog[k].of] # None /\ post[k].at = at
                     THEN "accepted" ELSE "refused")
  /\ UNCHANGED <<draft, versions, image, stored, active, chat, channel, post,
                 req, tab, dialog>>

\* create, in time: the key's lock and the search for its post come first.
Schedule(q, k, at) ==
  /\ req[q] = None
  /\ dialog[k] # None /\ post[k] = None /\ ~KeyLocked(k)
  /\ draft[dialog[k].of] # None
  /\ Start(q, [op |-> "schedule", of |-> dialog[k].of, key |-> k, at |-> at,
               stage |-> "keyed", content |-> None])
  /\ UNCHANGED <<draft, versions, image, stored, active, chat, channel, post,
                 tab, dialog, told>>

\* Variant: any revision will do
SameRevision_Unchecked(q) == draft[req[q].of] # None
\* What the post will hold is read from the locked row, never from the request.
\* The snapshot is taken only of the revision the dialog showed.
SameRevision(q) ==
  LET d == req[q].of IN
  draft[d] # None /\ draft[d].rev = dialog[req[q].key].rev

LockDraft(q) ==
  /\ q \in Open("schedule") /\ req[q].stage = "keyed" /\ ~Locked(req[q].of)
  /\ SameRevision(q) /\ channel = "present"
  /\ req' = [req EXCEPT ![q].stage = "locked",
                        ![q].content = ContentOf(draft[req[q].of])]
  /\ UNCHANGED <<draft, versions, image, stored, active, chat, channel, post,
                 tab, dialog, told>>

\* Another revision, or no channel that may be published to by a permission
\* the worker checked in the last three minutes.
RefuseSchedule(q) ==
  /\ q \in Open("schedule") /\ req[q].stage = "keyed" /\ ~Locked(req[q].of)
  /\ Close(q) /\ Answer(req[q].key, req[q].at, "refused")
  /\ UNCHANGED <<draft, versions, image, stored, active, chat, channel, post,
                 tab, dialog>>

\* The foreign key waits for a deletion that holds the channel's row.
InsertPost(q) ==
  /\ q \in Open("schedule") /\ req[q].stage = "locked"
  /\ channel = "present" /\ Open("purge") = {}
  /\ req' = [req EXCEPT ![q].stage = "inserted"]
  /\ UNCHANGED <<draft, versions, image, stored, active, chat, channel, post,
                 tab, dialog, told>>

CommitPost(q) ==
  /\ q \in Open("schedule") /\ req[q].stage = "inserted"
  /\ LET r == req[q] IN
       /\ post' = [post EXCEPT ![r.key] =
                     [of |-> r.of, body |-> r.content.body,
                      pics |-> r.content.pics, at |-> r.at,
                      state |-> "active", retried |-> FALSE]]
       /\ Answer(r.key, r.at, "accepted")
  /\ Close(q)
  /\ UNCHANGED <<draft, versions, image, stored, active, chat, channel, tab,
                 dialog>>

\* The worker brings a post to an end or finds that it failed.
Settle(k, state) ==
  /\ post[k] # None /\ post[k].state = "active" /\ state # "active"
  /\ post' = [post EXCEPT ![k].state = state]
  /\ UNCHANGED <<draft, versions, image, stored, active, chat, channel, req,
                 tab, dialog, told>>

\* retry: a failed post is queued again, with the text and the time that the
\* owner confirms now and the images it held. (Bound: once.)
Retry(k, body, at) ==
  /\ post[k] # None /\ post[k].state = "failed" /\ ~post[k].retried
  /\ post' = [post EXCEPT ![k].body = body, ![k].at = at,
                          ![k].state = "active", ![k].retried = TRUE]
  /\ UNCHANGED <<draft, versions, image, stored, active, chat, channel, req,
                 tab, dialog, told>>

-----------------------------------------------------------------------------
(* Deletion. *)

\* What goes with the conversation; its posts and the images' bytes stay.
DropDrafts ==
  /\ \A d \in Drafts : ~Locked(d)
  /\ draft' = [d \in Drafts |-> None]
  /\ versions' = [d \in Drafts |-> <<>>]
  /\ image' = [i \in Images |-> None]
  /\ active' = None
  /\ chat' = "gone"

\* delete_conversation; it is refused while a run is active.
DeleteConversation ==
  /\ chat = "open" /\ Open("purge") = {}
  /\ DropDrafts
  /\ UNCHANGED <<stored, channel, post, req, tab, dialog, told>>

\* delete_channel: the lock on the channel, then the count of posts that
\* Telegram may still publish.
Purge(q) ==
  /\ req[q] = None
  /\ channel = "present" /\ ~ChannelShared /\ Open("purge") = {}
  /\ \A k \in Keys : post[k] # None => post[k].state # "active"
  /\ Start(q, [op |-> "purge"])
  /\ UNCHANGED <<draft, versions, image, stored, active, chat, channel, post,
                 tab, dialog, told>>

CommitPurge(q) ==
  /\ q \in Open("purge")
  /\ DropDrafts
  /\ post' = [k \in Keys |-> None]
  /\ channel' = "gone"
  /\ Close(q)
  /\ UNCHANGED <<stored, tab, dialog, told>>

Abort(q) ==
  /\ req[q] # None
  /\ Close(q)
  /\ UNCHANGED <<draft, versions, image, stored, active, chat, channel, post,
                 tab, dialog, told>>

-----------------------------------------------------------------------------
DraftsNext ==
  \/ \E d \in Drafts, body \in Texts : CreateDraft(d, body)
  \/ \E t \in Tabs, d \in Drafts : Load(t, d)
  \/ \E t \in Tabs : LoadActive(t)
  \/ \E t \in Tabs : Conflict(t)
  \/ \E q \in Reqs, t \in Tabs, body \in Texts, pics \in SUBSET Images,
        new \in BOOLEAN : Save(q, t, body, pics, new)
  \/ \E q \in Reqs, d \in Drafts, body \in Texts : Revise(q, d, body)
  \/ \E q \in Reqs, d \in Drafts, body \in Texts, expected \in 1..MaxRevision :
       AgentSave(q, d, body, expected)
  \/ \E q \in Reqs : CommitWrite(q)
  \/ \E q \in Reqs, t \in Tabs, v \in 1..MaxRevision : Choose(q, t, v)
  \/ \E q \in Reqs : CommitChoose(q)
  \/ \E q \in Reqs, d \in Drafts, i \in Images : Upload(q, d, i)
  \/ \E q \in Reqs : MeasureSpace(q)
  \/ \E q \in Reqs : CommitUpload(q)
  \/ \E t \in Tabs, k \in Keys : Confirm(t, k)
  \/ \E k \in Keys, at \in Times : TooLate(k, at)
  \/ \E k \in Keys, at \in Times : Repeat(k, at)
  \/ \E q \in Reqs, k \in Keys, at \in Times : Schedule(q, k, at)
  \/ \E q \in Reqs : LockDraft(q)
  \/ \E q \in Reqs : RefuseSchedule(q)
  \/ \E q \in Reqs : InsertPost(q)
  \/ \E q \in Reqs : CommitPost(q)
  \/ \E k \in Keys, state \in {"failed", "ended"} : Settle(k, state)
  \/ \E k \in Keys, body \in Texts, at \in Times : Retry(k, body, at)
  \/ DeleteConversation
  \/ \E q \in Reqs : Purge(q)
  \/ \E q \in Reqs : CommitPurge(q)
  \/ \E q \in Reqs : Abort(q)

DraftsSpec == DraftsInit /\ [][DraftsNext]_draftVars

-----------------------------------------------------------------------------
(* A draft's row always shows its current version: two requests that write *)
(* one draft at a time, in place or as a new version, and a choice between *)
(* versions never leave a text or images beside a number they do not       *)
(* belong to.                                                              *)
DraftShowsItsVersion ==
  \A d \in Drafts : draft[d] # None =>
    /\ draft[d].cur \in DOMAIN versions[d]
    /\ versions[d][draft[d].cur] = ContentOf(draft[d])

(* Nobody's text is replaced unseen: while a draft exists its versions     *)
(* stay, and the only step that changes one is the owner's plain save from *)
(* a tab that the server had given exactly that text and those images (a   *)
(* tab that keeps its own text in a conflict was given them as an answer). *)
NothingUnseenIsReplaced ==
  [][\A d \in Drafts : \A v \in DOMAIN versions[d] : draft'[d] # None =>
       /\ v \in DOMAIN versions'[d]
       /\ versions'[d][v] # versions[d][v] =>
            \E q \in Open("write") : /\ req[q].of = d /\ req[q].seen # None
                                     /\ ContentOf(req[q].seen) = versions[d][v]
    ]_draftVars

(* A scheduled post holds the text and the images that the dialog showed   *)
(* when the owner confirmed it, whatever was saved, chosen or generated    *)
(* between the confirmation and the commit; the images for good, the text  *)
(* until the owner replaces it by a retry of the failed post.              *)
ScheduledIsConfirmed ==
  \A k \in Keys : post[k] # None =>
    /\ post[k].of = dialog[k].of
    /\ post[k].pics = dialog[k].pics
    /\ ~post[k].retried => post[k].body = dialog[k].body

(* What was accepted stays.  A request repeated after its post was stored  *)
(* is answered by that post as long as the draft exists and the time is    *)
(* still ahead: accepted when it asks for what the post has, refused when  *)
(* it asks for another time, and never refused because the draft has       *)
(* changed since.  And deleting a channel takes no post away that Telegram *)
(* may still publish, one accepted while the deletion was running          *)
(* included; for a post that failed and is retried see DeletionIsBlocked.  *)
AcceptedIsKept ==
  [][\A k \in Keys : post[k] # None =>
       /\ /\ told'[k] # told[k] /\ told'[k].says # "late"
          /\ draft[dialog[k].of] # None
          => (told'[k].says = "accepted" <=> told'[k].at = post[k].at)
       /\ post[k].state = "active" /\ ~post[k].retried => post'[k] # None
    ]_draftVars

(* "Channel deletion is blocked until active/uncertain schedules are       *)
(* resolved" (docs/publishing.md): no post in flight goes with a channel.  *)
DeletionIsBlocked ==
  [][\A k \in Keys : post[k] # None /\ post[k].state = "active" =>
       post'[k] # None]_draftVars

(* Uploads to different drafts at the same time do not exceed the space of *)
(* the workspace, whose sum each of them reads.                            *)
QuotaHolds == Cardinality(stored) <= Quota
=============================================================================
