----------------------------- MODULE DraftsProofs -----------------------------
(***************************************************************************)
(* Proofs about drafts: for every number of drafts, tabs, dialogs, images  *)
(* and open transactions, the invariants of Drafts, and that no text is    *)
(* replaced unseen and no accepted post lost.                              *)
(*                                                                         *)
(* What a request has read must still be so when it writes.  So the        *)
(* invariant says of each open request what it still knows (RequestTrue),  *)
(* of two open requests that their locks keep them apart (Apart), and of   *)
(* each tab and dialog that a revision number stands for one text          *)
(* (ViewTrue): a check of the number is then a check of the text.          *)
(***************************************************************************)
EXTENDS Drafts, FiniteSetTheorems, SequenceTheorems, TLAPS

\* What a view says of the draft: an earlier revision of it, or the row there is.
ViewTrue(v) ==
  /\ draft[v.of] = None => chat = "gone"
  /\ draft[v.of] # None =>
       /\ v.rev <= draft[v.of].rev
       /\ v.rev = draft[v.of].rev => ContentOf(v) = ContentOf(draft[v.of])

ViewsInv ==
  /\ \A t \in Tabs : tab[t] # None => ViewTrue(tab[t])
  /\ \A k \in Keys : dialog[k] # None => ViewTrue(dialog[k])

\* The lock r has on draft d.
Holds(r, d) ==
  r.op # "purge" /\ r.of = d /\ (r.op = "schedule" => r.stage # "keyed")

Inserted(r) == r.op = "schedule" /\ r.stage = "inserted"
Protected(k) == post[k] # None /\ post[k].state = "active" /\ ~post[k].retried

\* What an open request has read is still so.
RequestTrue(r) ==
  /\ r.op \in {"write", "choose"} => draft[r.of] = r.was
  /\ r.op = "write" => IF r.seen = None THEN r.new
                                        ELSE ContentOf(r.seen) = ContentOf(r.was)
  /\ r.op = "choose" => r.to \in DOMAIN versions[r.of]
  /\ r.op = "schedule" =>
       /\ dialog[r.key] # None /\ post[r.key] = None /\ r.of = dialog[r.key].of
       /\ r.stage # "keyed" => r.content = ContentOf(dialog[r.key])
  /\ r.op = "upload" /\ r.room => Cardinality(stored) + 1 <= Quota
  /\ r.op = "purge" => \A k \in Keys : ~Protected(k)

\* Two open requests exclude each other by their locks.
Apart(r, s) ==
  /\ ~(r.op # "purge" /\ s.op # "purge" /\ r.of = s.of /\ Holds(r, r.of) /\ Holds(s, s.of))
  /\ ~(r.op = "schedule" /\ s.op = "schedule" /\ r.key = s.key)
  /\ ~(r.op = "upload" /\ s.op = "upload" /\ r.room /\ s.room)
  /\ ~(r.op = "purge" /\ Inserted(s)) /\ ~(s.op = "purge" /\ Inserted(r))

RequestsInv ==
  /\ \A q \in Reqs : req[q] # None => RequestTrue(req[q])
  /\ \A p, q \in Reqs : req[p] # None /\ req[q] # None /\ p # q =>
                          Apart(req[p], req[q])

\* A post has its dialog, and holds what it showed.
PostsInv ==
  /\ ScheduledIsConfirmed
  /\ \A k \in Keys : post[k] # None => dialog[k] # None

\* The conversation's active draft exists.
ActiveIsThere == active # None => draft[active] # None

SpaceInv == IsFiniteSet(stored) /\ QuotaHolds

DraftsInv ==
  /\ DraftsTypeOK /\ DraftShowsItsVersion /\ ViewsInv /\ RequestsInv
  /\ PostsInv /\ ActiveIsThere /\ SpaceInv

-----------------------------------------------------------------------------
(* Types. *)

\* What the fields of a request hold, by its operation.
RequestFields(r) ==
  /\ r.op \in {"write", "choose", "upload", "schedule", "purge"}
  /\ r.op # "purge" => r.of \in Drafts
  /\ r.op \in {"write", "choose"} => r.was \in Row
  /\ r.op = "write" => /\ r.by \in Tabs \cup {None} /\ r.seen \in View \cup {None}
                       /\ r.body \in Texts /\ r.pics \in SUBSET Images
                       /\ r.new \in BOOLEAN
  /\ r.op = "choose" => r.by \in Tabs /\ r.to \in Nat \ {0}
  /\ r.op = "upload" => r.image \in Images /\ r.room \in BOOLEAN
  /\ r.op = "schedule" => /\ r.key \in Keys /\ r.at \in Times
                          /\ r.stage \in {"keyed", "locked", "inserted"}
                          /\ r.content \in Content \cup {None}

\* A request of the model has these fields.
LEMMA FieldsOfRequest == ASSUME NEW r \in Requests PROVE RequestFields(r)
BY DEF Requests, RequestFields

\* Nothing that is stored is None.
LEMMA NoneIsNothing ==
  /\ None \notin Row /\ None \notin View /\ None \notin Post /\ None \notin Requests
  /\ None \notin Drafts /\ None \notin Tabs /\ None \notin Keys
BY DraftsAssumption, DraftsNoneAssumption

\* An open request, and a request slot after a step that fills or empties it.
LEMMA RequestType ==
  ASSUME DraftsTypeOK, NEW q \in Reqs, req[q] # None
  PROVE  req[q] \in Requests /\ RequestFields(req[q])
BY FieldsOfRequest DEF DraftsTypeOK

\* Locks exclude each other both ways.
LEMMA ApartBothWays == ASSUME NEW r, NEW s, Apart(r, s) PROVE Apart(s, r)
BY DEF Apart

\* The row of a draft, and what a tab is shown of it.
LEMMA RowShown ==
  ASSUME DraftsTypeOK, NEW d \in Drafts, draft[d] # None
  PROVE  /\ draft[d] \in Row /\ Shown(d) \in View /\ Shown(d) # None
         /\ ContentOf(draft[d]) \in Content
         /\ ViewTrue(Shown(d))
<1>1. draft[d] \in Row  BY DEF DraftsTypeOK
<1>2. Shown(d) \in View  BY <1>1 DEF Shown, Row, View
<1>3. /\ Shown(d).of = d /\ Shown(d).rev = draft[d].rev
      /\ ContentOf(Shown(d)) = ContentOf(draft[d])
  BY DEF Shown, ContentOf
<1>4. draft[d].rev \in Nat  BY <1>1 DEF Row
<1>5. ViewTrue(Shown(d))  BY <1>3, <1>4 DEF ViewTrue
<1> QED  BY <1>1, <1>2, <1>5, NoneIsNothing DEF Row, Content, ContentOf

-----------------------------------------------------------------------------
(* Frames: what several actions have in common. *)

\* The beginning.
LEMMA DraftsInitInv == ASSUME DraftsInit PROVE DraftsInv
<1>1. DraftsTypeOK
  BY DEF DraftsInit, DraftsTypeOK
<1>2. /\ DraftShowsItsVersion /\ ViewsInv /\ RequestsInv /\ PostsInv
      /\ ActiveIsThere
  BY DEF DraftsInit, ActiveIsThere, DraftShowsItsVersion, ViewsInv, RequestsInv, PostsInv,
         ScheduledIsConfirmed
<1>3. SpaceInv
  BY FS_EmptySet, DraftsAssumption DEF DraftsInit, SpaceInv, QuotaHolds
<1> QED  BY <1>1, <1>2, <1>3 DEF DraftsInv

\* What no request reads: the stored rows, but for posts, and the dialogs.
KeepsRows ==
  UNCHANGED <<draft, versions, image, stored, active, chat, channel>>

\* A step that fills a slot with a request that is true and apart from the
\* others, or empties it.
LEMMA SlotStep ==
  ASSUME DraftsInv, NEW q \in Reqs, NEW r \in Requests \cup {None},
         req' = [req EXCEPT ![q] = r],
         r # None => RequestTrue(r),
         r # None => \A p \in Reqs : p # q /\ req[p] # None => Apart(req[p], r),
         KeepsRows, UNCHANGED <<post, tab, dialog>>,
         told' \in [Keys -> Told \cup {None}]
  PROVE  DraftsInv'
<1> USE DEF KeepsRows
<1>1. DraftsTypeOK'
  BY DEF DraftsInv, DraftsTypeOK
<1>2. DraftShowsItsVersion' /\ PostsInv' /\ ActiveIsThere' /\ SpaceInv'
  BY DEF DraftsInv, DraftShowsItsVersion, PostsInv, ScheduledIsConfirmed,
         ActiveIsThere, SpaceInv, QuotaHolds
<1>3. ViewsInv'
  BY DEF DraftsInv, ViewsInv, ViewTrue
<1>4. ASSUME NEW s PROVE RequestTrue(s)' <=> RequestTrue(s)
  BY DEF RequestTrue, Protected
<1>5. /\ req'[q] = r
      /\ \A p \in Reqs : p # q => req'[p] = req[p]
  BY DEF DraftsInv, DraftsTypeOK
<1>6. ASSUME NEW p \in Reqs, req'[p] # None PROVE RequestTrue(req'[p])
  BY <1>5, <1>6 DEF DraftsInv, RequestsInv
<1>7. ASSUME NEW p \in Reqs, req'[p] # None PROVE RequestTrue(req[p])'
  BY <1>4, <1>6, <1>7
<1>8. ASSUME NEW p \in Reqs, NEW s \in Reqs, req'[p] # None, req'[s] # None, p # s
      PROVE  Apart(req'[p], req'[s])
  <2>1. CASE p # q /\ s # q
    BY <1>5, <1>8, <2>1 DEF DraftsInv, RequestsInv
  <2>2. CASE s = q
    BY <1>5, <1>8, <2>2
  <2>3. CASE p = q
    BY <1>5, <1>8, <2>3, ApartBothWays
  <2> QED  BY <2>1, <2>2, <2>3
<1>9. RequestsInv'
  <2>1. \A p, s \in Reqs : (req[p] # None /\ req[s] # None /\ p # s =>
                              Apart(req[p], req[s]))'
    BY <1>8 DEF Apart, Holds, Inserted
  <2> QED  BY <1>7, <2>1 DEF RequestsInv
<1> QED  BY <1>1, <1>2, <1>3, <1>9 DEF DraftsInv

\* An emptied slot.
LEMMA SlotEmptied ==
  ASSUME DraftsInv, NEW q \in Reqs, Close(q), KeepsRows,
         UNCHANGED <<post, tab, dialog>>,
         told' \in [Keys -> Told \cup {None}]
  PROVE  DraftsInv'
<1>1. req' = [req EXCEPT ![q] = None]  BY DEF Close
<1> QED  BY <1>1, SlotStep

\* A step of a tab, a dialog or an answer that opens and ends no request.
LEMMA ShowStep ==
  ASSUME DraftsInv, KeepsRows, UNCHANGED <<post, req>>,
         tab' \in [Tabs -> View \cup {None}],
         \A t \in Tabs : tab'[t] # None => ViewTrue(tab'[t]),
         dialog' \in [Keys -> View \cup {None}],
         \A k \in Keys : dialog'[k] # None => ViewTrue(dialog'[k]),
         \A k \in Keys : dialog[k] # None => dialog'[k] = dialog[k],
         told' \in [Keys -> Told \cup {None}]
  PROVE  DraftsInv'
<1> USE DEF KeepsRows
<1>1. DraftsTypeOK'
  BY DEF DraftsInv, DraftsTypeOK
<1>2. DraftShowsItsVersion' /\ ActiveIsThere' /\ SpaceInv'
  BY DEF ActiveIsThere, DraftsInv, DraftShowsItsVersion, SpaceInv, QuotaHolds
<1>3. PostsInv'
  BY DEF DraftsInv, PostsInv, ScheduledIsConfirmed
<1>4. ViewsInv'
  <2>1. ASSUME NEW v PROVE ViewTrue(v)' <=> ViewTrue(v)
    BY DEF ViewTrue
  <2>2. \A t \in Tabs : (tab[t] # None => ViewTrue(tab[t]))'
    BY DEF ViewTrue
  <2>3. \A k \in Keys : (dialog[k] # None => ViewTrue(dialog[k]))'
    BY DEF ViewTrue
  <2> QED  BY <2>2, <2>3 DEF ViewsInv
<1>5. ASSUME NEW p \in Reqs, req[p] # None PROVE RequestTrue(req[p])'
  <2>1. RequestTrue(req[p]) /\ RequestFields(req[p])
    BY <1>5, RequestType DEF DraftsInv, RequestsInv
  <2>2. req[p].op = "schedule" => dialog'[req[p].key] = dialog[req[p].key]
    BY <2>1 DEF RequestTrue, RequestFields
  <2> QED  BY <2>1, <2>2 DEF RequestTrue, Protected
<1>6. RequestsInv'
  BY <1>5 DEF DraftsInv, RequestsInv, Apart, Holds, Inserted
<1> QED  BY <1>1, <1>2, <1>3, <1>4, <1>6 DEF DraftsInv

-----------------------------------------------------------------------------
(* Requests that open, go a step on, or are given up. *)

\* Nobody holds a lock on draft d: what Locked says of the other requests.
LEMMA NobodyHolds ==
  ASSUME NEW d, ~Locked(d), NEW p \in Reqs, req[p] # None
  PROVE  ~Holds(req[p], d)
BY DEF Locked, HoldsDraft, Holds

\* The row a current tab has read: its revision stands for its text.
LEMMA CurrentTab ==
  ASSUME DraftsInv, NEW q \in Reqs, NEW t \in Tabs, Current(q, t)
  PROVE  /\ tab[t] \in View /\ tab[t] # None /\ tab[t].of \in Drafts
         /\ draft[tab[t].of] \in Row /\ draft[tab[t].of] # None
         /\ ContentOf(tab[t]) = ContentOf(draft[tab[t].of])
         /\ ~Locked(tab[t].of)
<1>1. tab[t] \in View /\ tab[t] # None  BY DEF Current, DraftsInv, DraftsTypeOK
<1>2. tab[t].of \in Drafts  BY <1>1 DEF View
<1>3. draft[tab[t].of] \in Row /\ draft[tab[t].of] # None
  BY <1>2 DEF Current, DraftsInv, DraftsTypeOK
<1>4. ViewTrue(tab[t])  BY <1>1 DEF DraftsInv, ViewsInv
<1> QED  BY <1>1, <1>2, <1>3, <1>4 DEF Current, Stale, ViewTrue

\* A request of the owner or the agent that takes the lock of its draft.
LEMMA LockTaken ==
  ASSUME DraftsInv, NEW r \in Requests, ~Locked(r.of),
         r.op \in {"write", "choose"}, NEW p \in Reqs, req[p] # None
  PROVE  Apart(req[p], r)
<1>1. ~Holds(req[p], r.of)  BY NobodyHolds
<1> QED  BY <1>1 DEF Apart, Inserted

\* save_draft begins: the tab's revision stands for what the tab was given.
LEMMA SaveKeeps ==
  ASSUME DraftsInv, NEW q \in Reqs, NEW t \in Tabs, NEW body \in Texts,
         NEW pics \in SUBSET Images, NEW new \in BOOLEAN,
         Save(q, t, body, pics, new)
  PROVE  DraftsInv'
<1>1. Current(q, t)  BY DEF Save
<1> DEFINE r == [op |-> "write", of |-> tab[t].of, was |-> draft[tab[t].of],
                 by |-> t, seen |-> tab[t], body |-> body, pics |-> pics,
                 new |-> new]
<1>2. r \in Requests  BY <1>1, CurrentTab DEF Requests
<1>3. req' = [req EXCEPT ![q] = r]  BY DEF Save, Start
<1>4. /\ r.op = "write" /\ r.of = tab[t].of /\ r.was = draft[tab[t].of]
      /\ r.seen = tab[t]
  OBVIOUS
<1> HIDE DEF r
<1>5. RequestTrue(r)  BY <1>1, <1>4, CurrentTab DEF RequestTrue
<1>6. \A p \in Reqs : req[p] # None => Apart(req[p], r)
  BY <1>1, <1>2, <1>4, CurrentTab, LockTaken
<1>7. /\ KeepsRows /\ UNCHANGED <<post, tab, dialog>>
      /\ told' \in [Keys -> Told \cup {None}]
  BY DEF Save, KeepsRows, DraftsInv, DraftsTypeOK
<1> QED  BY <1>2, <1>3, <1>5, <1>6, <1>7, SlotStep

\* The agent's writes begin: a new version, which replaces nothing.
LEMMA AgentWritesKeeps ==
  ASSUME DraftsInv, NEW q \in Reqs, NEW d \in Drafts, NEW body \in Texts,
         AgentWrites(q, d, body)
  PROVE  DraftsInv'
<1>1. draft[d] \in Row /\ ~Locked(d)  BY DEF AgentWrites, DraftsInv, DraftsTypeOK
<1> DEFINE r == [op |-> "write", of |-> d, was |-> draft[d], by |-> None,
                 seen |-> None, body |-> body, pics |-> draft[d].pics,
                 new |-> TRUE]
<1>2. r \in Requests
  <2>1. draft[d].pics \in SUBSET Images  BY <1>1 DEF Row
  <2> QED  BY <1>1, <2>1 DEF Requests
<1>3. req' = [req EXCEPT ![q] = r]  BY DEF AgentWrites, Start
<1>4. /\ r.op = "write" /\ r.of = d /\ r.was = draft[d] /\ r.seen = None /\ r.new
  OBVIOUS
<1> HIDE DEF r
<1>5. RequestTrue(r)  BY <1>4 DEF RequestTrue
<1>6. \A p \in Reqs : req[p] # None => Apart(req[p], r)
  BY <1>1, <1>2, <1>4, LockTaken
<1>7. /\ KeepsRows /\ UNCHANGED <<post, tab, dialog>>
      /\ told' \in [Keys -> Told \cup {None}]
  BY DEF AgentWrites, KeepsRows, DraftsInv, DraftsTypeOK
<1> QED  BY <1>2, <1>3, <1>5, <1>6, <1>7, SlotStep

\* choose_draft_version begins.
LEMMA ChooseKeeps ==
  ASSUME DraftsInv, NEW q \in Reqs, NEW t \in Tabs, NEW v \in Nat \ {0},
         Choose(q, t, v)
  PROVE  DraftsInv'
<1>1. Current(q, t) /\ v \in DOMAIN versions[tab[t].of]  BY DEF Choose, Listed
<1> DEFINE r == [op |-> "choose", of |-> tab[t].of, was |-> draft[tab[t].of],
                 by |-> t, to |-> v]
<1>2. r \in Requests  BY <1>1, CurrentTab DEF Requests
<1>3. req' = [req EXCEPT ![q] = r]  BY DEF Choose, Start
<1>4. /\ r.op = "choose" /\ r.of = tab[t].of /\ r.was = draft[tab[t].of]
      /\ r.to = v
  OBVIOUS
<1> HIDE DEF r
<1>5. RequestTrue(r)  BY <1>1, <1>4 DEF RequestTrue
<1>6. \A p \in Reqs : req[p] # None => Apart(req[p], r)
  BY <1>1, <1>2, <1>4, CurrentTab, LockTaken
<1>7. /\ KeepsRows /\ UNCHANGED <<post, tab, dialog>>
      /\ told' \in [Keys -> Told \cup {None}]
  BY DEF Choose, KeepsRows, DraftsInv, DraftsTypeOK
<1> QED  BY <1>2, <1>3, <1>5, <1>6, <1>7, SlotStep

\* upload begins with the lock on its draft.
LEMMA UploadKeeps ==
  ASSUME DraftsInv, NEW q \in Reqs, NEW d \in Drafts, NEW i \in Images,
         Upload(q, d, i)
  PROVE  DraftsInv'
<1> DEFINE r == [op |-> "upload", of |-> d, image |-> i, room |-> FALSE]
<1>1. r \in Requests  BY DEF Requests
<1>2. req' = [req EXCEPT ![q] = r]  BY DEF Upload, Start
<1>3. r.op = "upload" /\ r.of = d /\ ~r.room  OBVIOUS
<1> HIDE DEF r
<1>4. RequestTrue(r)  BY <1>3 DEF RequestTrue
<1>5. ASSUME NEW p \in Reqs, req[p] # None PROVE Apart(req[p], r)
  <2>1. ~Holds(req[p], d)  BY <1>5, NobodyHolds DEF Upload
  <2> QED  BY <1>3, <2>1 DEF Apart, Inserted
<1>6. /\ KeepsRows /\ UNCHANGED <<post, tab, dialog>>
      /\ told' \in [Keys -> Told \cup {None}]
  BY DEF Upload, KeepsRows, DraftsInv, DraftsTypeOK
<1> QED  BY <1>1, <1>2, <1>4, <1>5, <1>6, SlotStep

\* The sum of the images, under the lock on the workspace.
LEMMA MeasureSpaceKeeps ==
  ASSUME DraftsInv, NEW q \in Reqs, MeasureSpace(q)
  PROVE  DraftsInv'
<1>1. /\ KeepsRows /\ UNCHANGED <<post, tab, dialog>>
      /\ told' \in [Keys -> Told \cup {None}]
  BY DEF MeasureSpace, KeepsRows, DraftsInv, DraftsTypeOK
<1>2. CASE Cardinality(stored) + 1 > Quota
  <2>1. Close(q)  BY <1>2 DEF MeasureSpace
  <2> QED  BY <1>1, <2>1, SlotEmptied
<1>3. CASE ~(Cardinality(stored) + 1 > Quota)
  <2>1. req[q] # None /\ req[q].op = "upload"  BY DEF MeasureSpace, Open
  <2>2. req[q] \in [op : {"upload"}, of : Drafts, image : Images, room : BOOLEAN]
    BY <2>1, RequestType DEF DraftsInv, Requests
  <2> DEFINE r == [req[q] EXCEPT !.room = TRUE]
  <2>3. r \in [op : {"upload"}, of : Drafts, image : Images, room : BOOLEAN]
    BY <2>2
  <2>4. r \in Requests  BY <2>3 DEF Requests
  <2>5. req' = [req EXCEPT ![q] = r]  BY <1>3 DEF MeasureSpace
  <2>6. r.op = "upload" /\ r.of = req[q].of /\ r.room  BY <2>2
  <2> HIDE DEF r
  <2>7. Cardinality(stored) + 1 <= Quota
    <3>1. Cardinality(stored) \in Nat /\ Quota \in Nat
      BY FS_CardinalityType, DraftsAssumption DEF DraftsInv, SpaceInv
    <3> QED  BY <1>3, <3>1
  <2>8. RequestTrue(r)  BY <2>6, <2>7 DEF RequestTrue
  <2>9. ASSUME NEW p \in Reqs, p # q, req[p] # None PROVE Apart(req[p], r)
    <3>1. Apart(req[p], req[q])  BY <2>1, <2>9 DEF DraftsInv, RequestsInv
    <3>2. ~(req[p].op = "upload" /\ req[p].room)
      BY <2>9 DEF MeasureSpace, SpaceLocked, Open
    <3> QED  BY <2>1, <2>6, <3>1, <3>2 DEF Apart, Holds, Inserted
  <2> QED  BY <1>1, <2>4, <2>5, <2>8, <2>9, SlotStep
<1> QED  BY <1>2, <1>3

\* create begins with the key's lock; the key has no post yet.
LEMMA ScheduleKeeps ==
  ASSUME DraftsInv, NEW q \in Reqs, NEW k \in Keys, NEW at \in Times,
         Schedule(q, k, at)
  PROVE  DraftsInv'
<1>1. dialog[k] \in View  BY DEF Schedule, DraftsInv, DraftsTypeOK
<1> DEFINE r == [op |-> "schedule", of |-> dialog[k].of, key |-> k, at |-> at,
                 stage |-> "keyed", content |-> None]
<1>2. r \in Requests  BY <1>1 DEF View, Requests
<1>3. req' = [req EXCEPT ![q] = r]  BY DEF Schedule, Start
<1>4. /\ r.op = "schedule" /\ r.of = dialog[k].of /\ r.key = k
      /\ r.stage = "keyed"
  OBVIOUS
<1> HIDE DEF r
<1>5. RequestTrue(r)  BY <1>4 DEF RequestTrue, Schedule
<1>6. ASSUME NEW p \in Reqs, req[p] # None PROVE Apart(req[p], r)
  <2>1. ~(req[p].op = "schedule" /\ req[p].key = k)
    BY <1>6 DEF Schedule, KeyLocked, Open
  <2> QED  BY <1>4, <2>1 DEF Apart, Holds, Inserted
<1>7. /\ KeepsRows /\ UNCHANGED <<post, tab, dialog>>
      /\ told' \in [Keys -> Told \cup {None}]
  BY DEF Schedule, KeepsRows, DraftsInv, DraftsTypeOK
<1> QED  BY <1>2, <1>3, <1>5, <1>6, <1>7, SlotStep

ScheduleRequest ==
  [op : {"schedule"}, of : Drafts, key : Keys, at : Times,
   stage : {"keyed", "locked", "inserted"}, content : Content \cup {None}]

\* An open request that schedules.
LEMMA OpenSchedule ==
  ASSUME DraftsInv, NEW q \in Reqs, q \in Open("schedule")
  PROVE  /\ req[q] # None /\ req[q].op = "schedule" /\ req[q] \in ScheduleRequest
         /\ RequestTrue(req[q])
<1>1. req[q] # None /\ req[q].op = "schedule"  BY DEF Open
<1>2. req[q] \in Requests  BY <1>1, RequestType DEF DraftsInv
<1> QED  BY <1>1, <1>2 DEF Requests, ScheduleRequest, DraftsInv, RequestsInv

\* create locks the draft: the revision is the dialog's, so the text is too.
LEMMA LockDraftKeeps ==
  ASSUME DraftsInv, NEW q \in Reqs, LockDraft(q)
  PROVE  DraftsInv'
<1>1. /\ req[q] # None /\ req[q].op = "schedule" /\ req[q] \in ScheduleRequest
      /\ RequestTrue(req[q])
  BY OpenSchedule DEF LockDraft
<1> DEFINE c == ContentOf(draft[req[q].of])
           r == [[req[q] EXCEPT !.stage = "locked"] EXCEPT !.content = c]
<1>2. /\ req[q].of \in Drafts /\ req[q].key \in Keys /\ draft[req[q].of] # None
      /\ draft[req[q].of].rev = dialog[req[q].key].rev
  BY <1>1 DEF ScheduleRequest, LockDraft, SameRevision
<1>3. c \in Content /\ c = ContentOf(dialog[req[q].key])
  <2>1. c \in Content  BY <1>2, RowShown DEF DraftsInv
  <2>2. /\ dialog[req[q].key] # None
        /\ req[q].of = dialog[req[q].key].of
    BY <1>1 DEF RequestTrue
  <2>3. ViewTrue(dialog[req[q].key])
    BY <1>2, <2>2 DEF DraftsInv, ViewsInv
  <2> QED  BY <1>2, <2>1, <2>2, <2>3 DEF ViewTrue
<1> HIDE DEF c
<1>4. r \in ScheduleRequest  BY <1>1, <1>3 DEF ScheduleRequest
<1>5. r \in Requests  BY <1>4 DEF Requests, ScheduleRequest
<1>6. req' = [req EXCEPT ![q] = r]
  BY DEF LockDraft, c
<1>7. /\ r.op = "schedule" /\ r.of = req[q].of /\ r.key = req[q].key
      /\ r.stage = "locked" /\ r.content = c
  BY <1>1, <1>3 DEF ScheduleRequest
<1> HIDE DEF r
<1>8. RequestTrue(r)  BY <1>1, <1>3, <1>7 DEF RequestTrue
<1>9. ASSUME NEW p \in Reqs, p # q, req[p] # None PROVE Apart(req[p], r)
  <2>1. Apart(req[p], req[q])  BY <1>1, <1>9 DEF DraftsInv, RequestsInv
  <2>2. ~Holds(req[p], r.of)  BY <1>7, <1>9, NobodyHolds DEF LockDraft
  <2> QED  BY <1>1, <1>7, <2>1, <2>2 DEF Apart, Inserted
<1>10. /\ KeepsRows /\ UNCHANGED <<post, tab, dialog>>
       /\ told' \in [Keys -> Told \cup {None}]
  BY DEF LockDraft, KeepsRows, DraftsInv, DraftsTypeOK
<1> QED  BY <1>5, <1>6, <1>8, <1>9, <1>10, SlotStep

\* A refused request leaves its answer.
LEMMA RefuseScheduleKeeps ==
  ASSUME DraftsInv, NEW q \in Reqs, RefuseSchedule(q)
  PROVE  DraftsInv'
<1>1. req[q] \in ScheduleRequest  BY OpenSchedule DEF RefuseSchedule
<1>2. req[q].at \in Times /\ req[q].key \in Keys  BY <1>1 DEF ScheduleRequest
<1>3. told' \in [Keys -> Told \cup {None}]
  <2>1. [at |-> req[q].at, says |-> "refused"] \in Told
    BY <1>2 DEF Told
  <2> QED  BY <1>2, <2>1 DEF RefuseSchedule, Answer, DraftsInv, DraftsTypeOK
<1> QED  BY <1>3, SlotEmptied DEF RefuseSchedule, KeepsRows

\* The post is inserted while no deletion of the channel is open.
LEMMA InsertPostKeeps ==
  ASSUME DraftsInv, NEW q \in Reqs, InsertPost(q)
  PROVE  DraftsInv'
<1>1. /\ req[q] # None /\ req[q].op = "schedule" /\ req[q] \in ScheduleRequest
      /\ RequestTrue(req[q])
  BY OpenSchedule DEF InsertPost
<1> DEFINE r == [req[q] EXCEPT !.stage = "inserted"]
<1>2. r \in ScheduleRequest  BY <1>1 DEF ScheduleRequest
<1>3. r \in Requests  BY <1>2 DEF Requests, ScheduleRequest
<1>4. req' = [req EXCEPT ![q] = r]  BY DEF InsertPost
<1>5. /\ r.op = "schedule" /\ r.of = req[q].of /\ r.key = req[q].key
      /\ r.stage = "inserted" /\ r.content = req[q].content
  BY <1>1 DEF ScheduleRequest
<1> HIDE DEF r
<1>6. req[q].stage = "locked"  BY DEF InsertPost
<1>7. RequestTrue(r)  BY <1>1, <1>5, <1>6 DEF RequestTrue
<1>8. ASSUME NEW p \in Reqs, p # q, req[p] # None PROVE Apart(req[p], r)
  <2>1. Apart(req[p], req[q])  BY <1>1, <1>8 DEF DraftsInv, RequestsInv
  <2>2. req[p].op # "purge"  BY <1>8 DEF InsertPost, Open
  <2> QED  BY <1>1, <1>5, <1>6, <2>1, <2>2 DEF Apart, Holds, Inserted
<1>9. /\ KeepsRows /\ UNCHANGED <<post, tab, dialog>>
      /\ told' \in [Keys -> Told \cup {None}]
  BY DEF InsertPost, KeepsRows, DraftsInv, DraftsTypeOK
<1> QED  BY <1>3, <1>4, <1>7, <1>8, <1>9, SlotStep

\* delete_channel locks the channel: no post is protected, or being inserted.
LEMMA PurgeKeeps ==
  ASSUME DraftsInv, NEW q \in Reqs, Purge(q)
  PROVE  DraftsInv'
<1> DEFINE r == [op |-> "purge"]
<1>1. r \in Requests  BY DEF Requests
<1>2. req' = [req EXCEPT ![q] = r]  BY DEF Purge, Start
<1>3. r.op = "purge"  OBVIOUS
<1> HIDE DEF r
<1>4. RequestTrue(r)  BY <1>3 DEF RequestTrue, Purge, Protected
<1>5. ASSUME NEW p \in Reqs, req[p] # None PROVE Apart(req[p], r)
  BY <1>3, <1>5 DEF Purge, ChannelShared, Open, Apart, Inserted
<1>6. /\ KeepsRows /\ UNCHANGED <<post, tab, dialog>>
      /\ told' \in [Keys -> Told \cup {None}]
  BY DEF Purge, KeepsRows, DraftsInv, DraftsTypeOK
<1> QED  BY <1>1, <1>2, <1>4, <1>5, <1>6, SlotStep

\* A transaction that is rolled back.
LEMMA AbortKeeps ==
  ASSUME DraftsInv, NEW q \in Reqs, Abort(q)
  PROVE  DraftsInv'
<1>1. told' \in [Keys -> Told \cup {None}]
  BY DEF Abort, DraftsInv, DraftsTypeOK
<1> QED  BY <1>1, SlotEmptied DEF Abort, KeepsRows

-----------------------------------------------------------------------------
(* Tabs, dialogs and answers. *)

\* A tab is shown the row of a draft.
LEMMA TabShown ==
  ASSUME DraftsInv, NEW t \in Tabs, NEW d \in Drafts, draft[d] # None,
         tab' = [tab EXCEPT ![t] = Shown(d)],
         KeepsRows, UNCHANGED <<post, req, dialog, told>>
  PROVE  DraftsInv'
<1>1. Shown(d) \in View /\ ViewTrue(Shown(d))  BY RowShown DEF DraftsInv
<1>2. tab' \in [Tabs -> View \cup {None}]
  BY <1>1 DEF DraftsInv, DraftsTypeOK
<1>3. ASSUME NEW s \in Tabs, tab'[s] # None PROVE ViewTrue(tab'[s])
  <2>1. tab'[s] = IF s = t THEN Shown(d) ELSE tab[s]
    BY DEF DraftsInv, DraftsTypeOK
  <2> QED  BY <1>1, <1>3, <2>1 DEF DraftsInv, ViewsInv
<1>4. /\ dialog' \in [Keys -> View \cup {None}]
      /\ \A k \in Keys : dialog'[k] # None => ViewTrue(dialog'[k])
      /\ told' \in [Keys -> Told \cup {None}]
  BY DEF DraftsInv, DraftsTypeOK, ViewsInv
<1> QED  BY <1>2, <1>3, <1>4, ShowStep

\* A tab opens a draft.
LEMMA LoadKeeps ==
  ASSUME DraftsInv, NEW t \in Tabs, NEW d \in Drafts, Load(t, d)
  PROVE  DraftsInv'
BY TabShown DEF Load, Found, KeepsRows

\* A tab opens the conversation.
LEMMA LoadActiveKeeps ==
  ASSUME DraftsInv, NEW t \in Tabs, LoadActive(t)
  PROVE  DraftsInv'
<1>1. active \in Drafts /\ draft[active] # None
  BY DEF LoadActive, CurrentDraft, DraftsInv, DraftsTypeOK, ActiveIsThere
<1> QED  BY <1>1, TabShown DEF LoadActive, CurrentDraft, KeepsRows

\* The answer to a stale save.
LEMMA ConflictKeeps ==
  ASSUME DraftsInv, NEW t \in Tabs, Conflict(t)
  PROVE  DraftsInv'
<1>1. tab[t].of \in Drafts
  <2>1. tab[t] \in View  BY DEF Conflict, DraftsInv, DraftsTypeOK
  <2> QED  BY <2>1 DEF View
<1> QED  BY <1>1, TabShown DEF Conflict, KeepsRows

\* A dialog shows what its tab shows.
LEMMA ConfirmKeeps ==
  ASSUME DraftsInv, NEW t \in Tabs, NEW k \in Keys, Confirm(t, k)
  PROVE  DraftsInv'
<1>1. tab[t] \in View /\ ViewTrue(tab[t]) /\ dialog[k] = None
  BY DEF Confirm, DraftsInv, DraftsTypeOK, ViewsInv
<1>2. \A j \in Keys : dialog'[j] = IF j = k THEN tab[t] ELSE dialog[j]
  BY DEF Confirm, DraftsInv, DraftsTypeOK
<1>3. \A j \in Keys : dialog'[j] # None => ViewTrue(dialog'[j])
  BY <1>1, <1>2 DEF DraftsInv, ViewsInv
<1>4. /\ tab' \in [Tabs -> View \cup {None}]
      /\ \A s \in Tabs : tab'[s] # None => ViewTrue(tab'[s])
      /\ told' \in [Keys -> Told \cup {None}]
      /\ dialog' \in [Keys -> View \cup {None}]
  BY <1>1 DEF Confirm, DraftsInv, DraftsTypeOK, ViewsInv
<1> QED  BY <1>1, <1>2, <1>3, <1>4, ShowStep DEF Confirm, KeepsRows

\* A repeated request is answered.
LEMMA RepeatKeeps ==
  ASSUME DraftsInv, NEW k \in Keys, NEW at \in Times, Repeat(k, at)
  PROVE  DraftsInv'
<1>1. PICK says \in {"accepted", "refused"} :
        told' = [told EXCEPT ![k] = [at |-> at, says |-> says]]
  BY DEF Repeat, Answer
<1>2. [at |-> at, says |-> says] \in Told  BY DEF Told
<1>3. told' \in [Keys -> Told \cup {None}]
  BY <1>1, <1>2 DEF DraftsInv, DraftsTypeOK
<1>4. /\ tab' \in [Tabs -> View \cup {None}]
      /\ \A s \in Tabs : tab'[s] # None => ViewTrue(tab'[s])
      /\ dialog' \in [Keys -> View \cup {None}]
      /\ \A j \in Keys : dialog'[j] # None => ViewTrue(dialog'[j])
  BY DEF Repeat, DraftsInv, DraftsTypeOK, ViewsInv
<1> QED  BY <1>3, <1>4, ShowStep DEF Repeat, KeepsRows

\* A request is refused by its time before anything is looked up.
LEMMA TooLateKeeps ==
  ASSUME DraftsInv, NEW k \in Keys, NEW at \in Times, TooLate(k, at)
  PROVE  DraftsInv'
<1>1. [at |-> at, says |-> "late"] \in Told  BY DEF Told
<1>2. told' \in [Keys -> Told \cup {None}]
  BY <1>1 DEF TooLate, Answer, DraftsInv, DraftsTypeOK
<1>3. /\ tab' \in [Tabs -> View \cup {None}]
      /\ \A s \in Tabs : tab'[s] # None => ViewTrue(tab'[s])
      /\ dialog' \in [Keys -> View \cup {None}]
      /\ \A j \in Keys : dialog'[j] # None => ViewTrue(dialog'[j])
  BY DEF TooLate, DraftsInv, DraftsTypeOK, ViewsInv
<1> QED  BY <1>2, <1>3, ShowStep DEF TooLate, KeepsRows

-----------------------------------------------------------------------------
(* Steps that write a draft. *)

\* The row of draft d is replaced by one with another revision, under its lock.
LEMMA RowWritten ==
  ASSUME DraftsInv, NEW q \in Reqs, req[q] # None,
         req[q].op \in {"write", "choose"},
         NEW row \in Row, row.rev = req[q].was.rev + 1,
         NEW vs \in Seq(Content), DOMAIN versions[req[q].of] \subseteq DOMAIN vs,
         row.cur \in DOMAIN vs, vs[row.cur] = ContentOf(row),
         NEW v \in View, v.of = req[q].of, v.rev = row.rev,
         ContentOf(v) = ContentOf(row),
         draft' = [draft EXCEPT ![req[q].of] = row],
         versions' = [versions EXCEPT ![req[q].of] = vs],
         tab' \in [Tabs -> View \cup {None}],
         \A t \in Tabs : tab'[t] \in {tab[t], v},
         Close(q),
         UNCHANGED <<image, stored, active, chat, channel, post, dialog, told>>
  PROVE  DraftsInv'
<1> DEFINE d == req[q].of
<1>1. /\ RequestTrue(req[q]) /\ RequestFields(req[q])
      /\ d \in Drafts /\ req[q].was \in Row /\ draft[d] = req[q].was
      /\ draft[d] # None
  <2>1. RequestTrue(req[q]) /\ RequestFields(req[q])
    BY RequestType DEF DraftsInv, RequestsInv
  <2> QED  BY <2>1, NoneIsNothing DEF RequestTrue, RequestFields
<1>2. /\ draft'[d] = row /\ versions'[d] = vs
      /\ \A e \in Drafts : e # d => draft'[e] = draft[e] /\ versions'[e] = versions[e]
  BY <1>1 DEF DraftsInv, DraftsTypeOK
<1>3. row # None /\ row.rev \in Nat /\ draft[d].rev \in Nat
      /\ row.rev = draft[d].rev + 1
  BY <1>1, NoneIsNothing DEF Row
<1>4. DraftsTypeOK'
  BY <1>1 DEF DraftsInv, DraftsTypeOK, Close
<1>5. DraftShowsItsVersion'
  BY <1>2 DEF DraftsInv, DraftShowsItsVersion
<1>6. ASSUME NEW u \in View, ViewTrue(u) PROVE ViewTrue(u)'
  <2>1. CASE u.of # d
    <3>1. u.of \in Drafts  BY DEF View
    <3> QED  BY <1>2, <1>6, <2>1, <3>1 DEF ViewTrue
  <2>2. CASE u.of = d
    <3>1. u.rev \in Nat /\ u.rev <= draft[d].rev
      BY <1>1, <1>6, <2>2 DEF ViewTrue, View
    <3>2. u.rev <= row.rev /\ u.rev # row.rev  BY <1>3, <3>1
    <3> QED  BY <1>2, <1>3, <2>2, <3>2 DEF ViewTrue
  <2> QED  BY <2>1, <2>2
<1>7. ViewTrue(v)'
  <2>1. v.rev <= row.rev  BY <1>3
  <2> QED  BY <1>2, <1>3, <2>1 DEF ViewTrue
<1>8. ViewsInv'
  <2>1. ASSUME NEW t \in Tabs, tab'[t] # None PROVE ViewTrue(tab[t])'
    <3>1. PICK u \in View : u = tab'[t]  BY <2>1
    <3>2. u = v \/ ViewTrue(u)
      BY <2>1, <3>1 DEF DraftsInv, ViewsInv
    <3>3. ViewTrue(u)'  BY <1>6, <1>7, <3>2
    <3> QED  BY <3>1, <3>3 DEF ViewTrue
  <2>2. ASSUME NEW k \in Keys, dialog'[k] # None PROVE ViewTrue(dialog[k])'
    <3>1. PICK u \in View : u = dialog[k]  BY <2>2 DEF DraftsInv, DraftsTypeOK
    <3>2. ViewTrue(u)'  BY <1>6, <2>2, <3>1 DEF DraftsInv, ViewsInv
    <3> QED  BY <3>1, <3>2 DEF ViewTrue
  <2> QED  BY <2>1, <2>2 DEF ViewsInv
<1>9. ASSUME NEW p \in Reqs, req'[p] # None
      PROVE  p # q /\ req'[p] = req[p] /\ req[p] # None
  BY <1>9 DEF Close, DraftsInv, DraftsTypeOK
<1>10. ASSUME NEW p \in Reqs, p # q, req[p] # None PROVE RequestTrue(req[p])'
  <2>1. /\ RequestTrue(req[p]) /\ RequestFields(req[p])
        /\ Apart(req[p], req[q])
    BY <1>10, RequestType DEF DraftsInv, RequestsInv
  <2>2. req[p].op \in {"write", "choose"} => req[p].of # d /\ req[p].of \in Drafts
    BY <2>1 DEF Apart, Holds, RequestFields
  <2>3. req[p].op \in {"write", "choose"} =>
          /\ draft'[req[p].of] = draft[req[p].of]
          /\ versions'[req[p].of] = versions[req[p].of]
    BY <1>2, <2>2
  <2>4. req'[p] = req[p]  BY <1>10 DEF Close, DraftsInv, DraftsTypeOK
  <2> QED  BY <2>1, <2>3, <2>4 DEF RequestTrue, Protected
<1>11. RequestsInv'
  <2>1. \A p \in Reqs : (req[p] # None => RequestTrue(req[p]))'
    BY <1>9, <1>10 DEF RequestTrue, Protected
  <2>2. \A p, s \in Reqs : (req[p] # None /\ req[s] # None /\ p # s =>
                              Apart(req[p], req[s]))'
    BY <1>9 DEF DraftsInv, RequestsInv, Apart, Holds, Inserted
  <2> QED  BY <2>1, <2>2 DEF RequestsInv
<1>12. ActiveIsThere'
  BY <1>2, <1>3 DEF DraftsInv, DraftsTypeOK, ActiveIsThere
<1>13. PostsInv' /\ SpaceInv'
  BY DEF DraftsInv, PostsInv, ScheduledIsConfirmed, SpaceInv, QuotaHolds
<1> QED  BY <1>4, <1>5, <1>8, <1>11, <1>12, <1>13 DEF DraftsInv

\* The row a request read, its versions, and its place among them.
LEMMA RowRead ==
  ASSUME DraftsInv, NEW q \in Reqs, req[q] # None,
         req[q].op \in {"write", "choose"}
  PROVE  /\ RequestTrue(req[q]) /\ RequestFields(req[q])
         /\ req[q].of \in Drafts /\ draft[req[q].of] = req[q].was
         /\ req[q].was \in Row /\ req[q].was # None
         /\ versions[req[q].of] \in Seq(Content)
         /\ req[q].was.cur \in 1 .. Len(versions[req[q].of])
         /\ versions[req[q].of][req[q].was.cur] = ContentOf(req[q].was)
<1>1. RequestTrue(req[q]) /\ RequestFields(req[q])
  BY RequestType DEF DraftsInv, RequestsInv
<1>2. /\ req[q].of \in Drafts /\ draft[req[q].of] = req[q].was
      /\ req[q].was \in Row /\ req[q].was # None
  BY <1>1, NoneIsNothing DEF RequestTrue, RequestFields
<1>3. versions[req[q].of] \in Seq(Content)  BY <1>2 DEF DraftsInv, DraftsTypeOK
<1> QED  BY <1>1, <1>2, <1>3 DEF DraftsInv, DraftShowsItsVersion

\* The versions after update_draft: one is added, or the current one replaced.
Rewritten(r) ==
  IF r.new THEN Append(versions[r.of], ContentOf(r))
           ELSE [versions[r.of] EXCEPT ![r.was.cur] = ContentOf(r)]

LEMMA VersionsRewritten ==
  ASSUME DraftsInv, NEW q \in Reqs, req[q] # None, req[q].op = "write"
  PROVE  LET r == req[q]
             vs == Rewritten(r)
             cur == IF r.new THEN Len(vs) ELSE r.was.cur
         IN  /\ vs \in Seq(Content)
             /\ DOMAIN versions[r.of] \subseteq DOMAIN vs
             /\ cur \in Nat /\ cur \in DOMAIN vs /\ vs[cur] = ContentOf(r)
             /\ \A v \in DOMAIN versions[r.of] :
                  (v = r.was.cur /\ ~r.new) \/ vs[v] = versions[r.of][v]
<1> DEFINE r == req[q]
           old == versions[r.of]
           text == ContentOf(r)
           vs == Rewritten(r)
           cur == IF r.new THEN Len(vs) ELSE r.was.cur
<1>1. /\ old \in Seq(Content) /\ text \in Content /\ r.new \in BOOLEAN
      /\ r.was.cur \in 1 .. Len(old)
  BY RowRead DEF RequestFields, Content, ContentOf
<1>2. vs = IF r.new THEN Append(old, text) ELSE [old EXCEPT ![r.was.cur] = text]
  BY DEF Rewritten
<1> HIDE DEF vs, old, text, r
<1>3. DOMAIN old = 1 .. Len(old) /\ Len(old) \in Nat  BY <1>1
<1>4. CASE r.new
  <2>1. /\ vs \in Seq(Content) /\ Len(vs) = Len(old) + 1
        /\ \A i \in 1 .. Len(old) : vs[i] = old[i]
        /\ vs[Len(old) + 1] = text
    BY <1>1, <1>2, <1>4, AppendProperties
  <2>2. cur = Len(old) + 1  BY <1>4, <2>1
  <2>3. DOMAIN vs = 1 .. Len(old) + 1  BY <2>1
  <2> QED  BY <1>3, <2>1, <2>2, <2>3 DEF r, old, text, vs
<1>5. CASE ~r.new
  <2>1. /\ vs \in Seq(Content) /\ Len(vs) = Len(old)
        /\ \A i \in 1 .. Len(old) :
             vs[i] = IF i = r.was.cur THEN text ELSE old[i]
    BY <1>1, <1>2, <1>5, ExceptSeq
  <2>2. cur = r.was.cur  BY <1>5
  <2>3. DOMAIN vs = 1 .. Len(old)  BY <2>1
  <2> QED  BY <1>1, <1>3, <1>5, <2>1, <2>2, <2>3 DEF r, old, text, vs
<1> QED  BY <1>4, <1>5

\* update_draft commits.
LEMMA CommitWriteKeeps ==
  ASSUME DraftsInv, NEW q \in Reqs, CommitWrite(q)
  PROVE  DraftsInv'
<1>1. req[q] # None /\ req[q].op = "write"  BY DEF CommitWrite, Open
<1> DEFINE r == req[q]
           cur == IF r.new THEN Len(Rewritten(r)) ELSE r.was.cur
           row == [rev |-> r.was.rev + 1, body |-> r.body, pics |-> r.pics,
                   cur |-> cur]
           v == [of |-> r.of, rev |-> row.rev, body |-> r.body, pics |-> r.pics]
<1>2. PICK vs : vs = Rewritten(r)  OBVIOUS
<1>3. /\ vs \in Seq(Content) /\ DOMAIN versions[r.of] \subseteq DOMAIN vs
      /\ cur \in Nat /\ cur \in DOMAIN vs /\ vs[cur] = ContentOf(r)
  BY <1>1, <1>2, VersionsRewritten
<1>4. /\ draft' = [draft EXCEPT ![r.of] = row]
      /\ versions' = [versions EXCEPT ![r.of] = vs]
      /\ tab' = [t \in Tabs |-> IF t # r.by THEN tab[t] ELSE v]
  BY <1>2 DEF CommitWrite, Rewritten
<1> HIDE DEF cur
<1>5. /\ RequestFields(r) /\ r.was \in Row /\ r.of \in Drafts
  BY <1>1, RowRead
<1>6. r.was.rev \in Nat /\ r.body \in Texts /\ r.pics \in SUBSET Images
  BY <1>1, <1>5 DEF RequestFields, Row
<1>7. row \in Row /\ v \in View  BY <1>3, <1>5, <1>6 DEF Row, View
<1>8. /\ row.rev = r.was.rev + 1 /\ row.cur = cur /\ ContentOf(row) = ContentOf(r)
      /\ v.of = r.of /\ v.rev = row.rev /\ ContentOf(v) = ContentOf(r)
  BY DEF ContentOf
<1> HIDE DEF row, v
<1>9. /\ tab' \in [Tabs -> View \cup {None}]
      /\ \A t \in Tabs : tab'[t] \in {tab[t], v}
  BY <1>4, <1>7 DEF DraftsInv, DraftsTypeOK
<1>10. /\ Close(q)
       /\ UNCHANGED <<image, stored, active, chat, channel, post, dialog, told>>
  BY DEF CommitWrite
<1> HIDE DEF r
<1>11. r = req[q]  BY DEF r
<1> QED  BY <1>1, <1>3, <1>4, <1>7, <1>8, <1>9, <1>10, <1>11, RowWritten

\* choose_draft_version commits.
LEMMA CommitChooseKeeps ==
  ASSUME DraftsInv, NEW q \in Reqs, CommitChoose(q)
  PROVE  DraftsInv'
<1>1. req[q] # None /\ req[q].op = "choose"  BY DEF CommitChoose, Open
<1> DEFINE r == req[q]
           row == ChosenRow(r.of, r.was, r.to)
           v == [of |-> r.of, rev |-> row.rev, body |-> row.body,
                 pics |-> row.pics]
<1>2. /\ RequestFields(r) /\ r.was \in Row /\ r.of \in Drafts
      /\ versions[r.of] \in Seq(Content) /\ r.to \in DOMAIN versions[r.of]
  BY <1>1, RowRead DEF RequestTrue
<1>3. /\ r.was.rev \in Nat /\ r.to \in Nat /\ versions[r.of][r.to] \in Content
  BY <1>1, <1>2 DEF RequestFields, Row
<1>4. row \in Row /\ v \in View
  <2>1. PICK c \in Content : c = versions[r.of][r.to]  BY <1>3
  <2>2. row = [rev |-> r.was.rev + 1, body |-> c.body, pics |-> c.pics, cur |-> r.to]
    BY <2>1 DEF ChosenRow
  <2>3. c.body \in Texts /\ c.pics \in SUBSET Images  BY DEF Content
  <2>4. row \in Row  BY <1>3, <2>2, <2>3 DEF Row
  <2>5. v \in View  BY <1>2, <2>4 DEF Row, View
  <2> QED  BY <2>4, <2>5
<1>5. /\ row.rev = r.was.rev + 1 /\ row.cur = r.to
      /\ v.of = r.of /\ v.rev = row.rev /\ ContentOf(v) = ContentOf(row)
  BY DEF ChosenRow, ContentOf
<1>6. versions[r.of][r.to] = ContentOf(row)
  BY <1>3 DEF ChosenRow, ContentOf, Content
<1>7. /\ draft' = [draft EXCEPT ![r.of] = row]
      /\ tab' = [tab EXCEPT ![r.by] = v]
  BY DEF CommitChoose
<1>8. versions' = [versions EXCEPT ![r.of] = versions[r.of]]
  BY <1>2 DEF CommitChoose, DraftsInv, DraftsTypeOK
<1> HIDE DEF row, v
<1>9. /\ tab' \in [Tabs -> View \cup {None}]
      /\ \A t \in Tabs : tab'[t] \in {tab[t], v}
  BY <1>4, <1>7 DEF DraftsInv, DraftsTypeOK
<1>10. /\ Close(q)
       /\ UNCHANGED <<image, stored, active, chat, channel, post, dialog, told>>
  BY DEF CommitChoose
<1> HIDE DEF r
<1>11. r = req[q]  BY DEF r
<1>12. PICK vs \in Seq(Content) : vs = versions[r.of]  BY <1>2
<1>13. /\ DOMAIN versions[r.of] \subseteq DOMAIN vs
       /\ row.cur \in DOMAIN vs /\ vs[row.cur] = ContentOf(row)
       /\ versions' = [versions EXCEPT ![r.of] = vs]
  BY <1>2, <1>5, <1>6, <1>8, <1>12
<1> QED  BY <1>1, <1>4, <1>5, <1>7, <1>9, <1>10, <1>11, <1>13, RowWritten

\* create_draft: no tab, dialog or request knows of a draft that is not there.
LEMMA CreateDraftKeeps ==
  ASSUME DraftsInv, NEW d \in Drafts, NEW body \in Texts, CreateDraft(d, body)
  PROVE  DraftsInv'
<1> DEFINE row == [rev |-> 1, body |-> body, pics |-> {}, cur |-> 1]
           text == [body |-> body, pics |-> {}]
<1>1. row \in Row /\ row # None /\ text \in Content
  BY NoneIsNothing DEF Row, Content
<1>2. <<text>> \in Seq(Content) /\ DOMAIN <<text>> = {1} /\ <<text>>[1] = text
  BY <1>1
<1>3. row.cur = 1 /\ ContentOf(row) = text  BY DEF ContentOf
<1>4. /\ draft' = [draft EXCEPT ![d] = row]
      /\ versions' = [versions EXCEPT ![d] = <<text>>]
      /\ active' = d /\ draft[d] = None /\ chat = "open" /\ chat' = "open"
      /\ UNCHANGED <<image, stored, channel, post, req, tab, dialog, told>>
  BY DEF CreateDraft
<1> HIDE DEF row, text
<1>5. PICK vs \in Seq(Content) : vs = <<text>>  BY <1>2
<1>6. /\ draft'[d] = row /\ versions'[d] = vs
      /\ \A e \in Drafts : e # d => draft'[e] = draft[e] /\ versions'[e] = versions[e]
  BY <1>4, <1>5 DEF DraftsInv, DraftsTypeOK
<1>7. DraftsTypeOK'
  BY <1>1, <1>4, <1>5 DEF DraftsInv, DraftsTypeOK
<1>8. DraftShowsItsVersion'
  BY <1>2, <1>3, <1>5, <1>6 DEF DraftsInv, DraftShowsItsVersion
<1>9. ASSUME NEW u \in View, ViewTrue(u) PROVE ViewTrue(u)'
  <2>1. u.of \in Drafts /\ u.of # d  BY <1>4, <1>9 DEF View, ViewTrue
  <2> QED  BY <1>4, <1>6, <1>9, <2>1 DEF ViewTrue
<1>10. ViewsInv'
  <2>1. ASSUME NEW t \in Tabs, tab[t] # None PROVE ViewTrue(tab[t])'
    <3>1. PICK u \in View : u = tab[t]
      BY <2>1 DEF DraftsInv, DraftsTypeOK
    <3>2. ViewTrue(u)'  BY <1>9, <2>1, <3>1 DEF DraftsInv, ViewsInv
    <3> QED  BY <1>4, <3>1, <3>2 DEF ViewTrue
  <2>2. ASSUME NEW k \in Keys, dialog[k] # None PROVE ViewTrue(dialog[k])'
    <3>1. PICK u \in View : u = dialog[k]
      BY <2>2 DEF DraftsInv, DraftsTypeOK
    <3>2. ViewTrue(u)'  BY <1>9, <2>2, <3>1 DEF DraftsInv, ViewsInv
    <3> QED  BY <1>4, <3>1, <3>2 DEF ViewTrue
  <2> QED  BY <1>4, <2>1, <2>2 DEF ViewsInv
<1>11. ASSUME NEW p \in Reqs, req[p] # None PROVE RequestTrue(req[p])'
  <2>1. RequestTrue(req[p]) /\ RequestFields(req[p])
    BY <1>11, RequestType DEF DraftsInv, RequestsInv
  <2>2. req[p].op \in {"write", "choose"} => req[p].of # d /\ req[p].of \in Drafts
    BY <1>4, <2>1, NoneIsNothing DEF RequestTrue, RequestFields
  <2>3. req[p].op \in {"write", "choose"} =>
          /\ draft'[req[p].of] = draft[req[p].of]
          /\ versions'[req[p].of] = versions[req[p].of]
    BY <1>6, <2>2
  <2> QED  BY <1>4, <2>1, <2>3 DEF RequestTrue, Protected
<1>12. RequestsInv'
  BY <1>4, <1>11 DEF DraftsInv, RequestsInv, Apart, Holds, Inserted
<1>13. PostsInv' /\ ActiveIsThere' /\ SpaceInv'
  BY <1>1, <1>4, <1>6 DEF DraftsInv, PostsInv, ScheduledIsConfirmed, ActiveIsThere,
                          SpaceInv, QuotaHolds
<1> QED  BY <1>7, <1>8, <1>10, <1>12, <1>13 DEF DraftsInv

\* An upload commits: nobody else has measured the space it takes.
LEMMA CommitUploadKeeps ==
  ASSUME DraftsInv, NEW q \in Reqs, CommitUpload(q)
  PROVE  DraftsInv'
<1> DEFINE i == req[q].image
<1>1. req[q] # None /\ req[q].op = "upload" /\ req[q].room
  BY DEF CommitUpload, Open
<1>2. RequestTrue(req[q]) /\ RequestFields(req[q])
  BY <1>1, RequestType DEF DraftsInv, RequestsInv
<1>3. i \in Images /\ req[q].of \in Drafts  BY <1>1, <1>2 DEF RequestFields
<1>4. /\ stored' = stored \cup {i} /\ image' = [image EXCEPT ![i] = req[q].of]
      /\ req' = [req EXCEPT ![q] = None]
      /\ UNCHANGED <<draft, versions, active, chat, channel, post, tab, dialog, told>>
  BY DEF CommitUpload, Close
<1> HIDE DEF i
<1>5. DraftsTypeOK'
  <2>1. /\ image' \in [Images -> Drafts \cup {None}] /\ stored' \subseteq Images
        /\ req' \in [Reqs -> Requests \cup {None}]
    BY <1>3, <1>4 DEF DraftsInv, DraftsTypeOK
  <2> QED  BY <1>4, <2>1 DEF DraftsInv, DraftsTypeOK
<1>6. SpaceInv'
  <2>1. /\ IsFiniteSet(stored) /\ Cardinality(stored) \in Nat
        /\ Cardinality(stored) <= Quota /\ Quota \in Nat
    BY FS_CardinalityType, DraftsAssumption DEF DraftsInv, SpaceInv, QuotaHolds
  <2>2. Cardinality(stored) + 1 <= Quota  BY <1>1, <1>2 DEF RequestTrue
  <2>3. /\ IsFiniteSet(stored')
        /\ \/ Cardinality(stored') = Cardinality(stored)
           \/ Cardinality(stored') = Cardinality(stored) + 1
    BY <1>4, <2>1, FS_AddElement
  <2>4. Cardinality(stored') <= Quota  BY <2>1, <2>2, <2>3
  <2> QED  BY <2>3, <2>4 DEF SpaceInv, QuotaHolds
<1>7. ASSUME NEW p \in Reqs, req'[p] # None
      PROVE  p # q /\ req'[p] = req[p] /\ req[p] # None
  BY <1>4, <1>7 DEF DraftsInv, DraftsTypeOK
<1>8. ASSUME NEW p \in Reqs, req'[p] # None PROVE RequestTrue(req[p])'
  <2>1. RequestTrue(req[p]) /\ Apart(req[p], req[q]) /\ req'[p] = req[p]
    BY <1>1, <1>7, <1>8 DEF DraftsInv, RequestsInv
  <2>2. ~(req[p].op = "upload" /\ req[p].room)  BY <1>1, <2>1 DEF Apart
  <2> QED  BY <1>4, <2>1, <2>2 DEF RequestTrue, Protected
<1>9. RequestsInv'
  BY <1>7, <1>8 DEF DraftsInv, RequestsInv, Apart, Holds, Inserted
<1>10. /\ DraftShowsItsVersion' /\ ViewsInv' /\ PostsInv' /\ ActiveIsThere'
  BY <1>4 DEF DraftsInv, DraftShowsItsVersion, ViewsInv, ViewTrue, PostsInv,
              ScheduledIsConfirmed, ActiveIsThere
<1> QED  BY <1>5, <1>6, <1>9, <1>10 DEF DraftsInv

-----------------------------------------------------------------------------
(* Posts. *)

\* A step that writes posts: each holds what its owner confirmed, no open
\* request waits for its key, and none becomes protected under a deletion.
LEMMA PostStep ==
  ASSUME DraftsInv, KeepsRows, UNCHANGED <<tab, dialog>>,
         post' \in [Keys -> Post \cup {None}],
         told' \in [Keys -> Told \cup {None}],
         req' \in [Reqs -> Requests \cup {None}],
         \A p \in Reqs : req'[p] # None => req'[p] = req[p],
         \A k \in Keys : post'[k] # None =>
           /\ dialog[k] # None /\ post'[k].of = dialog[k].of
           /\ post'[k].pics = dialog[k].pics
           /\ ~post'[k].retried => post'[k].body = dialog[k].body,
         \A p \in Reqs : req'[p] # None /\ req[p].op = "schedule" =>
           post'[req[p].key] = None,
         \A p \in Reqs : req'[p] # None /\ req[p].op = "purge" =>
           \A k \in Keys : ~Protected(k)'
  PROVE  DraftsInv'
<1> USE DEF KeepsRows
<1>1. DraftsTypeOK'  BY DEF DraftsInv, DraftsTypeOK
<1>2. PostsInv'  BY DEF PostsInv, ScheduledIsConfirmed, ContentOf
<1>3. /\ DraftShowsItsVersion' /\ ViewsInv' /\ SpaceInv' /\ ActiveIsThere'
  BY DEF DraftsInv, DraftShowsItsVersion, ViewsInv, ViewTrue, SpaceInv, QuotaHolds,
         ActiveIsThere
<1>4. ASSUME NEW p \in Reqs, req'[p] # None PROVE RequestTrue(req[p])'
  <2>1. RequestTrue(req[p]) /\ req'[p] = req[p]
    BY <1>4 DEF DraftsInv, RequestsInv
  <2>2. /\ req[p].op = "schedule" => post'[req[p].key] = None
        /\ req[p].op = "purge" => \A k \in Keys : ~Protected(k)'
    BY <1>4
  <2> QED  BY <2>1, <2>2 DEF RequestTrue
<1>5. RequestsInv'
  BY <1>4 DEF DraftsInv, RequestsInv, Apart, Holds, Inserted
<1> QED  BY <1>1, <1>2, <1>3, <1>5 DEF DraftsInv

\* create commits: the content is the dialog's, and no deletion is open.
LEMMA CommitPostKeeps ==
  ASSUME DraftsInv, NEW q \in Reqs, CommitPost(q)
  PROVE  DraftsInv'
<1> DEFINE r == req[q]
<1>1. /\ r # None /\ r.op = "schedule" /\ r \in ScheduleRequest
      /\ RequestTrue(r) /\ r.stage = "inserted"
  BY OpenSchedule DEF CommitPost
<1> DEFINE new == [of |-> r.of, body |-> r.content.body, pics |-> r.content.pics,
                   at |-> r.at, state |-> "active", retried |-> FALSE]
<1>2. /\ r.key \in Keys /\ r.at \in Times /\ r.of \in Drafts
      /\ dialog[r.key] # None /\ r.of = dialog[r.key].of
      /\ r.content = ContentOf(dialog[r.key]) /\ dialog[r.key] \in View
  BY <1>1 DEF ScheduleRequest, RequestTrue, DraftsInv, DraftsTypeOK
<1>3. r.content.body \in Texts /\ r.content.pics \in SUBSET Images
  BY <1>2 DEF ContentOf, View
<1>4. new \in Post  BY <1>2, <1>3 DEF Post
<1>5. /\ new.of = dialog[r.key].of
      /\ new.pics = dialog[r.key].pics /\ new.body = dialog[r.key].body
  BY <1>2 DEF ContentOf
<1>6. /\ post' = [post EXCEPT ![r.key] = new] /\ req' = [req EXCEPT ![q] = None]
      /\ told' = [told EXCEPT ![r.key] = [at |-> r.at, says |-> "accepted"]]
      /\ KeepsRows /\ UNCHANGED <<tab, dialog>>
  BY DEF CommitPost, Close, Answer, KeepsRows
<1> HIDE DEF new
<1>7. /\ post' \in [Keys -> Post \cup {None}]
      /\ req' \in [Reqs -> Requests \cup {None}]
      /\ told' \in [Keys -> Told \cup {None}]
  <2>1. [at |-> r.at, says |-> "accepted"] \in Told  BY <1>2 DEF Told
  <2> QED  BY <1>2, <1>4, <1>6, <2>1 DEF DraftsInv, DraftsTypeOK
<1>8. ASSUME NEW p \in Reqs, req'[p] # None
      PROVE  req'[p] = req[p] /\ req[p] # None /\ Apart(req[p], r) /\ RequestTrue(req[p])
  BY <1>1, <1>6, <1>8 DEF DraftsInv, DraftsTypeOK, RequestsInv
<1>9. \A k \in Keys : post'[k] = IF k = r.key THEN new ELSE post[k]
  BY <1>6 DEF DraftsInv, DraftsTypeOK
<1>10. ASSUME NEW k \in Keys, post'[k] # None
       PROVE  /\ dialog[k] # None /\ post'[k].of = dialog[k].of
              /\ post'[k].pics = dialog[k].pics
              /\ ~post'[k].retried => post'[k].body = dialog[k].body
  <2>1. CASE k = r.key  BY <1>2, <1>5, <1>9, <2>1
  <2>2. CASE k # r.key
    BY <1>9, <1>10, <2>2 DEF DraftsInv, PostsInv, ScheduledIsConfirmed
  <2> QED  BY <2>1, <2>2
<1>11. ASSUME NEW p \in Reqs, req'[p] # None, req[p].op = "schedule"
       PROVE  post'[req[p].key] = None
  <2>1. req[p].key # r.key /\ post[req[p].key] = None /\ req[p].key \in Keys
    <3>1. RequestFields(req[p])  BY <1>8, <1>11, RequestType DEF DraftsInv
    <3> QED  BY <1>1, <1>8, <1>11, <3>1 DEF Apart, RequestTrue, RequestFields
  <2> QED  BY <1>9, <2>1
<1>12. ASSUME NEW p \in Reqs, req'[p] # None PROVE req[p].op # "purge"
  BY <1>1, <1>8, <1>12 DEF Apart, Inserted
<1> QED  BY <1>6, <1>7, <1>8, <1>10, <1>11, <1>12, PostStep

\* The post of a key keeps what it holds, but for the text of a retried one.
LEMMA PostGoesOn ==
  ASSUME DraftsInv, NEW k \in Keys, post[k] # None, NEW p \in Post,
         post' = [post EXCEPT ![k] = p],
         p.of = post[k].of, p.pics = post[k].pics,
         p.retried = TRUE \/ (p.retried = post[k].retried /\ p.body = post[k].body),
         p.state = "active" => p.retried = TRUE,
         KeepsRows, UNCHANGED <<req, tab, dialog, told>>
  PROVE  DraftsInv'
<1>1. \A j \in Keys : post'[j] = IF j = k THEN p ELSE post[j]
  BY DEF DraftsInv, DraftsTypeOK
<1>2. /\ post' \in [Keys -> Post \cup {None}]
      /\ req' \in [Reqs -> Requests \cup {None}]
      /\ told' \in [Keys -> Told \cup {None}]
  BY DEF DraftsInv, DraftsTypeOK
<1>3. ASSUME NEW j \in Keys, post'[j] # None
      PROVE  /\ dialog[j] # None /\ post'[j].of = dialog[j].of
             /\ post'[j].pics = dialog[j].pics
             /\ ~post'[j].retried => post'[j].body = dialog[j].body
  BY <1>1, <1>3 DEF DraftsInv, PostsInv, ScheduledIsConfirmed
<1>4. ASSUME NEW r \in Reqs, req[r] # None, req[r].op = "schedule"
      PROVE  post'[req[r].key] = None
  <2>1. RequestTrue(req[r]) /\ RequestFields(req[r])
    BY <1>4, RequestType DEF DraftsInv, RequestsInv
  <2>2. req[r].key \in Keys /\ post[req[r].key] = None
    BY <1>4, <2>1 DEF RequestTrue, RequestFields
  <2> QED  BY <1>1, <2>2
<1>5. ASSUME NEW r \in Reqs, req[r] # None, req[r].op = "purge"
      PROVE  \A j \in Keys : ~Protected(j)'
  <2>1. \A j \in Keys : ~Protected(j)
    BY <1>5 DEF DraftsInv, RequestsInv, RequestTrue
  <2> QED  BY <1>1, <2>1 DEF Protected
<1> QED  BY <1>2, <1>3, <1>4, <1>5, PostStep

\* The worker settles a post.
LEMMA SettleKeeps ==
  ASSUME DraftsInv, NEW k \in Keys, NEW state \in {"failed", "ended"},
         Settle(k, state)
  PROVE  DraftsInv'
<1> DEFINE p == [post[k] EXCEPT !.state = state]
<1>1. post[k] \in Post  BY DEF Settle, DraftsInv, DraftsTypeOK
<1>2. p \in Post  BY <1>1 DEF Post
<1>3. /\ p.of = post[k].of /\ p.pics = post[k].pics
      /\ p.retried = post[k].retried /\ p.body = post[k].body
      /\ p.state # "active"
  BY <1>1 DEF Post
<1>4. post' = [post EXCEPT ![k] = p]  BY DEF Settle
<1>5. /\ post[k] # None /\ KeepsRows /\ UNCHANGED <<req, tab, dialog, told>>
  BY DEF Settle, KeepsRows
<1> HIDE DEF p
<1> QED  BY <1>2, <1>3, <1>4, <1>5, PostGoesOn

Retried(p, body, at) ==
  [p EXCEPT !.body = body, !.at = at, !.state = "active", !.retried = TRUE]

\* A failed post is retried with another text and time.
LEMMA RetryKeeps ==
  ASSUME DraftsInv, NEW k \in Keys, NEW body \in Texts, NEW at \in Times,
         Retry(k, body, at)
  PROVE  DraftsInv'
<1> DEFINE p == Retried(post[k], body, at)
<1>1. post[k] \in Post  BY DEF Retry, DraftsInv, DraftsTypeOK
<1>2. p \in Post  BY <1>1 DEF Post, Retried
<1>3. p.of = post[k].of /\ p.pics = post[k].pics /\ p.retried = TRUE
  BY <1>1 DEF Post, Retried
<1>4. post' = [post EXCEPT ![k] = p]  BY DEF Retry, Retried
<1>5. /\ post[k] # None /\ KeepsRows /\ UNCHANGED <<req, tab, dialog, told>>
  BY DEF Retry, KeepsRows
<1> HIDE DEF p
<1> QED  BY <1>2, <1>3, <1>4, <1>5, PostGoesOn

-----------------------------------------------------------------------------
(* Deletion. *)

\* What goes with the conversation was held by nobody.
LEMMA Dropped ==
  ASSUME DraftsInv, DropDrafts, UNCHANGED <<stored, tab, dialog, told>>,
         channel' \in {"present", "gone"},
         post' = post \/ post' = [k \in Keys |-> None],
         req' \in [Reqs -> Requests \cup {None}],
         \A p \in Reqs : req'[p] # None => req'[p] = req[p]
  PROVE  DraftsInv'
<1>1. /\ draft' = [d \in Drafts |-> None] /\ versions' = [d \in Drafts |-> <<>>]
      /\ image' = [i \in Images |-> None] /\ active' = None /\ chat' = "gone"
      /\ \A d \in Drafts : ~Locked(d)
  BY DEF DropDrafts
<1>2. DraftsTypeOK'
  <2>1. <<>> \in Seq(Content)  OBVIOUS
  <2>2. versions' \in [Drafts -> Seq(Content)]  BY <1>1, <2>1
  <2>3. /\ draft' \in [Drafts -> Row \cup {None}]
        /\ image' \in [Images -> Drafts \cup {None}]
        /\ post' \in [Keys -> Post \cup {None}]
    BY <1>1 DEF DraftsInv, DraftsTypeOK
  <2> QED  BY <1>1, <2>2, <2>3 DEF DraftsInv, DraftsTypeOK
<1>3. DraftShowsItsVersion' /\ ActiveIsThere'
  BY <1>1 DEF DraftShowsItsVersion, ActiveIsThere
<1>4. ViewsInv'
  <2>1. ASSUME NEW u \in View PROVE ViewTrue(u)'
    BY <1>1 DEF View, ViewTrue
  <2>2. ASSUME NEW t \in Tabs, tab[t] # None PROVE ViewTrue(tab[t])'
    <3>1. PICK u \in View : u = tab[t]
      BY <2>2 DEF DraftsInv, DraftsTypeOK
    <3> QED  BY <2>1, <3>1 DEF ViewTrue
  <2>3. ASSUME NEW k \in Keys, dialog[k] # None PROVE ViewTrue(dialog[k])'
    <3>1. PICK u \in View : u = dialog[k]
      BY <2>3 DEF DraftsInv, DraftsTypeOK
    <3> QED  BY <2>1, <3>1 DEF ViewTrue
  <2> QED  BY <2>2, <2>3 DEF ViewsInv
<1>5. PostsInv' /\ SpaceInv'
  BY DEF DraftsInv, PostsInv, ScheduledIsConfirmed, ContentOf, SpaceInv, QuotaHolds
<1>6. ASSUME NEW p \in Reqs, req'[p] # None PROVE RequestTrue(req[p])'
  <2>1. /\ req[p] # None /\ req'[p] = req[p]
        /\ RequestTrue(req[p]) /\ RequestFields(req[p])
    <3>1. req[p] # None /\ req'[p] = req[p]  BY <1>6
    <3> QED  BY <3>1, RequestType DEF DraftsInv, RequestsInv
  <2>2. \/ req[p].op = "purge"
        \/ req[p].op = "schedule" /\ req[p].stage = "keyed" /\ req[p].key \in Keys
    <3>1. req[p].op # "purge" => ~Holds(req[p], req[p].of)
      BY <1>1, <2>1, NobodyHolds DEF RequestFields
    <3> QED  BY <2>1, <3>1 DEF Holds, RequestFields
  <2>3. CASE req[p].op = "purge"
    <3>1. \A k \in Keys : ~Protected(k)  BY <2>1, <2>3 DEF RequestTrue
    <3>2. \A k \in Keys : ~Protected(k)'  BY <3>1 DEF Protected
    <3> QED  BY <2>1, <2>3, <3>2 DEF RequestTrue
  <2>4. CASE req[p].op = "schedule" /\ req[p].stage = "keyed" /\ req[p].key \in Keys
    <3>1. post'[req[p].key] = None  BY <2>1, <2>4 DEF RequestTrue
    <3> QED  BY <2>1, <2>4, <3>1 DEF RequestTrue
  <2> QED  BY <2>2, <2>3, <2>4
<1>7. RequestsInv'
  BY <1>6 DEF DraftsInv, RequestsInv, Apart, Holds, Inserted
<1> QED  BY <1>2, <1>3, <1>4, <1>5, <1>7 DEF DraftsInv

LEMMA DeleteConversationKeeps ==
  ASSUME DraftsInv, DeleteConversation
  PROVE  DraftsInv'
BY Dropped DEF DeleteConversation, DraftsInv, DraftsTypeOK

LEMMA CommitPurgeKeeps ==
  ASSUME DraftsInv, NEW q \in Reqs, CommitPurge(q)
  PROVE  DraftsInv'
<1>1. req' \in [Reqs -> Requests \cup {None}]
  BY DEF CommitPurge, Close, DraftsInv, DraftsTypeOK
<1>2. \A p \in Reqs : req'[p] # None => req'[p] = req[p]
  BY DEF CommitPurge, Close, DraftsInv, DraftsTypeOK
<1> QED  BY <1>1, <1>2, Dropped DEF CommitPurge

-----------------------------------------------------------------------------
(* The invariant and the theorems. *)

\* Every step keeps the invariant.
LEMMA DraftsInductive ==
  ASSUME DraftsInv, [DraftsNext]_draftVars
  PROVE  DraftsInv'
<1>1. CASE UNCHANGED draftVars
  <2>1. KeepsRows /\ UNCHANGED <<post, req, tab, dialog, told>>
    BY <1>1 DEF draftVars, KeepsRows
  <2> QED  BY <2>1, ShowStep DEF DraftsInv, DraftsTypeOK, ViewsInv
<1>2. CASE DraftsNext
  <2>1. ASSUME NEW d \in Drafts, NEW body \in Texts, CreateDraft(d, body) PROVE DraftsInv'
    BY <2>1, CreateDraftKeeps
  <2>2. ASSUME NEW t \in Tabs, NEW d \in Drafts, Load(t, d) PROVE DraftsInv'
    BY <2>2, LoadKeeps
  <2>3. ASSUME NEW t \in Tabs, LoadActive(t) \/ Conflict(t) PROVE DraftsInv'
    BY <2>3, LoadActiveKeeps, ConflictKeeps
  <2>4. ASSUME NEW q \in Reqs, NEW t \in Tabs, NEW body \in Texts,
               NEW pics \in SUBSET Images, NEW new \in BOOLEAN,
               Save(q, t, body, pics, new)
        PROVE  DraftsInv'
    BY <2>4, SaveKeeps
  <2>5. ASSUME NEW q \in Reqs, NEW d \in Drafts, NEW body \in Texts,
               \/ Revise(q, d, body)
               \/ \E expected \in 1 .. MaxRevision : AgentSave(q, d, body, expected)
        PROVE  DraftsInv'
    BY <2>5, AgentWritesKeeps DEF Revise, AgentSave
  <2>6. ASSUME NEW q \in Reqs, NEW t \in Tabs, NEW v \in 1 .. MaxRevision,
               Choose(q, t, v)
        PROVE  DraftsInv'
    BY <2>6, ChooseKeeps
  <2>7. ASSUME NEW q \in Reqs, NEW d \in Drafts, NEW i \in Images, Upload(q, d, i)
        PROVE  DraftsInv'
    BY <2>7, UploadKeeps
  <2>8. ASSUME NEW q \in Reqs,
               \/ CommitWrite(q) \/ CommitChoose(q)
               \/ MeasureSpace(q) \/ CommitUpload(q)
        PROVE  DraftsInv'
    BY <2>8, CommitWriteKeeps, CommitChooseKeeps, MeasureSpaceKeeps, CommitUploadKeeps
  <2>9. ASSUME NEW t \in Tabs, NEW k \in Keys, Confirm(t, k) PROVE DraftsInv'
    BY <2>9, ConfirmKeeps
  <2>10. ASSUME NEW k \in Keys, NEW at \in Times, TooLate(k, at) \/ Repeat(k, at)
         PROVE  DraftsInv'
    BY <2>10, TooLateKeeps, RepeatKeeps
  <2>11. ASSUME NEW q \in Reqs, NEW k \in Keys, NEW at \in Times, Schedule(q, k, at)
         PROVE  DraftsInv'
    BY <2>11, ScheduleKeeps
  <2>12. ASSUME NEW q \in Reqs,
                \/ LockDraft(q) \/ RefuseSchedule(q)
                \/ InsertPost(q) \/ CommitPost(q)
         PROVE  DraftsInv'
    BY <2>12, LockDraftKeeps, RefuseScheduleKeeps, InsertPostKeeps, CommitPostKeeps
  <2>13. ASSUME NEW k \in Keys,
                \/ \E state \in {"failed", "ended"} : Settle(k, state)
                \/ \E body \in Texts, at \in Times : Retry(k, body, at)
         PROVE  DraftsInv'
    BY <2>13, SettleKeeps, RetryKeeps
  <2>14. ASSUME NEW q \in Reqs, Purge(q) \/ CommitPurge(q) \/ Abort(q) PROVE DraftsInv'
    BY <2>14, PurgeKeeps, CommitPurgeKeeps, AbortKeeps
  <2>15. ASSUME DeleteConversation PROVE DraftsInv'
    BY <2>15, DeleteConversationKeeps
  <2> QED  BY <1>2, <2>1, <2>2, <2>3, <2>4, <2>5, <2>6, <2>7, <2>8, <2>9, <2>10,
              <2>11, <2>12, <2>13, <2>14, <2>15 DEF DraftsNext
<1> QED  BY <1>1, <1>2

\* The invariant of the drafts holds in every reachable state.
THEOREM DraftsInvariant == DraftsSpec => []DraftsInv
BY DraftsInitInv, DraftsInductive, PTL DEF DraftsSpec

(* Type correctness: every draft, version, image, post, request, tab and   *)
(* dialog of the model holds what the tables and the pages hold.           *)
THEOREM DraftsAreTyped == DraftsSpec => []DraftsTypeOK
BY DraftsInvariant, PTL DEF DraftsInv

(* A draft's row shows its current version, however saves, choices and the *)
(* agent's writes interleave (repository.py update_draft and               *)
(* choose_draft_version).                                                  *)
THEOREM DraftsShowTheirVersion == DraftsSpec => []DraftShowsItsVersion
BY DraftsInvariant, PTL DEF DraftsInv

(* A post holds the text and the images its dialog showed: create takes    *)
(* the snapshot of the revision the dialog names, and a revision is one    *)
(* text; a retry replaces the text only.                                   *)
THEOREM PostsAreConfirmed == DraftsSpec => []ScheduledIsConfirmed
<1>1. DraftsInv => ScheduledIsConfirmed  BY DEF DraftsInv, PostsInv
<1> QED  BY <1>1, DraftsInvariant, PTL

(* Concurrent uploads never exceed the space of the workspace: the sum is  *)
(* taken under the lock that the commit releases.                          *)
THEOREM SpaceIsKept == DraftsSpec => []QuotaHolds
<1>1. DraftsInv => QuotaHolds  BY DEF DraftsInv, SpaceInv
<1> QED  BY <1>1, DraftsInvariant, PTL

\* A step changes a version only as NothingUnseenIsReplaced allows.
SeenBefore ==
  \A d \in Drafts : \A v \in DOMAIN versions[d] : draft'[d] # None =>
    /\ v \in DOMAIN versions'[d]
    /\ versions'[d][v] # versions[d][v] =>
         \E q \in Open("write") : /\ req[q].of = d /\ req[q].seen # None
                                  /\ ContentOf(req[q].seen) = versions[d][v]

LEMMA WriteSeesWhatItReplaces ==
  ASSUME DraftsInv, NEW q \in Reqs, CommitWrite(q)
  PROVE  SeenBefore
<1> DEFINE r == req[q]
<1>1. r # None /\ r.op = "write" /\ q \in Open("write")  BY DEF CommitWrite, Open
<1>2. PICK vs : vs = Rewritten(r)  OBVIOUS
<1>3. /\ DOMAIN versions[r.of] \subseteq DOMAIN vs
      /\ \A v \in DOMAIN versions[r.of] :
           (v = r.was.cur /\ ~r.new) \/ vs[v] = versions[r.of][v]
  BY <1>1, <1>2, VersionsRewritten
<1>4. versions' = [versions EXCEPT ![r.of] = vs]
  BY <1>2 DEF CommitWrite, Rewritten
<1>5. /\ r.of \in Drafts /\ RequestTrue(r)
      /\ versions[r.of][r.was.cur] = ContentOf(r.was)
  BY <1>1, RowRead
<1>6. \A d \in Drafts : versions'[d] = IF d = r.of THEN vs ELSE versions[d]
  BY <1>4 DEF DraftsInv, DraftsTypeOK
<1>7. ~r.new => r.seen # None /\ ContentOf(r.seen) = ContentOf(r.was)
  BY <1>1, <1>5 DEF RequestTrue
<1> QED  BY <1>1, <1>3, <1>5, <1>6, <1>7 DEF SeenBefore

LEMMA StepSeesWhatItReplaces ==
  ASSUME DraftsInv, [DraftsNext]_draftVars
  PROVE  SeenBefore
<1>1. ASSUME UNCHANGED versions PROVE SeenBefore
  BY <1>1 DEF SeenBefore
<1>2. ASSUME NEW q \in Reqs, CommitWrite(q) PROVE SeenBefore
  BY <1>2, WriteSeesWhatItReplaces
<1>3. ASSUME NEW d \in Drafts, NEW body \in Texts, CreateDraft(d, body) PROVE SeenBefore
  <2>1. /\ versions[d] = <<>>
        /\ \A e \in Drafts : e # d => versions'[e] = versions[e]
    BY <1>3 DEF CreateDraft, DraftsInv, DraftsTypeOK
  <2>2. DOMAIN versions[d] = {}  BY <2>1
  <2> QED  BY <2>1, <2>2 DEF SeenBefore
<1>4. ASSUME DropDrafts PROVE SeenBefore
  BY <1>4 DEF DropDrafts, SeenBefore
<1>5. \/ UNCHANGED versions
      \/ \E q \in Reqs : CommitWrite(q)
      \/ \E d \in Drafts, body \in Texts : CreateDraft(d, body)
      \/ DropDrafts
  BY DEF DraftsNext, draftVars, Load, LoadActive, Conflict, Save, Revise, AgentSave,
         AgentWrites, Choose, CommitChoose, Upload, MeasureSpace, CommitUpload,
         Confirm, TooLate, Repeat, Schedule, LockDraft, RefuseSchedule, InsertPost,
         CommitPost, Settle, Retry, DeleteConversation, Purge, CommitPurge, Abort
<1> QED  BY <1>1, <1>2, <1>3, <1>4, <1>5

(* Nobody's text is replaced unseen: of all steps only the owner's save in *)
(* place changes a version, and the text it replaces is the one that the   *)
(* server had given that tab, since the check of the revision is a check   *)
(* of the text.                                                            *)
THEOREM TextIsSeenBeforeItGoes == DraftsSpec => NothingUnseenIsReplaced
<1>1. DraftsInv /\ [DraftsNext]_draftVars => SeenBefore
  BY StepSeesWhatItReplaces
<1> QED  BY <1>1, DraftsInvariant, PTL DEF DraftsSpec, NothingUnseenIsReplaced, SeenBefore

\* A step treats an accepted post as AcceptedIsKept says.
PostsKept ==
  \A k \in Keys : post[k] # None =>
    /\ /\ told'[k] # told[k] /\ told'[k].says # "late"
       /\ draft[dialog[k].of] # None
       => (told'[k].says = "accepted" <=> told'[k].at = post[k].at)
    /\ post[k].state = "active" /\ ~post[k].retried => post'[k] # None

LEMMA StepKeepsPosts ==
  ASSUME DraftsInv, [DraftsNext]_draftVars
  PROVE  PostsKept
<1>1. ASSUME UNCHANGED <<post, told>> PROVE PostsKept
  BY <1>1, NoneIsNothing DEF PostsKept
<1>2. ASSUME NEW k \in Keys, NEW at \in Times, TooLate(k, at) \/ Repeat(k, at)
      PROVE  PostsKept
  <2>1. PICK says \in {"late", "accepted", "refused"} :
          /\ told' = [told EXCEPT ![k] = [at |-> at, says |-> says]]
          /\ says # "late" /\ draft[dialog[k].of] # None =>
               (says = "accepted" <=> at = post[k].at)
    BY <1>2 DEF TooLate, Repeat, Answer
  <2>2. /\ told'[k].at = at /\ told'[k].says = says
        /\ \A j \in Keys : j # k => told'[j] = told[j]
    BY <2>1 DEF DraftsInv, DraftsTypeOK
  <2>3. UNCHANGED post  BY <1>2 DEF TooLate, Repeat
  <2> QED  BY <2>1, <2>2, <2>3 DEF PostsKept
<1>3. ASSUME NEW q \in Reqs, q \in Open("schedule"),
             \A k \in Keys : k # req[q].key =>
                               post'[k] = post[k] /\ told'[k] = told[k]
      PROVE  PostsKept
  <2>1. post[req[q].key] = None
    BY <1>3, OpenSchedule DEF RequestTrue
  <2> QED  BY <1>3, <2>1 DEF PostsKept
<1>4. ASSUME NEW q \in Reqs, RefuseSchedule(q) \/ CommitPost(q) PROVE PostsKept
  <2>1. q \in Open("schedule")  BY <1>4 DEF RefuseSchedule, CommitPost
  <2>2. \A k \in Keys : k # req[q].key => post'[k] = post[k] /\ told'[k] = told[k]
    <3>1. CASE RefuseSchedule(q)
      BY <3>1 DEF RefuseSchedule, Answer, DraftsInv, DraftsTypeOK
    <3>2. CASE CommitPost(q)
      BY <3>2 DEF CommitPost, Answer, DraftsInv, DraftsTypeOK
    <3> QED  BY <1>4, <3>1, <3>2
  <2> QED  BY <1>3, <2>1, <2>2
<1>5. ASSUME NEW k \in Keys, NEW p \in Post, post' = [post EXCEPT ![k] = p],
             UNCHANGED told
      PROVE  PostsKept
  BY <1>5, NoneIsNothing DEF PostsKept, DraftsInv, DraftsTypeOK
<1>6. ASSUME NEW k \in Keys, NEW state \in {"failed", "ended"}, Settle(k, state)
      PROVE  PostsKept
  <2> DEFINE p == [post[k] EXCEPT !.state = state]
  <2>1. post[k] \in Post  BY <1>6 DEF Settle, DraftsInv, DraftsTypeOK
  <2>2. p \in Post  BY <2>1 DEF Post
  <2>3. post' = [post EXCEPT ![k] = p] /\ UNCHANGED told  BY <1>6 DEF Settle
  <2> HIDE DEF p
  <2> QED  BY <1>5, <2>2, <2>3
<1>7. ASSUME NEW k \in Keys, NEW body \in Texts, NEW at \in Times,
             Retry(k, body, at)
      PROVE  PostsKept
  <2> DEFINE p == Retried(post[k], body, at)
  <2>1. post[k] \in Post  BY <1>7 DEF Retry, DraftsInv, DraftsTypeOK
  <2>2. p \in Post  BY <2>1 DEF Post, Retried
  <2>3. post' = [post EXCEPT ![k] = p] /\ UNCHANGED told  BY <1>7 DEF Retry, Retried
  <2> HIDE DEF p
  <2> QED  BY <1>5, <2>2, <2>3
<1>8. ASSUME NEW q \in Reqs, CommitPurge(q) PROVE PostsKept
  <2>1. req[q] # None /\ req[q].op = "purge" /\ UNCHANGED told
    BY <1>8 DEF CommitPurge, Open
  <2>2. \A k \in Keys : ~Protected(k)
    BY <2>1 DEF DraftsInv, RequestsInv, RequestTrue
  <2> QED  BY <2>1, <2>2 DEF Protected, PostsKept
<1>9. \/ UNCHANGED <<post, told>>
      \/ \E k \in Keys, at \in Times : TooLate(k, at) \/ Repeat(k, at)
      \/ \E q \in Reqs : RefuseSchedule(q) \/ CommitPost(q)
      \/ \E k \in Keys, state \in {"failed", "ended"} : Settle(k, state)
      \/ \E k \in Keys, body \in Texts, at \in Times : Retry(k, body, at)
      \/ \E q \in Reqs : CommitPurge(q)
  BY DEF DraftsNext, draftVars, CreateDraft, Load, LoadActive, Conflict, Save, Revise,
         AgentSave, AgentWrites, CommitWrite, Choose, CommitChoose, Upload,
         MeasureSpace, CommitUpload, Confirm, Schedule, LockDraft, InsertPost,
         DeleteConversation, Purge, Abort
<1> QED  BY <1>1, <1>2, <1>4, <1>6, <1>7, <1>8, <1>9

(* What was accepted stays: a repeated request that is in time is answered *)
(* by the post its key has, other refusals and commits concern keys that   *)
(* have none, and the deletion of a channel finds no post that Telegram    *)
(* may still publish and that was never retried, from its count to its     *)
(* commit.                                                                 *)
THEOREM AcceptedPostsAreKept == DraftsSpec => AcceptedIsKept
<1>1. DraftsInv /\ [DraftsNext]_draftVars => PostsKept
  BY StepKeepsPosts
<1> QED  BY <1>1, DraftsInvariant, PTL DEF DraftsSpec, AcceptedIsKept, PostsKept
=============================================================================
