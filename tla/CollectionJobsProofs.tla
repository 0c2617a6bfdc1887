------------------------- MODULE CollectionJobsProofs -------------------------
(***************************************************************************)
(* Proofs about the collector: for every number of channels, messages,     *)
(* comments and overlapping processes, the safety properties of            *)
(* CollectionJobs.                                                         *)
(*                                                                         *)
(* A scan acts at its end on what it read on the way, while the row, the   *)
(* job and Telegram change under it. So the invariant says of each scan    *)
(* what it knows of Telegram (Reads: the messages from its position on     *)
(* were read), of its row (Holds) and of its job (KeepsJob) at each of its *)
(* steps, and that only scans that are told so share a row (AloneInv).     *)
(* What other processes, the owner and Telegram do to these is shown once  *)
(* to leave them true (Later). A second invariant, ThreadsInv, says what   *)
(* a sync knows of the comments of its thread while it has it to itself.   *)
(***************************************************************************)
EXTENDS CollectionJobs, FiniteSetTheorems, TLAPS

\* The row r is the one that a scan s was started for.
IsRow(r, s) == r # None /\ r.id = s.id

\* What a scan s of process w has read of its channel: t is what Telegram shows
\* of it, r its row and j the scan's job. The messages from s.pos on were read.
Reads(s, t) ==
  /\ s.ch \in Channels
  /\ \A m \in s.seen \cup s.page : s.pos <= m
  /\ \A m \in s.page : m <= t.top
  /\ s.pc = "retire" => \A m \in s.page : m < s.since
  /\ s.pc \in {"thread", "replies"} => s.msg \in Msgs
  /\ s.calm => \A m \in Msgs : s.pos <= m => (m \in t.posts <=> m \in s.seen \cup s.page)

\* Its job is its own until the lease lapses.
KeepsJob(j) == j # None /\ (j.status = "running" \/ j.lapsed)

\* A row that is left to one scan holds what the scan has read.
Holds(s, t, r) ==
  /\ \A m \in s.seen : r.posts[m] # "none"
  /\ s.alone => \A m \in t.posts :
       s.pos <= m /\ r.posts[m] = "live" => m \in s.seen \cup s.page

ScanOK(s, t, r, j) ==
  /\ Reads(s, t)
  /\ IsRow(r, s) => KeepsJob(j) /\ Holds(s, t, r)

ScansInv ==
  \A w \in Collectors : InScan(w) =>
    ScanOK(scan[w], tg[scan[w].ch], chan[scan[w].ch], job[scan[w].ch][w])

\* Two scans of one row know that they are not alone.
AloneInv ==
  \A v, w \in Collectors :
    InScan(v) /\ InScan(w) /\ v # w /\ scan[v].ch = scan[w].ch /\ scan[v].id = scan[w].id =>
      ~scan[w].alone

\* Between two scans nothing is left of the last one.
Fresh(s) == s.pos = MaxMsg + 1 /\ s.seen = {} /\ s.page = {}

RestInv ==
  \A w \in Collectors :
    /\ ~InScan(w) => Fresh(scan[w])
    /\ scan[w].id <= rows

\* Rows are numbered as they come; a stored post was published.
RowsInv ==
  \A c \in Channels :
    /\ tg[c].posts \subseteq 1 .. tg[c].top
    /\ chan[c] # None =>
         /\ chan[c].id <= rows
         /\ \A m \in Msgs : chan[c].posts[m] # "none" => m <= tg[c].top

CollectionInv ==
  TypeOK /\ ScansInv /\ AloneInv /\ RestInv /\ RowsInv

-----------------------------------------------------------------------------
(* Numbers. *)

Below == {p \in Nat \X Nat : p[1] < p[2]}

LEMMA BelowIsWellFounded == IsWellFoundedOn(Below, Nat)
BY NatLessThanWellFounded DEF OpToRel, Below

\* A set of numbers has a least element, and a greatest if it is bounded.
LEMMA Least ==
  ASSUME NEW S \in SUBSET Nat, S # {}
  PROVE  \E m \in S : \A n \in S : m <= n
<1>1. PICK m \in S : \A n \in S : ~ (<<n, m>> \in Below)
  BY BelowIsWellFounded, WFMin
<1>2. \A n \in S : ~ (n < m)  BY <1>1 DEF Below
<1> QED  BY <1>2

LEMMA Greatest ==
  ASSUME NEW b \in Nat, NEW S \in SUBSET (0 .. b), S # {}
  PROVE  \E m \in S : \A n \in S : n <= m
<1> DEFINE T == {n \in 0 .. b : b - n \in S}
<1>1. T \in SUBSET Nat /\ T # {}
  <2>1. PICK n \in S : TRUE  OBVIOUS
  <2>2. b - n \in 0 .. b /\ b - (b - n) = n  OBVIOUS
  <2> QED  BY <2>2
<1>2. PICK m \in T : \A n \in T : m <= n  BY <1>1, Least
<1>3. ASSUME NEW n \in S PROVE b - n \in T
  <2>1. b - n \in 0 .. b /\ b - (b - n) = n  OBVIOUS
  <2> QED  BY <2>1
<1>4. ASSUME NEW n \in S PROVE n <= b - m
  <2>1. m <= b - n  BY <1>2, <1>3
  <2>2. n \in 0 .. b /\ m \in 0 .. b  OBVIOUS
  <2> QED  BY <2>1, <2>2
<1> QED  BY <1>4

LEMMA MessagesAreNumbers == MaxMsg \in Nat /\ MaxRows \in Nat /\ Msgs \subseteq 1 .. MaxMsg
BY CollectionAssumption DEF Msgs

LEMMA OldestIsThere ==
  ASSUME NEW S \in SUBSET Msgs, S # {}
  PROVE  Oldest(S) \in S /\ \A n \in S : Oldest(S) <= n
<1>1. S \in SUBSET Nat  BY MessagesAreNumbers
<1>2. \E m \in S : \A n \in S : m <= n  BY <1>1, Least
<1> QED  BY <1>2 DEF Oldest

LEMMA NewestIsThere ==
  ASSUME NEW S \in SUBSET Msgs, S # {}
  PROVE  Newest(S) \in S /\ \A n \in S : n <= Newest(S)
<1>1. S \in SUBSET (0 .. MaxMsg)  BY MessagesAreNumbers
<1>2. \E m \in S : \A n \in S : n <= m  BY <1>1, Greatest, MessagesAreNumbers
<1> QED  BY <1>2 DEF Newest

\* poll_all takes a channel that is still to be polled.
LEMMA FirstIsThere ==
  ASSUME NEW w, scan[w].todo \in SUBSET (Channels \X (1 .. MaxRows)), scan[w].todo # {}
  PROVE  First(w) \in scan[w].todo
<1> DEFINE T == scan[w].todo
           S == {n \in 1 .. MaxRows : \E t \in T : t[2] = n}
<1>1. \A t \in T : t[2] \in 1 .. MaxRows  OBVIOUS
<1>2. S \in SUBSET Nat /\ S # {}  BY <1>1, MessagesAreNumbers
<1>3. PICK n \in S : \A k \in S : n <= k  BY <1>2, Least
<1>4. PICK t \in T : t[2] = n  BY <1>3
<1>5. \A u \in T : t[2] <= u[2]  BY <1>1, <1>3, <1>4
<1>6. \E x \in T : \A u \in T : x[2] <= u[2]  BY <1>4, <1>5
<1> QED  BY <1>6 DEF First

\* A page of Telegram holds the newest messages below the position, and no
\* message is left out above its oldest.
LEMMA PageIsWhole ==
  ASSUME NEW w, NEW m \in tg[scan[w].ch].posts, m < scan[w].pos,
         tg[scan[w].ch].posts \in SUBSET Msgs, scan[w].got \in Nat,
         NextPage(w) # {}, Oldest(NextPage(w)) <= m
  PROVE  m \in NextPage(w)
<1> DEFINE P == tg[scan[w].ch].posts
           below == {n \in P : n < scan[w].pos}
           o == Oldest(NextPage(w))
           room == IF Cap = 0 THEN PageSize
                   ELSE IF Cap - scan[w].got < PageSize THEN Cap - scan[w].got ELSE PageSize
           Above(k) == {n \in below : n > k}
<1>0. P \subseteq 1 .. MaxMsg /\ P \subseteq Nat /\ m \in P
  <2>1. P \in SUBSET Msgs /\ m \in P  OBVIOUS
  <2> HIDE DEF P
  <2> QED  BY <2>1, MessagesAreNumbers
<1>1. NextPage(w) = {k \in below : Cardinality(Above(k)) < room}  BY DEF NextPage
<1>2. NextPage(w) \in SUBSET Msgs  BY <1>1
<1>3. o \in below /\ Cardinality(Above(o)) < room
  BY <1>1, <1>2, OldestIsThere
<1>4. Above(m) \subseteq Above(o)
  <2> HIDE DEF P, o
  <2>1. m \in Nat /\ o \in Nat /\ o <= m
    BY <1>0, <1>3 DEF o
  <2>2. ASSUME NEW n \in below, n > m PROVE n > o
    <3>1. n \in Nat  BY <1>0
    <3> QED  BY <2>1, <2>2, <3>1
  <2> QED  BY <2>2
<1>5. /\ IsFiniteSet(Above(o)) /\ IsFiniteSet(Above(m))
      /\ Cardinality(Above(m)) <= Cardinality(Above(o))
  <2>1. IsFiniteSet(1 .. MaxMsg)  BY FS_Interval, MessagesAreNumbers
  <2>2. Above(o) \subseteq 1 .. MaxMsg  BY <1>0
  <2>3. IsFiniteSet(Above(o))  BY <2>1, <2>2, FS_Subset
  <2> QED  BY <1>4, <2>3, FS_Subset
<1>6. room \in Int  BY CollectionAssumption
<1>7. Cardinality(Above(m)) \in Nat /\ Cardinality(Above(o)) \in Nat
  BY <1>5, FS_CardinalityType
<1>8. Cardinality(Above(m)) < room  BY <1>3, <1>5, <1>6, <1>7
<1>9. m \in below  OBVIOUS
<1> QED  BY <1>1, <1>8, <1>9

-----------------------------------------------------------------------------
(* The fields of a scan. *)

Places == {"idle", "next"} \cup Scanning

\* What a scan has read, and of which row.
Same(s, s2) ==
  /\ s2.ch = s.ch /\ s2.id = s.id /\ s2.since = s.since /\ s2.pos = s.pos
  /\ s2.seen = s.seen /\ s2.page = s.page
  /\ s2.alone = s.alone /\ s2.calm = s.calm

LEMMA PlaceSet ==
  ASSUME NEW s \in Scan, NEW pc \in Places
  PROVE  LET s2 == [s EXCEPT !.pc = pc]
         IN  /\ s2 \in Scan /\ Same(s, s2) /\ s2.pc = pc
             /\ s2.msg = s.msg /\ s2.thread = s.thread /\ s2.todo = s.todo
BY DEF Scan, Same, Places

LEMMA FailedSet ==
  ASSUME NEW s \in Scan, NEW b \in BOOLEAN
  PROVE  LET s2 == [s EXCEPT !.failed = b]
         IN  /\ s2 \in Scan /\ Same(s, s2) /\ s2.pc = s.pc
             /\ s2.msg = s.msg /\ s2.thread = s.thread /\ s2.todo = s.todo
BY DEF Scan, Same

LEMMA KnownSet ==
  ASSUME NEW s \in Scan, NEW K \in SUBSET Msgs
  PROVE  LET s2 == [s EXCEPT !.known = K]
         IN  /\ s2 \in Scan /\ Same(s, s2) /\ s2.pc = s.pc
             /\ s2.msg = s.msg /\ s2.thread = s.thread /\ s2.todo = s.todo
BY DEF Scan, Same

LEMMA MsgSet ==
  ASSUME NEW s \in Scan, NEW m \in 0 .. MaxMsg
  PROVE  LET s2 == [s EXCEPT !.msg = m]
         IN  /\ s2 \in Scan /\ Same(s, s2) /\ s2.pc = s.pc
             /\ s2.msg = m /\ s2.thread = s.thread /\ s2.todo = s.todo
BY DEF Scan, Same

LEMMA ThreadSet ==
  ASSUME NEW s \in Scan, NEW T \in SUBSET Comments
  PROVE  LET s2 == [s EXCEPT !.thread = T]
         IN  /\ s2 \in Scan /\ Same(s, s2) /\ s2.pc = s.pc
             /\ s2.msg = s.msg /\ s2.thread = T /\ s2.todo = s.todo
BY DEF Scan, Same

LEMMA TodoSet ==
  ASSUME NEW s \in Scan, NEW T \in SUBSET (Channels \X (1 .. MaxRows))
  PROVE  LET s2 == [s EXCEPT !.todo = T]
         IN  /\ s2 \in Scan /\ Same(s, s2) /\ s2.pc = s.pc
             /\ s2.msg = s.msg /\ s2.thread = s.thread /\ s2.todo = T
BY DEF Scan, Same

\* Another process disturbs a scan.
LEMMA Disturb ==
  ASSUME NEW s \in Scan, NEW s2,
         s2 \in {s, [s EXCEPT !.alone = FALSE], [s EXCEPT !.quiet = FALSE]}
  PROVE  /\ s2 \in Scan /\ s2.ch = s.ch /\ s2.id = s.id /\ s2.since = s.since
         /\ s2.pos = s.pos /\ s2.seen = s.seen /\ s2.page = s.page /\ s2.pc = s.pc
         /\ s2.msg = s.msg /\ s2.thread = s.thread
         /\ s2.alone => s.alone
         /\ s2.calm => s.calm
         /\ s2.quiet => s.quiet
<1>1. CASE s2 = s  BY <1>1
<1>2. CASE s2 = [s EXCEPT !.alone = FALSE]  BY <1>2 DEF Scan
<1>3. CASE s2 = [s EXCEPT !.quiet = FALSE]  BY <1>3 DEF Scan
<1> QED  BY <1>1, <1>2, <1>3

\* Telegram changes while a scan reads.
LEMMA TelegramDisturbs ==
  ASSUME NEW s \in Scan, NEW b \in BOOLEAN, NEW s2,
         s2 = [s EXCEPT !.calm = FALSE, !.quiet = b]
  PROVE  /\ s2 \in Scan /\ s2.ch = s.ch /\ s2.id = s.id /\ s2.since = s.since
         /\ s2.pos = s.pos /\ s2.seen = s.seen /\ s2.page = s.page /\ s2.pc = s.pc
         /\ s2.msg = s.msg /\ s2.thread = s.thread
         /\ s2.alone => s.alone
         /\ ~s2.calm
         /\ s2.quiet => b
BY DEF Scan

\* A process without a scan.
LEMMA IdleIsFresh ==
  /\ Idle \in Scan /\ Fresh(Idle) /\ Idle.pc = "idle" /\ Idle.pc \notin Scanning
  /\ Idle.id = 0
<1>1. (CHOOSE x \in Windows : TRUE) \in Windows  BY CollectionAssumption
<1>2. MaxMsg + 1 \in 1 .. (MaxMsg + 1) /\ 0 \in 0 .. MaxRows /\ 0 \in 0 .. MaxMsg
  BY MessagesAreNumbers
<1> QED  BY <1>1, <1>2 DEF Idle, Scan, Fresh, Scanning

-----------------------------------------------------------------------------
(* What others do to a scan. *)

\* What a scan knows stays true while others write to its row and job, and
\* while Telegram changes, if they tell it so.
LEMMA Later ==
  ASSUME NEW s \in Scan, NEW s2, NEW t, NEW t2, NEW r, NEW r2, NEW j, NEW j2,
         ScanOK(s, t, r, j),
         /\ s2.ch = s.ch /\ s2.id = s.id /\ s2.since = s.since /\ s2.pos = s.pos
         /\ s2.seen = s.seen /\ s2.page = s.page /\ s2.pc = s.pc
         /\ s2.msg = s.msg /\ s2.thread = s.thread,
         s2.alone => s.alone, s2.calm => s.calm,
         t.top \in Nat, t2.top \in Nat, t.top <= t2.top,
         s2.calm => t2.posts = t.posts,
         IsRow(r2, s) => IsRow(r, s),
         IsRow(r2, s) /\ KeepsJob(j) => KeepsJob(j2),
         IsRow(r2, s) => \A m \in t2.posts : m \in t.posts \/ r.posts[m] = "none",
         IsRow(r2, s) => \A m \in Msgs : r.posts[m] # "none" => r2.posts[m] # "none",
         IsRow(r2, s) /\ s2.alone => r2.posts = r.posts
  PROVE  ScanOK(s2, t2, r2, j2)
<1>1. Reads(s2, t2)
  <2>1. ASSUME NEW m \in s2.page PROVE m <= t2.top
    <3>1. m \in s.page /\ s.page \subseteq Msgs /\ m <= t.top
      BY DEF ScanOK, Reads, Scan
    <3>2. m \in Nat  BY <3>1, MessagesAreNumbers
    <3> QED  BY <3>1, <3>2
  <2> QED  BY <2>1 DEF ScanOK, Reads
<1>2. IsRow(r2, s2) <=> IsRow(r2, s)  BY DEF IsRow
<1>3. ASSUME IsRow(r2, s2) PROVE KeepsJob(j2) /\ Holds(s2, t2, r2)
  <2>1. /\ KeepsJob(j2) /\ Holds(s, t, r)
    BY <1>2, <1>3 DEF ScanOK
  <2>2. ASSUME NEW m \in s2.seen PROVE r2.posts[m] # "none"
    <3>1. m \in Msgs  BY DEF Scan
    <3> QED  BY <1>2, <1>3, <2>1, <3>1 DEF Holds
  <2>3. ASSUME s2.alone, NEW m \in t2.posts, s2.pos <= m, r2.posts[m] = "live"
        PROVE  m \in s2.seen \cup s2.page
    <3>1. r.posts[m] = "live"  BY <1>2, <1>3, <2>3
    <3>2. m \in t.posts  BY <1>2, <1>3, <3>1
    <3> QED  BY <2>1, <2>3, <3>1, <3>2 DEF Holds
  <2> QED  BY <2>1, <2>2, <2>3 DEF Holds
<1> QED  BY <1>1, <1>3 DEF ScanOK

\* The parts of a typed state.
LEMMA StateTypes ==
  ASSUME TypeOK
  PROVE  /\ \A w \in Collectors : scan[w] \in Scan /\ proc[w] \in Proc
         /\ \A c \in Channels :
              /\ tg[c].top \in 0 .. MaxMsg /\ tg[c].top \in Nat
              /\ tg[c].posts \in SUBSET Msgs /\ tg[c].said \in [Msgs -> SUBSET Comments]
              /\ chan[c] # None => chan[c] \in Row
              /\ \A w \in Collectors : job[c][w] # None => job[c][w] \in Job
         /\ rows \in Nat
BY MessagesAreNumbers DEF TypeOK

\* A scan and its invariant.
LEMMA ScanAt ==
  ASSUME CollectionInv, NEW w \in Collectors, InScan(w)
  PROVE  /\ ScanOK(scan[w], tg[scan[w].ch], chan[scan[w].ch], job[scan[w].ch][w])
         /\ scan[w].ch \in Channels /\ scan[w] \in Scan
         /\ Mine(w) <=> IsRow(chan[scan[w].ch], scan[w])
BY StateTypes DEF CollectionInv, ScansInv, ScanOK, Reads, Mine, Here, IsRow

\* A sync that fetches a thread takes the quiet of the others that are in it.
Noted(w, s2) ==
  /\ scan' \in [Collectors -> Scan] /\ scan'[w] = s2
  /\ \A v \in Collectors : v # w => scan'[v] \in {scan[v], [scan[v] EXCEPT !.quiet = FALSE]}

\* What a scan knows does not depend on its quiet.
LEMMA QuietIsNoKnowledge ==
  ASSUME NEW s \in Scan, NEW s2, s2 \in {s, [s EXCEPT !.quiet = FALSE]},
         NEW t, NEW r, NEW j, ScanOK(s, t, r, j)
  PROVE  ScanOK(s2, t, r, j)
<1>1. /\ s2.ch = s.ch /\ s2.id = s.id /\ s2.since = s.since
      /\ s2.pos = s.pos /\ s2.seen = s.seen /\ s2.page = s.page /\ s2.pc = s.pc
      /\ s2.msg = s.msg
      /\ s2.alone => s.alone
      /\ s2.calm => s.calm
  BY Disturb
<1>2. Reads(s2, t)  BY <1>1 DEF ScanOK, Reads
<1>3. IsRow(r, s2) => KeepsJob(j) /\ Holds(s2, t, r)
  BY <1>1 DEF ScanOK, IsRow, Holds
<1> QED  BY <1>2, <1>3 DEF ScanOK

\* A step of process w: its scan goes on or is over; rows and jobs may
\* change so that the other scans' knowledge of them stays true.
LEMMA ScanStep ==
  ASSUME CollectionInv, NEW w \in Collectors, NEW s2 \in Scan,
         scan' = [scan EXCEPT ![w] = s2] \/ Noted(w, s2), UNCHANGED tg,
         chan' \in [Channels -> Row \cup {None}],
         job' \in [Channels -> [Collectors -> Job \cup {None}]],
         proc' \in [Collectors -> Proc],
         rows' \in 0 .. MaxRows, edits' \in 0 .. MaxEdits, faults' \in 0 .. MaxFaults,
         rows <= rows', s2.id <= rows', RowsInv',
         s2.pc \in Scanning =>
           /\ InScan(w) /\ s2.ch = scan[w].ch /\ s2.id = scan[w].id
           /\ s2.alone => scan[w].alone
           /\ ScanOK(s2, tg[s2.ch], chan'[s2.ch], job'[s2.ch][w]),
         s2.pc \notin Scanning => Fresh(s2),
         \A v \in Collectors : v # w /\ InScan(v) =>
           ScanOK(scan[v], tg[scan[v].ch], chan'[scan[v].ch], job'[scan[v].ch][v])
  PROVE  CollectionInv'
<1>1. scan' \in [Collectors -> Scan] /\ scan'[w] = s2
  BY DEF CollectionInv, TypeOK, Noted
<1>2. ASSUME NEW v \in Collectors, v # w
      PROVE  scan'[v] \in {scan[v], [scan[v] EXCEPT !.quiet = FALSE]}
  BY <1>2 DEF CollectionInv, TypeOK, Noted
<1>3. ASSUME NEW v \in Collectors, v # w
      PROVE  /\ scan'[v].ch = scan[v].ch /\ scan'[v].id = scan[v].id
             /\ scan'[v].pc = scan[v].pc /\ Fresh(scan'[v]) = Fresh(scan[v])
             /\ scan'[v].alone => scan[v].alone
  <2>1. PICK s \in Scan : s = scan[v]  BY StateTypes DEF CollectionInv
  <2>2. PICK u : u = scan'[v]  OBVIOUS
  <2>3. u \in {s, [s EXCEPT !.quiet = FALSE]}  BY <1>2, <1>3, <2>1, <2>2
  <2>4. /\ u.ch = s.ch /\ u.id = s.id /\ u.pc = s.pc
        /\ u.pos = s.pos /\ u.seen = s.seen /\ u.page = s.page
        /\ u.alone => s.alone
    BY <2>3, Disturb
  <2> QED  BY <2>1, <2>2, <2>4 DEF Fresh
<1>4. TypeOK'
  BY <1>1 DEF CollectionInv, TypeOK
<1>5. ScansInv'
  <2>1. ASSUME NEW v \in Collectors, v # w, InScan(v)'
        PROVE  ScanOK(scan'[v], tg[scan'[v].ch], chan'[scan'[v].ch], job'[scan'[v].ch][v])
    <3>1. InScan(v) /\ scan'[v].ch = scan[v].ch  BY <1>3, <2>1 DEF InScan
    <3>2. PICK s \in Scan : s = scan[v]  BY StateTypes DEF CollectionInv
    <3>3. PICK u : u = scan'[v]  OBVIOUS
    <3>4. PICK t : t = tg[s.ch]  OBVIOUS
    <3>5. PICK r : r = chan'[s.ch]  OBVIOUS
    <3>6. PICK j : j = job'[s.ch][v]  OBVIOUS
    <3>7. ScanOK(s, t, r, j)  BY <2>1, <3>1, <3>2, <3>4, <3>5, <3>6
    <3>8. u \in {s, [s EXCEPT !.quiet = FALSE]}  BY <1>2, <2>1, <3>2, <3>3
    <3>9. ScanOK(u, t, r, j)  BY <3>7, <3>8, QuietIsNoKnowledge
    <3> QED  BY <3>1, <3>2, <3>3, <3>4, <3>5, <3>6, <3>9
  <2> QED  BY <1>1, <2>1 DEF ScansInv, InScan
<1>6. AloneInv'
  BY <1>1, <1>3 DEF CollectionInv, AloneInv, InScan
<1>7. RestInv'
  <2>1. ASSUME NEW v \in Collectors, v # w PROVE scan'[v].id <= rows'
    <3>1. scan[v].id <= rows  BY DEF CollectionInv, RestInv
    <3>2. scan[v].id \in Nat /\ rows \in Nat /\ rows' \in Nat
      BY StateTypes, MessagesAreNumbers DEF CollectionInv, Scan
    <3> QED  BY <1>3, <2>1, <3>1, <3>2
  <2> QED  BY <1>1, <1>3, <2>1 DEF CollectionInv, RestInv, InScan
<1> QED  BY <1>4, <1>5, <1>6, <1>7 DEF CollectionInv

\* A step that writes no row and no job.
LEMMA QuietStep ==
  ASSUME CollectionInv, NEW w \in Collectors, NEW s2 \in Scan,
         scan' = [scan EXCEPT ![w] = s2] \/ Noted(w, s2), UNCHANGED <<tg, chan, job, rows>>,
         proc' \in [Collectors -> Proc],
         edits' \in 0 .. MaxEdits, faults' \in 0 .. MaxFaults,
         s2.pc \in Scanning =>
           /\ InScan(w) /\ s2.ch = scan[w].ch /\ s2.id = scan[w].id
           /\ s2.alone => scan[w].alone
           /\ ScanOK(s2, tg[s2.ch], chan[s2.ch], job[s2.ch][w]),
         s2.pc \notin Scanning => Fresh(s2) /\ s2.id <= rows
  PROVE  CollectionInv'
<1>1. /\ chan' \in [Channels -> Row \cup {None}]
      /\ job' \in [Channels -> [Collectors -> Job \cup {None}]]
      /\ rows' \in 0 .. MaxRows /\ rows \in Nat
  BY MessagesAreNumbers DEF CollectionInv, TypeOK
<1>2. RowsInv' /\ s2.id <= rows'
  BY DEF CollectionInv, RowsInv, RestInv
<1>3. \A v \in Collectors : v # w /\ InScan(v) =>
        ScanOK(scan[v], tg[scan[v].ch], chan'[scan[v].ch], job'[scan[v].ch][v])
  BY DEF CollectionInv, ScansInv
<1>4. rows <= rows'  BY <1>1
<1> QED  BY <1>1, <1>2, <1>3, <1>4, ScanStep

\* A scan writes to the row it was started for, which keeps its identity, and
\* its stored posts; a scan that shares the row knows of it.
LEMMA OwnRowStep ==
  ASSUME CollectionInv, NEW w \in Collectors, InScan(w), Mine(w), NEW s2 \in Scan,
         NEW r2 \in Row, r2.id = chan[scan[w].ch].id,
         \A m \in Msgs : /\ chan[scan[w].ch].posts[m] # "none" => r2.posts[m] # "none"
                         /\ r2.posts[m] # "none" => m <= tg[scan[w].ch].top,
         chan' \in [Channels -> Row \cup {None}], chan'[scan[w].ch] = r2,
         \A c \in Channels : c # scan[w].ch => chan'[c] = chan[c],
         job' \in [Channels -> [Collectors -> Job \cup {None}]],
         \A c \in Channels, v \in Collectors : v # w => job'[c][v] = job[c][v],
         scan' = [scan EXCEPT ![w] = s2] \/ Noted(w, s2), UNCHANGED <<tg, proc, rows, edits>>,
         faults' \in 0 .. MaxFaults,
         s2.pc \in Scanning /\ s2.ch = scan[w].ch /\ s2.id = scan[w].id,
         s2.alone => scan[w].alone,
         ScanOK(s2, tg[s2.ch], r2, job'[s2.ch][w])
  PROVE  CollectionInv'
<1> DEFINE c == scan[w].ch
<1>1. c \in Channels /\ r2 # None /\ IsRow(chan[c], scan[w])
  BY ScanAt, NoneAssumption
<1>2. \A d \in Channels : chan'[d] = IF d = c THEN r2 ELSE chan[d]
  OBVIOUS
<1>3. /\ chan' \in [Channels -> Row \cup {None}] /\ proc' \in [Collectors -> Proc]
      /\ rows' \in 0 .. MaxRows /\ edits' \in 0 .. MaxEdits /\ rows \in Nat
  <2> HIDE DEF c
  <2>1. rows' \in 0 .. MaxRows /\ edits' \in 0 .. MaxEdits /\ rows \in Nat
    BY MessagesAreNumbers DEF CollectionInv, TypeOK
  <2>2. proc' \in [Collectors -> Proc]
    BY DEF CollectionInv, TypeOK
  <2> QED  BY <2>1, <2>2
<1>4. RowsInv'
  <2>1. chan[c] # None /\ chan[c].id <= rows
    BY <1>1 DEF IsRow, CollectionInv, RowsInv
  <2> QED  BY <1>2, <2>1 DEF CollectionInv, RowsInv
<1>5. s2.id <= rows' /\ rows <= rows'
  BY <1>3 DEF CollectionInv, RestInv
<1>6. ASSUME NEW v \in Collectors, v # w, InScan(v)
      PROVE  ScanOK(scan[v], tg[scan[v].ch], chan'[scan[v].ch], job'[scan[v].ch][v])
  <2>1. /\ ScanOK(scan[v], tg[scan[v].ch], chan[scan[v].ch], job[scan[v].ch][v])
        /\ scan[v].ch \in Channels /\ scan[v] \in Scan
    BY <1>6, ScanAt
  <2>2. job'[scan[v].ch][v] = job[scan[v].ch][v]  BY <1>6, <2>1
  <2>3. CASE scan[v].ch # c
    <3>1. chan'[scan[v].ch] = chan[scan[v].ch]  BY <1>2, <2>1, <2>3
    <3> QED  BY <2>1, <2>2, <3>1
  <2>4. CASE scan[v].ch = c
    <3>1. chan'[scan[v].ch] = r2  BY <1>2, <2>1, <2>4
    <3>2. IsRow(r2, scan[v]) => IsRow(chan[c], scan[v]) /\ ~scan[v].alone
      <4>1. IsRow(r2, scan[v]) => scan[v].id = scan[w].id
        BY <1>1 DEF IsRow
      <4>2. scan[v].id = scan[w].id => ~scan[v].alone
        BY <1>6, <2>4 DEF CollectionInv, AloneInv
      <4> QED  BY <1>1, <4>1, <4>2 DEF IsRow
    <3>3. tg[c].top \in Nat /\ tg[c].top <= tg[c].top
      BY <1>1, StateTypes DEF CollectionInv
    <3>4. \A m \in Msgs : chan[c].posts[m] # "none" => r2.posts[m] # "none"
      OBVIOUS
    <3> HIDE DEF c
    <3> QED  BY <2>1, <2>2, <2>4, <3>1, <3>2, <3>3, <3>4, Later
  <2> QED  BY <2>3, <2>4
<1>7. ScanOK(s2, tg[s2.ch], chan'[s2.ch], job'[s2.ch][w])
  BY <1>1, <1>2
<1> QED  BY <1>3, <1>4, <1>5, <1>6, <1>7, ScanStep DEF InScan

-----------------------------------------------------------------------------
(* Steps that write no row and no job. *)

\* A scan goes on to the next message, or is over, with what it has read.
LEMMA GoesOn ==
  ASSUME NEW s, NEW s2, NEW t, NEW r, NEW j, ScanOK(s, t, r, j),
         Same(s, s2), s2.pc \in {"read", "finish"}
  PROVE  ScanOK(s2, t, r, j)
<1>1. Reads(s2, t)  BY DEF ScanOK, Reads, Same
<1>2. IsRow(r, s2) => Holds(s2, t, r) /\ KeepsJob(j)
  BY DEF ScanOK, Same, IsRow, Holds
<1> QED  BY <1>1, <1>2 DEF ScanOK

LEMMA GoesOnStep ==
  ASSUME CollectionInv, NEW w \in Collectors, InScan(w), NEW s2 \in Scan,
         Same(scan[w], s2), s2.pc \in {"read", "finish"},
         scan' = [scan EXCEPT ![w] = s2], UNCHANGED <<tg, chan, job, rows, edits>>,
         proc' \in [Collectors -> Proc], faults' \in 0 .. MaxFaults
  PROVE  CollectionInv'
<1>1. ScanOK(scan[w], tg[scan[w].ch], chan[scan[w].ch], job[scan[w].ch][w])
  BY ScanAt
<1>2. ScanOK(s2, tg[scan[w].ch], chan[scan[w].ch], job[scan[w].ch][w])
  BY <1>1, GoesOn
<1>3. s2.ch = scan[w].ch /\ s2.id = scan[w].id /\ s2.alone = scan[w].alone
  BY DEF Same
<1>4. s2.pc \in Scanning /\ edits' \in 0 .. MaxEdits
  BY DEF Scanning, CollectionInv, TypeOK
<1> QED  BY <1>2, <1>3, <1>4, QuietStep

\* A scan or a cycle is over: nothing of it is left.
LEMMA IdleStep ==
  ASSUME CollectionInv, NEW w \in Collectors, scan' = [scan EXCEPT ![w] = Idle],
         UNCHANGED <<tg, chan, job, rows, edits>>,
         proc' \in [Collectors -> Proc], faults' \in 0 .. MaxFaults
  PROVE  CollectionInv'
<1>1. Idle.id <= rows
  BY IdleIsFresh, StateTypes DEF CollectionInv
<1>2. edits' \in 0 .. MaxEdits  BY DEF CollectionInv, TypeOK
<1> QED  BY <1>1, <1>2, IdleIsFresh, QuietStep

\* Between scans the list of channels changes.
LEMMA TodoStep ==
  ASSUME CollectionInv, NEW w \in Collectors, ~InScan(w),
         NEW T \in SUBSET (Channels \X (1 .. MaxRows)),
         Goto(w, [scan[w] EXCEPT !.todo = T], "next"),
         UNCHANGED <<tg, chan, job, proc, rows, edits, faults>>
  PROVE  CollectionInv'
<1>1. scan[w] \in Scan /\ Fresh(scan[w]) /\ scan[w].id <= rows
  BY StateTypes DEF CollectionInv, RestInv
<1>2. PICK s1 \in Scan : /\ s1 = [scan[w] EXCEPT !.todo = T]
                         /\ Same(scan[w], s1)
  BY <1>1, TodoSet
<1>3. PICK s2 \in Scan : /\ s2 = [s1 EXCEPT !.pc = "next"]
                         /\ Same(s1, s2) /\ s2.pc = "next"
  BY PlaceSet DEF Places
<1>4. scan' = [scan EXCEPT ![w] = s2]  BY <1>2, <1>3 DEF Goto
<1>5. Fresh(s2) /\ s2.id <= rows /\ s2.pc \notin Scanning
  BY <1>1, <1>2, <1>3 DEF Fresh, Same, Scanning
<1>6. /\ proc' \in [Collectors -> Proc]
      /\ edits' \in 0 .. MaxEdits /\ faults' \in 0 .. MaxFaults
  BY DEF CollectionInv, TypeOK
<1> QED  BY <1>4, <1>5, <1>6, QuietStep

LEMMA BeginKeeps ==
  ASSUME CollectionInv, NEW w \in Collectors, Begin(w)
  PROVE  CollectionInv'
<1> DEFINE T == {<<c, chan[c].id>> : c \in {d \in Channels : chan[d] # None /\ chan[d].active}}
<1>1. T \in SUBSET (Channels \X (1 .. MaxRows))
  <2>1. \A c \in Channels : chan[c] # None => chan[c].id \in 1 .. MaxRows
    BY StateTypes DEF CollectionInv, Row
  <2> QED  BY <2>1
<1>2. ~InScan(w)  BY DEF Begin, InScan, Scanning
<1>3. /\ Goto(w, [scan[w] EXCEPT !.todo = T], "next")
      /\ UNCHANGED <<tg, chan, job, proc, rows, edits, faults>>
  BY DEF Begin
<1> HIDE DEF T
<1> QED  BY <1>1, <1>2, <1>3, TodoStep

LEMMA SkipInFloodKeeps ==
  ASSUME CollectionInv, NEW w \in Collectors, SkipInFlood(w)
  PROVE  CollectionInv'
<1> DEFINE T == scan[w].todo \ {First(w)}
<1>1. scan[w].todo \in SUBSET (Channels \X (1 .. MaxRows))
  BY StateTypes DEF CollectionInv, Scan
<1>2. T \in SUBSET (Channels \X (1 .. MaxRows))  BY <1>1
<1>3. ~InScan(w)  BY DEF SkipInFlood, InScan, Scanning
<1>4. /\ Goto(w, [scan[w] EXCEPT !.todo = T], "next")
      /\ UNCHANGED <<tg, chan, job, proc, rows, edits, faults>>
  BY DEF SkipInFlood, Rest
<1> HIDE DEF T
<1> QED  BY <1>2, <1>3, <1>4, TodoStep

LEMMA EndCycleKeeps ==
  ASSUME CollectionInv, NEW w \in Collectors, EndCycle(w)
  PROVE  CollectionInv'
BY IdleStep DEF EndCycle, CollectionInv, TypeOK

\* A bounded fault.
LEMMA FaultType == ASSUME TypeOK, Fault PROVE faults' \in 0 .. MaxFaults
BY CollectionAssumption DEF TypeOK, Fault

\* poll_channel ends with an exception or without.
LEMMA OverKeeps ==
  ASSUME CollectionInv, NEW w \in Collectors, InScan(w), NEW b \in BOOLEAN, Over(w, b),
         UNCHANGED <<tg, chan, job, rows, edits>>,
         proc' \in [Collectors -> Proc], faults' \in 0 .. MaxFaults
  PROVE  CollectionInv'
<1>1. PICK s1 \in Scan : /\ s1 = [scan[w] EXCEPT !.failed = b]
                         /\ Same(scan[w], s1)
  BY ScanAt, FailedSet
<1>2. PICK s2 \in Scan : /\ s2 = [s1 EXCEPT !.pc = "finish"]
                         /\ Same(s1, s2) /\ s2.pc = "finish"
  BY PlaceSet DEF Places, Scanning
<1>3. scan' = [scan EXCEPT ![w] = s2]  BY <1>1, <1>2 DEF Over, Goto
<1>4. Same(scan[w], s2)  BY <1>1, <1>2 DEF Same
<1> QED  BY <1>2, <1>3, <1>4, GoesOnStep

LEMMA ReadBreaksKeeps ==
  ASSUME CollectionInv, NEW w \in Collectors, ReadBreaks(w)
  PROVE  CollectionInv'
<1>1. InScan(w)  BY DEF ReadBreaks, InScan, Scanning
<1>2. faults' \in 0 .. MaxFaults  BY FaultType DEF ReadBreaks, CollectionInv
<1>3. proc' \in [Collectors -> Proc]  BY DEF ReadBreaks, CollectionInv, TypeOK
<1> QED  BY <1>1, <1>2, <1>3, OverKeeps DEF ReadBreaks

LEMMA ResolveBreaksKeeps ==
  ASSUME CollectionInv, NEW w \in Collectors, ResolveBreaks(w)
  PROVE  CollectionInv'
<1>1. InScan(w)  BY DEF ResolveBreaks, InScan, Scanning
<1>2. faults' \in 0 .. MaxFaults  BY FaultType DEF ResolveBreaks, CollectionInv
<1>3. proc' \in [Collectors -> Proc]
  <2>1. PICK kept \in {{}, {scan[w].ch}} :
          proc' = [proc EXCEPT ![w].entities = @ \cup kept]
    BY DEF ResolveBreaks
  <2>2. kept \subseteq Channels  BY <1>1, ScanAt
  <2>3. [proc[w] EXCEPT !.entities = @ \cup kept] \in Proc
    BY <2>2, StateTypes DEF CollectionInv, Proc
  <2> QED  BY <2>1, <2>3 DEF CollectionInv, TypeOK
<1> QED  BY <1>1, <1>2, <1>3, OverKeeps DEF ResolveBreaks

LEMMA FloodWaitKeeps ==
  ASSUME CollectionInv, NEW w \in Collectors, FloodWait(w)
  PROVE  CollectionInv'
<1>1. InScan(w)  BY DEF FloodWait, InScan, Scanning
<1>2. faults' \in 0 .. MaxFaults  BY FaultType DEF FloodWait, CollectionInv
<1>3. proc' \in [Collectors -> Proc]
  <2>1. [proc[w] EXCEPT !.flood = TRUE] \in Proc
    BY StateTypes DEF CollectionInv, Proc
  <2> QED  BY <2>1 DEF FloodWait, CollectionInv, TypeOK
<1> QED  BY <1>1, <1>2, <1>3, OverKeeps DEF FloodWait

\* A thread is left.
LEMMA SkipThreadKeeps ==
  ASSUME CollectionInv, NEW w \in Collectors, SkipThread(w)
  PROVE  CollectionInv'
<1>1. InScan(w)  BY DEF SkipThread, InScan, Scanning
<1>2. faults' \in 0 .. MaxFaults
  BY FaultType DEF SkipThread, CollectionInv, TypeOK
<1>3. proc' \in [Collectors -> Proc]  BY DEF SkipThread, CollectionInv, TypeOK
<1> DEFINE s1 == [scan[w] EXCEPT !.msg = 0, !.thread = {}, !.quiet = TRUE]
           s2 == [s1 EXCEPT !.pc = "read"]
<1>4. s1 \in Scan /\ Same(scan[w], s1)
  <2>1. scan[w] \in Scan /\ 0 \in 0 .. MaxMsg
    BY <1>1, ScanAt, MessagesAreNumbers
  <2> QED  BY <2>1 DEF Scan, Same
<1> HIDE DEF s1
<1>5. s2 \in Scan /\ Same(s1, s2) /\ s2.pc = "read"
  BY <1>4, PlaceSet DEF Places, Scanning
<1>6. scan' = [scan EXCEPT ![w] = s2]  BY DEF SkipThread, Goto, s1
<1> HIDE DEF s2
<1>7. Same(scan[w], s2)  BY <1>4, <1>5 DEF Same
<1> QED  BY <1>1, <1>2, <1>3, <1>5, <1>6, <1>7, GoesOnStep DEF SkipThread

LEMMA StopKeeps ==
  ASSUME CollectionInv, NEW w \in Collectors, Stop(w)
  PROVE  CollectionInv'
<1>1. faults' \in 0 .. MaxFaults  BY FaultType DEF Stop, CollectionInv
<1>2. CASE InScan(w)
  <2>1. PICK s2 \in Scan : /\ s2 = [scan[w] EXCEPT !.pc = "finish"]
                           /\ Same(scan[w], s2) /\ s2.pc = "finish"
    BY <1>2, ScanAt, PlaceSet DEF Places, Scanning
  <2>2. proc' \in [Collectors -> Proc]
    <3>1. [proc[w] EXCEPT !.leaving = TRUE] \in Proc
      BY StateTypes DEF CollectionInv, Proc
    <3> QED  BY <1>2, <3>1 DEF Stop, CollectionInv, TypeOK
  <2>3. scan' = [scan EXCEPT ![w] = s2]  BY <1>2, <2>1 DEF Stop, Goto
  <2> QED  BY <1>1, <1>2, <2>1, <2>2, <2>3, GoesOnStep DEF Stop
<1>3. CASE ~InScan(w)
  <2>1. proc' \in [Collectors -> Proc]
    <3>1. Down \in Proc  BY DEF Down, Proc
    <3> QED  BY <1>3, <3>1 DEF Stop, CollectionInv, TypeOK
  <2> QED  BY <1>1, <1>3, <2>1, IdleStep DEF Stop
<1> QED  BY <1>2, <1>3

LEMMA CrashKeeps ==
  ASSUME CollectionInv, NEW w \in Collectors, Crash(w)
  PROVE  CollectionInv'
<1>1. faults' \in 0 .. MaxFaults  BY FaultType DEF Crash, CollectionInv
<1>2. proc' \in [Collectors -> Proc]
  <2>1. Down \in Proc  BY DEF Down, Proc
  <2> QED  BY <2>1 DEF Crash, CollectionInv, TypeOK
<1> QED  BY <1>1, <1>2, IdleStep DEF Crash

LEMMA FinishBreaksKeeps ==
  ASSUME CollectionInv, NEW w \in Collectors, FinishBreaks(w)
  PROVE  CollectionInv'
<1>1. faults' \in 0 .. MaxFaults  BY FaultType DEF FinishBreaks, CollectionInv
<1>2. proc' \in [Collectors -> Proc]
  <2>1. Down \in Proc  BY DEF Down, Proc
  <2> QED  BY <2>1 DEF FinishBreaks, CollectionInv, TypeOK
<1> QED  BY <1>1, <1>2, IdleStep DEF FinishBreaks

-----------------------------------------------------------------------------
(* Rows that are made, resolved or switched. *)

\* A row of the list keeps its identity and what was stored; a new one is
\* numbered as no row was before.
RowKept(c) ==
  \/ chan'[c] = chan[c]
  \/ /\ chan'[c] \in Row
     /\ chan[c] = None => /\ rows' = rows + 1 /\ chan'[c].id = rows + 1
                          /\ \A m \in Msgs : chan'[c].posts[m] = "none"
     /\ chan[c] # None => /\ chan'[c].id = chan[c].id
                          /\ chan'[c].posts = chan[c].posts
                          /\ chan'[c].comments = chan[c].comments

\* To a running scan the row of its channel is the one it was.
LEMMA RowKeptForScan ==
  ASSUME CollectionInv, NEW w \in Collectors, InScan(w), RowKept(scan[w].ch), NEW j2,
         KeepsJob(job[scan[w].ch][w]) => KeepsJob(j2)
  PROVE  ScanOK(scan[w], tg[scan[w].ch], chan'[scan[w].ch], j2)
<1>1. PICK s \in Scan : s = scan[w]  BY ScanAt
<1>2. PICK c \in Channels : c = s.ch  BY <1>1, ScanAt
<1>3. PICK r : r = chan[c]  OBVIOUS
<1>4. PICK r2 : r2 = chan'[c]  OBVIOUS
<1>5. PICK j : j = job[c][w]  OBVIOUS
<1>6. PICK t : t = tg[c]  OBVIOUS
<1>7. ScanOK(s, t, r, j)  BY <1>1, <1>2, <1>3, <1>5, <1>6, ScanAt
<1>8. t.top \in Nat /\ t.top <= t.top  BY <1>6, StateTypes DEF CollectionInv
<1>9. IsRow(r2, s) => /\ IsRow(r, s)
                      /\ r2.posts = r.posts /\ r2.comments = r.comments
  <2>1. CASE r2 = r  BY <2>1
  <2>2. CASE r2 # r /\ r # None
    <3>1. r2.id = r.id /\ r2.posts = r.posts /\ r2.comments = r.comments
      BY <1>1, <1>2, <1>3, <1>4, <2>2 DEF RowKept
    <3> QED  BY <2>2, <3>1 DEF IsRow
  <2>3. CASE r2 # r /\ r = None
    <3>1. r2.id = rows + 1  BY <1>1, <1>2, <1>3, <1>4, <2>3 DEF RowKept
    <3>2. s.id <= rows /\ s.id \in Nat /\ rows \in Nat
      BY <1>1, StateTypes, MessagesAreNumbers DEF CollectionInv, RestInv, Scan
    <3>3. ~IsRow(r2, s)  BY <3>1, <3>2 DEF IsRow
    <3> QED  BY <3>3
  <2> QED  BY <2>1, <2>2, <2>3
<1>10. KeepsJob(j) => KeepsJob(j2)  BY <1>1, <1>2, <1>5
<1>11. ScanOK(s, t, r2, j2)
  BY <1>7, <1>8, <1>9, <1>10, Later
<1> QED  BY <1>1, <1>2, <1>4, <1>6, <1>11

LEMMA RowsKept ==
  ASSUME CollectionInv, UNCHANGED tg, \A c \in Channels : RowKept(c),
         rows <= rows', rows' \in 0 .. MaxRows
  PROVE  /\ RowsInv'
         /\ \A c \in Channels : chan'[c] \in Row \cup {None}
<1>1. rows \in Nat /\ rows' \in Nat
  BY StateTypes, MessagesAreNumbers DEF CollectionInv
<1>2. ASSUME NEW c \in Channels, chan'[c] # None
      PROVE  /\ chan'[c] \in Row /\ chan'[c].id <= rows'
             /\ \A m \in Msgs : chan'[c].posts[m] # "none" => m <= tg[c].top
  <2>1. CASE chan'[c] = chan[c]
    <3>1. chan[c] \in Row /\ chan[c].id <= rows /\ chan[c].id \in Nat
      BY <1>2, <2>1, StateTypes, MessagesAreNumbers DEF CollectionInv, RowsInv, Row
    <3>2. chan[c].id <= rows'  BY <1>1, <3>1
    <3> QED  BY <1>2, <2>1, <3>1, <3>2 DEF CollectionInv, RowsInv
  <2>2. CASE chan'[c] # chan[c] /\ chan[c] # None
    <3>1. /\ chan'[c] \in Row /\ chan'[c].id = chan[c].id
          /\ chan'[c].posts = chan[c].posts
      BY <2>2 DEF RowKept
    <3>2. chan[c].id <= rows /\ chan[c].id \in Nat
      BY <2>2, StateTypes, MessagesAreNumbers DEF CollectionInv, RowsInv, Row
    <3>3. chan'[c].id <= rows'  BY <1>1, <3>1, <3>2
    <3> QED  BY <2>2, <3>1, <3>3 DEF CollectionInv, RowsInv
  <2>3. CASE chan'[c] # chan[c] /\ chan[c] = None
    <3>1. /\ chan'[c] \in Row /\ chan'[c].id = rows + 1 /\ rows' = rows + 1
          /\ \A m \in Msgs : chan'[c].posts[m] = "none"
      BY <2>3 DEF RowKept
    <3> QED  BY <1>1, <3>1
  <2> QED  BY <2>1, <2>2, <2>3
<1> QED  BY <1>2 DEF CollectionInv, RowsInv

\* A step that leaves the scans as they are.
LEMMA StillStep ==
  ASSUME CollectionInv, UNCHANGED <<tg, scan>>,
         chan' \in [Channels -> Row \cup {None}],
         job' \in [Channels -> [Collectors -> Job \cup {None}]],
         proc' \in [Collectors -> Proc],
         rows' \in 0 .. MaxRows, edits' \in 0 .. MaxEdits, faults' \in 0 .. MaxFaults,
         rows <= rows', RowsInv',
         \A v \in Collectors : InScan(v) =>
           ScanOK(scan[v], tg[scan[v].ch], chan'[scan[v].ch], job'[scan[v].ch][v])
  PROVE  CollectionInv'
<1>1. TypeOK'
  BY DEF CollectionInv, TypeOK
<1>2. ScansInv' /\ AloneInv'
  BY DEF CollectionInv, ScansInv, AloneInv, InScan
<1>3. RestInv'
  <2>1. ASSUME NEW v \in Collectors PROVE scan[v].id <= rows'
    <3>1. scan[v].id <= rows  BY DEF CollectionInv, RestInv
    <3>2. scan[v].id \in Nat /\ rows \in Nat /\ rows' \in Nat
      BY StateTypes, MessagesAreNumbers DEF CollectionInv, Scan
    <3> QED  BY <3>1, <3>2
  <2> QED  BY <2>1 DEF CollectionInv, RestInv, InScan
<1> QED  BY <1>1, <1>2, <1>3 DEF CollectionInv

\* The row that resolve_entity, add_channel and the switch of a channel leave.
LEMMA FreshRowType ==
  ASSUME NEW n \in 1 .. MaxRows, NEW b \in BOOLEAN
  PROVE  /\ FreshRow(n, b) \in Row /\ FreshRow(n, b).id = n
         /\ \A m \in Msgs : FreshRow(n, b).posts[m] = "none"
BY DEF FreshRow, Row

LEMMA SwitchedRowType ==
  ASSUME NEW r \in Row, NEW b \in BOOLEAN
  PROVE  /\ [r EXCEPT !.resolved = b] \in Row /\ [r EXCEPT !.active = b] \in Row
         /\ [r EXCEPT !.resolved = b].id = r.id /\ [r EXCEPT !.active = b].id = r.id
         /\ [r EXCEPT !.resolved = b].posts = r.posts
         /\ [r EXCEPT !.active = b].posts = r.posts
         /\ [r EXCEPT !.resolved = b].comments = r.comments
         /\ [r EXCEPT !.active = b].comments = r.comments
BY DEF Row

\* A channel's row is made or switched: nothing else changes it.
LEMMA RowSwitched ==
  ASSUME CollectionInv, NEW c \in Channels, NEW b \in BOOLEAN,
         \/ /\ chan[c] = None /\ rows < MaxRows /\ rows' = rows + 1
            /\ chan'[c] = FreshRow(rows + 1, b)
         \/ /\ chan[c] # None
            /\ chan'[c] \in {[chan[c] EXCEPT !.resolved = b], [chan[c] EXCEPT !.active = b]}
  PROVE  RowKept(c)
<1>1. CASE chan[c] = None
  <2>1. rows + 1 \in 1 .. MaxRows
    BY <1>1, StateTypes, MessagesAreNumbers DEF CollectionInv
  <2> QED  BY <1>1, <2>1, FreshRowType DEF RowKept
<1>2. CASE chan[c] # None
  <2>1. PICK r \in Row : r = chan[c]  BY <1>2, StateTypes DEF CollectionInv
  <2>2. PICK r2 : r2 = chan'[c]  OBVIOUS
  <2>3. CASE r2 = [r EXCEPT !.resolved = b]
    <3>1. r2 \in Row /\ r2.id = r.id /\ r2.posts = r.posts /\ r2.comments = r.comments
      BY <2>3, SwitchedRowType
    <3> QED  BY <1>2, <2>1, <2>2, <3>1 DEF RowKept
  <2>4. CASE r2 = [r EXCEPT !.active = b]
    <3>1. r2 \in Row /\ r2.id = r.id /\ r2.posts = r.posts /\ r2.comments = r.comments
      BY <2>4, SwitchedRowType
    <3> QED  BY <1>2, <2>1, <2>2, <3>1 DEF RowKept
  <2> QED  BY <1>2, <2>1, <2>2, <2>3, <2>4
<1> QED  BY <1>1, <1>2

\* upsert_channel
LEMMA ResolvedRow ==
  ASSUME CollectionInv, NEW c \in Channels, chan'[c] = Resolved(c),
         chan[c] = None => rows < MaxRows /\ rows' = rows + 1
  PROVE  RowKept(c)
BY RowSwitched DEF Resolved

\* A job that is recovered or expired had lapsed.
LEMMA JobsOfOthers ==
  ASSUME NEW j \in Job \cup {None}
  PROVE  /\ Recovered(j) \in Job \cup {None} /\ Expired(j) \in Job \cup {None}
         /\ KeepsJob(j) => KeepsJob(Recovered(j)) /\ KeepsJob(Expired(j))
<1>1. CASE j = None  BY <1>1 DEF Recovered, Expired, KeepsJob
<1>2. CASE j \in Job
  <2>1. /\ [j EXCEPT !.status = "failed"] \in Job /\ [j EXCEPT !.status = "expired"] \in Job
        /\ [j EXCEPT !.status = "failed"].lapsed = j.lapsed
        /\ [j EXCEPT !.status = "expired"].lapsed = j.lapsed
    BY <1>2 DEF Job
  <2>2. None \notin Job  BY NoneAssumption
  <2> QED  BY <1>2, <2>1, <2>2 DEF Recovered, Expired, KeepsJob
<1> QED  BY <1>1, <1>2

\* sync_channels keeps every row.
LEMMA StartRows ==
  ASSUME CollectionInv, NEW w \in Collectors, Start(w)
  PROVE  \A c \in Channels : RowKept(c)
<1>1. PICK lost \in SUBSET Wanted :
        LET new == {c \in Wanted \ lost : chan[c] = None}
        IN  /\ new # {} => rows < MaxRows
            /\ rows' = IF new = {} THEN rows ELSE rows + 1
            /\ chan' = [c \in Channels |-> IF c \in Wanted \ lost THEN Resolved(c) ELSE chan[c]]
  BY DEF Start
<1>2. SUFFICES ASSUME NEW c \in Channels PROVE RowKept(c)
  OBVIOUS
<1>3. CASE c \in Wanted \ lost
  <2>1. chan'[c] = Resolved(c)  BY <1>1, <1>3
  <2>2. chan[c] = None => rows < MaxRows /\ rows' = rows + 1
    BY <1>1, <1>3
  <2> QED  BY <2>1, <2>2, ResolvedRow
<1>4. CASE c \notin Wanted \ lost
  BY <1>1, <1>4 DEF RowKept
<1> QED  BY <1>3, <1>4

\* amain: stale jobs are failed, the wanted channels resolved.
LEMMA StartKeeps ==
  ASSUME CollectionInv, NEW w \in Collectors, Start(w)
  PROVE  CollectionInv'
<1> DEFINE
      Resolves(lost, kept) ==
        LET new == {c \in Wanted \ lost : chan[c] = None}
        IN  /\ IF lost = {} THEN UNCHANGED faults ELSE Fault
            /\ \A c, d \in new : c = d
            /\ new # {} => rows < MaxRows
            /\ rows' = IF new = {} THEN rows ELSE rows + 1
            /\ chan' = [c \in Channels |-> IF c \in Wanted \ lost THEN Resolved(c) ELSE chan[c]]
            /\ proc' = [proc EXCEPT ![w] =
                 [Down EXCEPT !.up = TRUE, !.entities = (Wanted \ lost) \cup kept]]
<1>1. PICK lost \in SUBSET Wanted : \E kept \in SUBSET lost : Resolves(lost, kept)
  BY DEF Start
<1>2. PICK kept \in SUBSET lost : Resolves(lost, kept)  BY <1>1
<1>3. /\ IF lost = {} THEN UNCHANGED faults ELSE Fault
      /\ \A c, d \in Wanted \ lost : chan[c] = None /\ chan[d] = None => c = d
      /\ \A c \in Wanted \ lost : chan[c] = None => rows < MaxRows /\ rows' = rows + 1
      /\ (\A c \in Wanted \ lost : chan[c] # None) => rows' = rows
      /\ chan' = [c \in Channels |-> IF c \in Wanted \ lost THEN Resolved(c) ELSE chan[c]]
      /\ proc' = [proc EXCEPT ![w] =
           [Down EXCEPT !.up = TRUE, !.entities = (Wanted \ lost) \cup kept]]
  BY <1>2
<1> HIDE DEF Resolves
<1>4. /\ UNCHANGED <<tg, scan, edits>>
      /\ job' = [c \in Channels |-> [v \in Collectors |-> Recovered(job[c][v])]]
  BY DEF Start
<1>5. faults' \in 0 .. MaxFaults
  BY <1>3, FaultType DEF CollectionInv, TypeOK
<1>6. rows \in Nat /\ rows' \in 0 .. MaxRows /\ rows <= rows'
  BY <1>3, MessagesAreNumbers DEF CollectionInv, TypeOK
<1>7. \A c \in Channels : RowKept(c)  BY StartRows
<1>8. RowsInv' /\ \A c \in Channels : chan'[c] \in Row \cup {None}
  BY <1>4, <1>6, <1>7, RowsKept
<1>9. chan' \in [Channels -> Row \cup {None}]  BY <1>3, <1>8
<1>10. proc' \in [Collectors -> Proc]
  <2>1. (Wanted \ lost) \cup kept \subseteq Channels
    BY CollectionAssumption DEF Wanted
  <2>2. [Down EXCEPT !.up = TRUE, !.entities = (Wanted \ lost) \cup kept] \in Proc
    BY <2>1 DEF Down, Proc
  <2> QED  BY <1>3, <2>2 DEF CollectionInv, TypeOK
<1>11. ASSUME NEW c \in Channels, NEW v \in Collectors
      PROVE  /\ job'[c][v] = Recovered(job[c][v])
             /\ job[c][v] \in Job \cup {None}
  BY <1>4 DEF CollectionInv, TypeOK
<1>12. job' \in [Channels -> [Collectors -> Job \cup {None}]]
  BY <1>4, <1>11, JobsOfOthers
<1>13. ASSUME NEW v \in Collectors, InScan(v)
       PROVE  ScanOK(scan[v], tg[scan[v].ch], chan'[scan[v].ch], job'[scan[v].ch][v])
  <2>1. scan[v].ch \in Channels  BY <1>13, ScanAt
  <2>2. KeepsJob(job[scan[v].ch][v]) => KeepsJob(job'[scan[v].ch][v])
    BY <1>11, <2>1, JobsOfOthers
  <2>3. PICK j2 : j2 = job'[scan[v].ch][v]  OBVIOUS
  <2> QED  BY <1>7, <1>13, <2>1, <2>2, <2>3, RowKeptForScan
<1>14. edits' \in 0 .. MaxEdits  BY <1>4 DEF CollectionInv, TypeOK
<1> QED  BY <1>4, <1>5, <1>6, <1>8, <1>9, <1>10, <1>12, <1>13, <1>14, StillStep

\* The owner adds a channel or switches it off.
LEMMA RowStep ==
  ASSUME CollectionInv, UNCHANGED <<tg, scan, job, proc, faults>>,
         NEW c \in Channels, NEW r2, chan' = [chan EXCEPT ![c] = r2], RowKept(c),
         rows <= rows', rows' \in 0 .. MaxRows, edits' \in 0 .. MaxEdits
  PROVE  CollectionInv'
<1>1. \A d \in Channels : RowKept(d)
  BY DEF RowKept, CollectionInv, TypeOK
<1>2. RowsInv' /\ \A d \in Channels : chan'[d] \in Row \cup {None}
  BY <1>1, RowsKept
<1>3. /\ chan' \in [Channels -> Row \cup {None}]
      /\ job' \in [Channels -> [Collectors -> Job \cup {None}]]
      /\ proc' \in [Collectors -> Proc] /\ faults' \in 0 .. MaxFaults
  BY <1>2 DEF CollectionInv, TypeOK
<1>4. ASSUME NEW v \in Collectors, InScan(v)
      PROVE  ScanOK(scan[v], tg[scan[v].ch], chan'[scan[v].ch], job'[scan[v].ch][v])
  BY <1>1, <1>4, ScanAt, RowKeptForScan
<1> QED  BY <1>2, <1>3, <1>4, StillStep

LEMMA AddChannelKeeps ==
  ASSUME CollectionInv, NEW c \in Channels, AddChannel(c)
  PROVE  CollectionInv'
<1>1. chan'[c] = Added(c) /\ chan' = [chan EXCEPT ![c] = Added(c)]
  BY DEF AddChannel, CollectionInv, TypeOK
<1>2. rows \in Nat /\ rows <= rows' /\ rows' \in 0 .. MaxRows
  BY MessagesAreNumbers DEF AddChannel, CollectionInv, TypeOK
<1>3. RowKept(c)  BY <1>1, RowSwitched DEF AddChannel, Added
<1>4. edits' \in 0 .. MaxEdits  BY DEF AddChannel, CollectionInv, TypeOK
<1> QED  BY <1>1, <1>2, <1>3, <1>4, RowStep DEF AddChannel

\* A bounded change.
LEMMA EditType ==
  ASSUME TypeOK, edits < MaxEdits, edits' = edits + 1
  PROVE  edits' \in 0 .. MaxEdits
BY CollectionAssumption DEF TypeOK

LEMMA DeactivateChannelKeeps ==
  ASSUME CollectionInv, NEW c \in Channels, DeactivateChannel(c)
  PROVE  CollectionInv'
<1> DEFINE r2 == [chan[c] EXCEPT !.active = FALSE]
<1>1. chan'[c] = r2 /\ chan' = [chan EXCEPT ![c] = r2] /\ chan[c] # None
  BY DEF DeactivateChannel, CollectionInv, TypeOK
<1>2. rows \in Nat /\ rows <= rows' /\ rows' \in 0 .. MaxRows
  BY MessagesAreNumbers DEF DeactivateChannel, CollectionInv, TypeOK
<1>3. RowKept(c)  BY <1>1, RowSwitched
<1>4. edits' \in 0 .. MaxEdits  BY EditType DEF DeactivateChannel, CollectionInv
<1> HIDE DEF r2
<1> QED  BY <1>1, <1>2, <1>3, <1>4, RowStep DEF DeactivateChannel

\* A row that is deleted is no scan's any more.
LEMMA DeleteChannelKeeps ==
  ASSUME CollectionInv, NEW c \in Channels, DeleteChannel(c)
  PROVE  CollectionInv'
<1>1. /\ chan' = [chan EXCEPT ![c] = None]
      /\ job' = [job EXCEPT ![c] = [v \in Collectors |-> None]]
      /\ UNCHANGED <<tg, proc, scan, rows, edits, faults>>
  BY DEF DeleteChannel
<1>2. /\ chan' \in [Channels -> Row \cup {None}]
      /\ job' \in [Channels -> [Collectors -> Job \cup {None}]]
      /\ \A d \in Channels : d # c => chan'[d] = chan[d] /\ job'[d] = job[d]
      /\ chan'[c] = None
  BY <1>1 DEF CollectionInv, TypeOK
<1>3. RowsInv'  BY <1>1, <1>2 DEF CollectionInv, RowsInv
<1>4. ASSUME NEW v \in Collectors, InScan(v)
      PROVE  ScanOK(scan[v], tg[scan[v].ch], chan'[scan[v].ch], job'[scan[v].ch][v])
  <2>1. /\ ScanOK(scan[v], tg[scan[v].ch], chan[scan[v].ch], job[scan[v].ch][v])
        /\ scan[v].ch \in Channels
    BY <1>4, ScanAt
  <2>2. CASE scan[v].ch # c  BY <1>2, <2>1, <2>2
  <2>3. CASE scan[v].ch = c
    <3>1. ~IsRow(chan'[scan[v].ch], scan[v])  BY <1>2, <2>3 DEF IsRow
    <3> QED  BY <2>1, <3>1 DEF ScanOK
  <2> QED  BY <2>2, <2>3
<1>5. /\ proc' \in [Collectors -> Proc] /\ rows' \in 0 .. MaxRows
      /\ edits' \in 0 .. MaxEdits /\ faults' \in 0 .. MaxFaults /\ rows <= rows'
  BY <1>1, MessagesAreNumbers DEF CollectionInv, TypeOK
<1> QED  BY <1>1, <1>2, <1>3, <1>4, <1>5, StillStep

\* A step that changes only one job.
LEMMA LeaseLapsesKeeps ==
  ASSUME CollectionInv, NEW c \in Channels, NEW w \in Collectors, LeaseLapses(c, w)
  PROVE  CollectionInv'
<1> DEFINE j2 == [job[c][w] EXCEPT !.lapsed = TRUE]
<1>1. /\ job' = [job EXCEPT ![c] = [job[c] EXCEPT ![w] = j2]]
      /\ UNCHANGED <<tg, chan, proc, scan, rows, edits, faults>>
  BY DEF LeaseLapses
<1>2. j2 \in Job /\ KeepsJob(j2)
  <2>1. job[c][w] \in Job  BY StateTypes DEF LeaseLapses, CollectionInv
  <2>2. j2 \in Job /\ j2.lapsed  BY <2>1 DEF Job
  <2> QED  BY <2>2, NoneAssumption DEF KeepsJob
<1> HIDE DEF j2
<1>3. /\ job' \in [Channels -> [Collectors -> Job \cup {None}]]
      /\ \A d \in Channels, v \in Collectors :
           job'[d][v] = IF d = c /\ v = w THEN j2 ELSE job[d][v]
  BY <1>1, <1>2 DEF CollectionInv, TypeOK
<1>4. ASSUME NEW v \in Collectors, InScan(v)
      PROVE  ScanOK(scan[v], tg[scan[v].ch], chan'[scan[v].ch], job'[scan[v].ch][v])
  <2>1. scan[v].ch \in Channels /\ RowKept(scan[v].ch)
    BY <1>1, <1>4, ScanAt DEF RowKept
  <2>2. KeepsJob(job[scan[v].ch][v]) => KeepsJob(job'[scan[v].ch][v])
    BY <1>2, <1>3, <2>1
  <2> QED  BY <1>4, <2>1, <2>2, RowKeptForScan
<1>5. RowsInv'  BY <1>1 DEF CollectionInv, RowsInv
<1>6. /\ proc' \in [Collectors -> Proc] /\ rows' \in 0 .. MaxRows
      /\ chan' \in [Channels -> Row \cup {None}]
      /\ edits' \in 0 .. MaxEdits /\ faults' \in 0 .. MaxFaults /\ rows <= rows'
  BY <1>1, MessagesAreNumbers DEF CollectionInv, TypeOK
<1> QED  BY <1>1, <1>3, <1>4, <1>5, <1>6, StillStep

\* A step that changes no table, no scan and nothing on Telegram.
LEMMA ProcessStep ==
  ASSUME CollectionInv, UNCHANGED <<tg, chan, job, scan, rows, edits, faults>>,
         proc' \in [Collectors -> Proc]
  PROVE  CollectionInv'
<1>1. RowsInv'  BY DEF CollectionInv, RowsInv
<1>2. /\ rows' \in 0 .. MaxRows /\ rows <= rows'
      /\ chan' \in [Channels -> Row \cup {None}]
      /\ job' \in [Channels -> [Collectors -> Job \cup {None}]]
      /\ edits' \in 0 .. MaxEdits /\ faults' \in 0 .. MaxFaults
  BY MessagesAreNumbers DEF CollectionInv, TypeOK
<1>3. \A v \in Collectors : InScan(v) =>
        ScanOK(scan[v], tg[scan[v].ch], chan'[scan[v].ch], job'[scan[v].ch][v])
  BY DEF CollectionInv, ScansInv
<1> QED  BY <1>1, <1>2, <1>3, StillStep

LEMMA FloodPassesKeeps ==
  ASSUME CollectionInv, NEW w \in Collectors, FloodPasses(w)
  PROVE  CollectionInv'
<1>1. [proc[w] EXCEPT !.flood = FALSE] \in Proc
  BY StateTypes DEF CollectionInv, Proc
<1>2. proc' \in [Collectors -> Proc]
  BY <1>1 DEF FloodPasses, CollectionInv, TypeOK
<1> QED  BY <1>2, ProcessStep DEF FloodPasses

-----------------------------------------------------------------------------
(* The steps of poll_channel. *)

\* upsert_channel keeps every row.
LEMMA ResolveRows ==
  ASSUME CollectionInv, NEW w \in Collectors, Resolve(w)
  PROVE  \A d \in Channels : RowKept(d)
<1>1. InScan(w)  BY DEF Resolve, InScan, Scanning
<1>2. PICK c \in Channels : c = scan[w].ch  BY <1>1, ScanAt
<1>3. SUFFICES ASSUME NEW d \in Channels PROVE RowKept(d)
  OBVIOUS
<1>4. CASE Stored(w, c) /\ d = c
  <2>1. chan'[d] = Resolved(d)  BY <1>2, <1>4 DEF Resolve, CollectionInv, TypeOK
  <2>2. chan[d] = None => rows < MaxRows /\ rows' = rows + 1
    BY <1>2, <1>4 DEF Resolve
  <2> QED  BY <2>1, <2>2, ResolvedRow
<1>5. CASE ~(Stored(w, c) /\ d = c)
  <2>1. chan'[d] = chan[d]  BY <1>2, <1>5 DEF Resolve, CollectionInv, TypeOK
  <2> QED  BY <2>1 DEF RowKept
<1> QED  BY <1>4, <1>5

\* resolve_entity: the row of the channel is made if it is gone.
LEMMA ResolveKeeps ==
  ASSUME CollectionInv, NEW w \in Collectors, Resolve(w)
  PROVE  CollectionInv'
<1> DEFINE K == IF Mine(w) THEN {m \in Msgs : \E k \in Comments :
                  chan[scan[w].ch].comments[m][k] \in Tokens} ELSE {}
<1>1. InScan(w)  BY DEF Resolve, InScan, Scanning
<1>2. PICK c \in Channels : c = scan[w].ch  BY <1>1, ScanAt
<1>3. K \in SUBSET Msgs  OBVIOUS
<1>4. PICK s1 \in Scan : s1 = [scan[w] EXCEPT !.known = K] /\ Same(scan[w], s1)
  <2> HIDE DEF K
  <2> QED  BY <1>1, <1>3, ScanAt, KnownSet
<1>5. PICK s2 \in Scan : s2 = [s1 EXCEPT !.pc = "read"] /\ Same(s1, s2) /\ s2.pc = "read"
  BY PlaceSet DEF Places, Scanning
<1>6. scan' = [scan EXCEPT ![w] = s2] /\ Same(scan[w], s2)
  <2>1. scan' = [scan EXCEPT ![w] = s2]  BY <1>4, <1>5 DEF Resolve, Goto
  <2> QED  BY <2>1, <1>4, <1>5 DEF Same
<1> HIDE DEF K
<1>7. rows \in Nat /\ rows <= rows' /\ rows' \in 0 .. MaxRows
  BY MessagesAreNumbers DEF Resolve, CollectionInv, TypeOK
<1>8. \A d \in Channels : RowKept(d)  BY ResolveRows
<1>9. UNCHANGED <<tg, job, edits, faults>>  BY DEF Resolve
<1>10. RowsInv' /\ \A d \in Channels : chan'[d] \in Row \cup {None}
  BY <1>7, <1>8, <1>9, RowsKept
<1>11. /\ chan' \in [Channels -> Row \cup {None}]
       /\ job' \in [Channels -> [Collectors -> Job \cup {None}]]
       /\ edits' \in 0 .. MaxEdits /\ faults' \in 0 .. MaxFaults
  <2>1. chan' = chan \/ \E x : chan' = [chan EXCEPT ![c] = x]
    BY <1>2 DEF Resolve
  <2>2. chan' = [d \in Channels |-> chan'[d]]
    BY <2>1 DEF CollectionInv, TypeOK
  <2> QED  BY <1>9, <1>10, <2>2 DEF CollectionInv, TypeOK
<1>12. proc' \in [Collectors -> Proc]
  <2>1. [proc[w] EXCEPT !.entities = @ \cup {c}] \in Proc
    BY StateTypes DEF CollectionInv, Proc
  <2> QED  BY <1>2, <2>1 DEF Resolve, CollectionInv, TypeOK
<1>13. ASSUME NEW v \in Collectors, InScan(v)
       PROVE  ScanOK(scan[v], tg[scan[v].ch], chan'[scan[v].ch], job'[scan[v].ch][v])
  BY <1>8, <1>9, <1>13, ScanAt, RowKeptForScan
<1>14. ScanOK(s2, tg[s2.ch], chan'[s2.ch], job'[s2.ch][w])
  <2>1. ScanOK(scan[w], tg[c], chan'[c], job'[c][w])  BY <1>1, <1>2, <1>13
  <2>2. PICK r2 : r2 = chan'[c]  OBVIOUS
  <2>3. PICK j2 : j2 = job'[c][w]  OBVIOUS
  <2>4. ScanOK(s2, tg[c], r2, j2)
    BY <1>5, <1>6, <2>1, <2>2, <2>3, GoesOn
  <2>5. s2.ch = c  BY <1>2, <1>6 DEF Same
  <2> QED  BY <2>2, <2>3, <2>4, <2>5
<1>15. /\ s2.pc \in Scanning /\ s2.ch = scan[w].ch /\ s2.id = scan[w].id
       /\ s2.alone = scan[w].alone /\ s2.id <= rows'
  <2>1. scan[w].id <= rows /\ scan[w].id \in Nat
    BY <1>1, ScanAt, MessagesAreNumbers DEF CollectionInv, RestInv, Scan
  <2> QED  BY <1>5, <1>6, <1>7, <2>1, MessagesAreNumbers DEF Same, Scanning
<1> QED  BY <1>1, <1>6, <1>7, <1>9, <1>10, <1>11, <1>12, <1>13, <1>14, <1>15, ScanStep

\* Reading ends: what is left of the page is before the cutoff.
LEMMA GoesToRetire ==
  ASSUME CollectionInv, NEW w \in Collectors, InScan(w), Goto(w, scan[w], "retire"),
         \A m \in scan[w].page : m < scan[w].since,
         UNCHANGED <<tg, chan, job, proc, rows, edits, faults>>
  PROVE  CollectionInv'
<1>1. PICK s2 \in Scan : /\ s2 = [scan[w] EXCEPT !.pc = "retire"]
                         /\ Same(scan[w], s2) /\ s2.pc = "retire"
  BY ScanAt, PlaceSet DEF Places, Scanning
<1>2. scan' = [scan EXCEPT ![w] = s2]  BY <1>1 DEF Goto
<1>3. ScanOK(s2, tg[scan[w].ch], chan[scan[w].ch], job[scan[w].ch][w])
  <2>1. PICK s \in Scan : s = scan[w]  BY ScanAt
  <2>2. PICK t : t = tg[s.ch]  OBVIOUS
  <2>3. PICK r : r = chan[s.ch]  OBVIOUS
  <2>4. PICK j : j = job[s.ch][w]  OBVIOUS
  <2>5. ScanOK(s, t, r, j)  BY <2>1, <2>2, <2>3, <2>4, ScanAt
  <2>6. Reads(s2, t)  BY <1>1, <2>1, <2>5 DEF ScanOK, Reads, Same
  <2>7. IsRow(r, s2) => KeepsJob(j) /\ Holds(s2, t, r)
    BY <1>1, <2>1, <2>5 DEF ScanOK, Same, IsRow, Holds
  <2> QED  BY <2>1, <2>2, <2>3, <2>4, <2>6, <2>7 DEF ScanOK
<1>4. /\ s2.ch = scan[w].ch /\ s2.id = scan[w].id /\ s2.alone = scan[w].alone
      /\ s2.pc \in Scanning
  BY <1>1 DEF Same, Scanning
<1>5. /\ proc' \in [Collectors -> Proc]
      /\ edits' \in 0 .. MaxEdits /\ faults' \in 0 .. MaxFaults
  BY DEF CollectionInv, TypeOK
<1> QED  BY <1>2, <1>3, <1>4, <1>5, QuietStep

LEMMA ReachCutoffKeeps ==
  ASSUME CollectionInv, NEW w \in Collectors, ReachCutoff(w)
  PROVE  CollectionInv'
<1>1. InScan(w)  BY DEF ReachCutoff, InScan, Scanning
<1>2. PICK P \in SUBSET Msgs : P = scan[w].page  BY <1>1, ScanAt DEF Scan
<1>3. Newest(P) \in P /\ \A n \in P : n <= Newest(P)
  BY <1>2, NewestIsThere DEF ReachCutoff
<1>4. scan[w].since \in Nat
  BY <1>1, ScanAt, CollectionAssumption DEF Scan
<1>5. ASSUME NEW m \in scan[w].page PROVE m < scan[w].since
  <2>1. PICK n \in Msgs : n = Newest(P)  BY <1>3
  <2>2. m <= n /\ n < scan[w].since  BY <1>2, <1>3, <2>1 DEF ReachCutoff
  <2>3. m \in Nat /\ n \in Nat
    <3>1. \A x \in Msgs : x \in Nat  BY MessagesAreNumbers
    <3> QED  BY <1>2, <3>1
  <2> QED  BY <1>4, <2>2, <2>3
<1> QED  BY <1>1, <1>5, GoesToRetire DEF ReachCutoff

\* After a page no message is missing above its oldest.
LEMMA PageReads ==
  ASSUME NEW s \in Scan, NEW s2 \in Scan, NEW t, NEW r, NEW j,
         ScanOK(s, t, r, j), NEW P \in SUBSET Msgs, P # {}, s.page = {},
         P \subseteq t.posts, t.posts \subseteq 1 .. t.top, t.posts \in SUBSET Msgs,
         \A m \in P : m < s.pos,
         \A m \in t.posts : m < s.pos /\ Oldest(P) <= m => m \in P,
         /\ s2.ch = s.ch /\ s2.id = s.id /\ s2.since = s.since /\ s2.pos = Oldest(P)
         /\ s2.seen = s.seen /\ s2.page = P /\ s2.alone = s.alone /\ s2.calm = s.calm
         /\ s2.pc = "read"
  PROVE  ScanOK(s2, t, r, j)
<1>1. Oldest(P) \in P /\ \A n \in P : Oldest(P) <= n  BY OldestIsThere
<1>2. PICK o \in Msgs : o = Oldest(P)  BY <1>1
<1>3. /\ o \in Nat /\ s.pos \in Nat /\ o < s.pos
      /\ \A m \in Msgs : m \in Nat
      /\ s.seen \subseteq Msgs
  <2>1. s.pos \in 1 .. (MaxMsg + 1) /\ s.seen \subseteq Msgs  BY DEF Scan
  <2> QED  BY <1>1, <1>2, <2>1, MessagesAreNumbers
<1>4. \A m \in Msgs : s.pos <= m => o <= m
  BY <1>3
<1>5. Reads(s2, t)
  <2>1. \A m \in s2.seen \cup s2.page : s2.pos <= m
    <3>1. ASSUME NEW m \in s.seen PROVE o <= m
      BY <1>3, <1>4 DEF ScanOK, Reads
    <3> QED  BY <1>1, <1>2, <3>1
  <2>2. ASSUME s2.calm, NEW m \in Msgs, o <= m
        PROVE  m \in t.posts <=> m \in s2.seen \cup s2.page
    <3>1. CASE s.pos <= m
      <4>1. m \notin P  BY <1>3, <3>1
      <4>2. m \in t.posts <=> m \in s.seen  BY <2>2, <3>1 DEF ScanOK, Reads
      <4> QED  BY <4>1, <4>2
    <3>2. CASE ~(s.pos <= m)
      <4>1. m \notin s.seen  BY <3>2 DEF ScanOK, Reads
      <4>2. m < s.pos  BY <1>3, <3>2
      <4> QED  BY <1>2, <2>2, <4>1, <4>2
    <3> QED  BY <3>1, <3>2
  <2>3. \A m \in P : m <= t.top  OBVIOUS
  <2> QED  BY <1>2, <2>1, <2>2, <2>3 DEF ScanOK, Reads
<1>6. ASSUME IsRow(r, s2) PROVE KeepsJob(j) /\ Holds(s2, t, r)
  <2>1. KeepsJob(j) /\ Holds(s, t, r)  BY <1>6 DEF ScanOK, IsRow
  <2>2. ASSUME s2.alone, NEW m \in t.posts, o <= m, r.posts[m] = "live"
        PROVE  m \in s2.seen \cup s2.page
    <3>1. CASE s.pos <= m  BY <2>1, <2>2, <3>1 DEF Holds
    <3>2. CASE ~(s.pos <= m)
      <4>1. m < s.pos  BY <1>3, <3>2
      <4> QED  BY <1>2, <2>2, <4>1
    <3> QED  BY <3>1, <3>2
  <2> QED  BY <1>2, <2>1, <2>2 DEF Holds
<1> QED  BY <1>5, <1>6 DEF ScanOK

LEMMA FetchKeeps ==
  ASSUME CollectionInv, NEW w \in Collectors, Fetch(w)
  PROVE  CollectionInv'
<1>1. InScan(w)  BY DEF Fetch, InScan, Scanning
<1>2. CASE NextPage(w) = {}
  <2>1. /\ Goto(w, scan[w], "retire") /\ scan[w].page = {}
        /\ UNCHANGED <<tg, chan, job, proc, rows, edits, faults>>
    BY <1>2 DEF Fetch
  <2> QED  BY <1>1, <2>1, GoesToRetire
<1>3. CASE NextPage(w) # {}
  <2>1. PICK s \in Scan : s = scan[w]  BY <1>1, ScanAt
  <2>2. PICK c \in Channels : c = s.ch  BY <1>1, <2>1, ScanAt
  <2>3. PICK t : t = tg[c]  OBVIOUS
  <2>4. /\ t.posts \in SUBSET Msgs /\ t.posts \subseteq 1 .. t.top
        /\ NextPage(w) \subseteq t.posts /\ \A m \in NextPage(w) : m < s.pos
    BY <2>1, <2>2, <2>3, StateTypes DEF CollectionInv, RowsInv, NextPage
  <2>5. PICK P \in SUBSET Msgs : P = NextPage(w)  BY <2>4
  <2>6. Oldest(P) \in Msgs /\ Oldest(P) \in 1 .. (MaxMsg + 1)
    <3>1. PICK o : o = Oldest(P)  OBVIOUS
    <3>2. o \in P  BY <1>3, <2>5, <3>1, OldestIsThere
    <3>3. o \in 1 .. (MaxMsg + 1)  BY <3>2, MessagesAreNumbers
    <3> QED  BY <3>1, <3>2, <3>3
  <2>7. s.got + Cardinality(P) \in Nat
    <3>1. IsFiniteSet(1 .. MaxMsg) /\ P \subseteq 1 .. MaxMsg
      BY FS_Interval, MessagesAreNumbers
    <3>2. Cardinality(P) \in Nat  BY <3>1, FS_Subset, FS_CardinalityType
    <3>3. s.got \in Nat  BY DEF Scan
    <3> QED  BY <3>2, <3>3
  <2>8. PICK s1 \in Scan :
          /\ s1 = [s EXCEPT !.page = P, !.pos = Oldest(P), !.got = s.got + Cardinality(P)]
          /\ s1.ch = s.ch /\ s1.id = s.id /\ s1.since = s.since
          /\ s1.pos = Oldest(P) /\ s1.seen = s.seen /\ s1.page = P
          /\ s1.alone = s.alone /\ s1.calm = s.calm
    <3>2. PICK o \in 1 .. (MaxMsg + 1) : o = Oldest(P)  BY <2>6
    <3>3. PICK g \in Nat : g = s.got + Cardinality(P)  BY <2>7
    <3>4. PICK s1 : s1 = [s EXCEPT !.page = P, !.pos = o, !.got = g]  OBVIOUS
    <3>5. /\ s1 \in Scan /\ s1.ch = s.ch /\ s1.id = s.id /\ s1.since = s.since
          /\ s1.pos = o /\ s1.seen = s.seen /\ s1.page = P
          /\ s1.alone = s.alone /\ s1.calm = s.calm
      BY <3>4 DEF Scan
    <3> QED  BY <3>2, <3>3, <3>4, <3>5
  <2>9. PICK s2 \in Scan : s2 = [s1 EXCEPT !.pc = "read"] /\ Same(s1, s2) /\ s2.pc = "read"
    BY PlaceSet DEF Places, Scanning
  <2>10. /\ scan' = [scan EXCEPT ![w] = s2] /\ s.page = {}
         /\ UNCHANGED <<tg, chan, job, proc, rows, edits, faults>>
    BY <1>3, <2>1, <2>5, <2>8, <2>9 DEF Fetch, Goto
  <2>11. PICK r : r = chan[c]  OBVIOUS
  <2>12. PICK j : j = job[c][w]  OBVIOUS
  <2>13. \A m \in t.posts : m < s.pos /\ Oldest(P) <= m => m \in P
    <3>1. s.got \in Nat  BY DEF Scan
    <3> QED  BY <1>3, <2>1, <2>2, <2>3, <2>4, <2>5, <3>1, PageIsWhole
  <2>14. /\ s2.ch = s.ch /\ s2.id = s.id /\ s2.since = s.since /\ s2.pos = Oldest(P)
         /\ s2.seen = s.seen /\ s2.page = P /\ s2.alone = s.alone /\ s2.calm = s.calm
    BY <2>8, <2>9 DEF Same
  <2>15. ScanOK(s, t, r, j)
    BY <1>1, <2>1, <2>2, <2>3, <2>11, <2>12, ScanAt
  <2>16. P # {} /\ P \subseteq t.posts /\ \A m \in P : m < s.pos
    BY <1>3, <2>4, <2>5
  <2>17. ScanOK(s2, t, r, j)
    BY <2>4, <2>9, <2>10, <2>13, <2>14, <2>15, <2>16, PageReads
  <2>18. s2.pc \in Scanning  BY <2>9 DEF Scanning
  <2>19. /\ proc' \in [Collectors -> Proc]
         /\ edits' \in 0 .. MaxEdits /\ faults' \in 0 .. MaxFaults
    BY <2>10 DEF CollectionInv, TypeOK
  <2> QED  BY <1>1, <2>1, <2>2, <2>3, <2>10, <2>11, <2>12, <2>14, <2>17, <2>18, <2>19,
              QuietStep
<1> QED  BY <1>2, <1>3

\* A step of process w that writes no row and no job but its own.
LEMMA OwnJobStep ==
  ASSUME CollectionInv, NEW w \in Collectors, NEW s2 \in Scan,
         scan' = [scan EXCEPT ![w] = s2], UNCHANGED <<tg, chan, rows, edits>>,
         job' \in [Channels -> [Collectors -> Job \cup {None}]],
         \A c \in Channels, v \in Collectors : v # w => job'[c][v] = job[c][v],
         proc' \in [Collectors -> Proc], faults' \in 0 .. MaxFaults,
         s2.pc \in Scanning =>
           /\ InScan(w) /\ s2.ch = scan[w].ch /\ s2.id = scan[w].id
           /\ s2.alone => scan[w].alone
           /\ ScanOK(s2, tg[s2.ch], chan[s2.ch], job'[s2.ch][w]),
         s2.pc \notin Scanning => Fresh(s2) /\ s2.id <= rows
  PROVE  CollectionInv'
<1>1. /\ chan' \in [Channels -> Row \cup {None}] /\ edits' \in 0 .. MaxEdits
      /\ rows' \in 0 .. MaxRows /\ rows \in Nat
  BY MessagesAreNumbers DEF CollectionInv, TypeOK
<1>2. RowsInv' /\ s2.id <= rows'
  BY DEF CollectionInv, RowsInv, RestInv
<1>3. \A v \in Collectors : v # w /\ InScan(v) =>
        ScanOK(scan[v], tg[scan[v].ch], chan'[scan[v].ch], job'[scan[v].ch][v])
  BY ScanAt
<1>4. rows <= rows'  BY <1>1
<1> QED  BY <1>1, <1>2, <1>3, <1>4, ScanStep

\* upsert_post, mark_unseen_posts_deleted, upsert_comment,
\* mark_unseen_comments_deleted: what they leave of the row.
LEMMA PostSet ==
  ASSUME NEW r \in Row, NEW m \in Msgs
  PROVE  LET r2 == Upserted(r, m)
         IN  /\ r2 \in Row /\ r2.id = r.id /\ r2.comments = r.comments
             /\ \A n \in Msgs : r2.posts[n] = IF n = m THEN "live" ELSE r.posts[n]
BY DEF Row, Upserted

LEMMA PostsSet ==
  ASSUME NEW r \in Row, NEW P \in [Msgs -> {"none", "live", "retired"}]
  PROVE  LET r2 == [r EXCEPT !.posts = P]
         IN  /\ r2 \in Row /\ r2.id = r.id /\ r2.comments = r.comments
             /\ r2.posts = P
BY DEF Row

LEMMA CommentsSet ==
  ASSUME NEW r \in Row, NEW m \in Msgs, NEW F \in [Comments -> Tokens \cup {"none", "retired"}]
  PROVE  LET r2 == [r EXCEPT !.comments[m] = F]
         IN  /\ r2 \in Row /\ r2.id = r.id /\ r2.posts = r.posts
             /\ r2.comments[m] = F
             /\ \A n \in Msgs : n # m => r2.comments[n] = r.comments[n]
BY DEF Row

LEMMA CommentSet ==
  ASSUME NEW r \in Row, NEW m \in Msgs, NEW k \in Comments, NEW x \in Tokens
  PROVE  LET r2 == [r EXCEPT !.comments[m][k] = x]
         IN  /\ r2 \in Row /\ r2.id = r.id /\ r2.posts = r.posts
             /\ \A l \in Comments :
                  r2.comments[m][l] = IF l = k THEN x ELSE r.comments[m][l]
             /\ \A n \in Msgs : n # m => r2.comments[n] = r.comments[n]
BY DEF Row

\* renew_collection_job
LEMMA RenewedJob ==
  ASSUME NEW j \in Job \cup {None}
  PROVE  /\ Renewed(j) \in Job \cup {None}
         /\ KeepsJob(j) => KeepsJob(Renewed(j))
<1>1. CASE j = None  BY <1>1 DEF Renewed, KeepsJob
<1>2. CASE j \in Job
  <2>1. /\ [j EXCEPT !.lapsed = FALSE] \in Job
        /\ [j EXCEPT !.lapsed = FALSE].status = j.status
    BY <1>2 DEF Job
  <2> QED  BY <1>2, <2>1, NoneAssumption DEF Renewed, KeepsJob
<1> QED  BY <1>1, <1>2

\* A message is handled: it moves from the page to what was seen.
LEMMA Handled ==
  ASSUME NEW s \in Scan, NEW s2, NEW t, NEW r, NEW r2, NEW j, NEW j2,
         NEW m \in s.page, ScanOK(s, t, r, j), t.posts \subseteq Msgs,
         IsRow(r2, s) => /\ IsRow(r, s)
                         /\ \A n \in Msgs : r2.posts[n] = IF n = m THEN "live" ELSE r.posts[n],
         KeepsJob(j) => KeepsJob(j2),
         /\ s2.ch = s.ch /\ s2.id = s.id /\ s2.since = s.since /\ s2.pos = s.pos
         /\ s2.seen = s.seen \cup {m} /\ s2.page = s.page \ {m}
         /\ s2.alone = s.alone /\ s2.calm = s.calm,
         s2.pc = "read" \/ (s2.pc = "thread" /\ s2.msg \in Msgs)
  PROVE  ScanOK(s2, t, r2, j2)
<1>1. s2.seen \cup s2.page = s.seen \cup s.page  OBVIOUS
<1>2. Reads(s2, t)  BY <1>1 DEF ScanOK, Reads
<1>3. ASSUME IsRow(r2, s2) PROVE KeepsJob(j2) /\ Holds(s2, t, r2)
  <2>1. /\ KeepsJob(j) /\ Holds(s, t, r)
        /\ \A n \in Msgs : r2.posts[n] = IF n = m THEN "live" ELSE r.posts[n]
    BY <1>3 DEF ScanOK, IsRow
  <2>2. s.seen \subseteq Msgs /\ m \in Msgs  BY DEF Scan
  <2> QED  BY <1>1, <2>1, <2>2 DEF Holds
<1> QED  BY <1>2, <1>3 DEF ScanOK

LEMMA StoreKeeps ==
  ASSUME CollectionInv, NEW w \in Collectors, Store(w)
  PROVE  CollectionInv'
<1>1. InScan(w)  BY DEF Store, InScan, Scanning
<1>2. PICK s \in Scan : s = scan[w]  BY <1>1, ScanAt
<1>3. PICK c \in Channels : c = s.ch  BY <1>1, <1>2, ScanAt
<1>4. PICK m \in s.page : m = Newest(s.page)
  <2>1. s.page \in SUBSET Msgs /\ s.page # {}  BY <1>2 DEF Store, Scan
  <2> QED  BY <2>1, NewestIsThere
<1>5. m \in Msgs  BY DEF Scan
<1>6. PICK j2 : j2 = Renewed(job[c][w])  OBVIOUS
<1>7. j2 \in Job \cup {None} /\ (KeepsJob(job[c][w]) => KeepsJob(j2))
  BY <1>6, RenewedJob DEF CollectionInv, TypeOK
<1>8. job' = [job EXCEPT ![c] = [job[c] EXCEPT ![w] = j2]]
  BY <1>2, <1>3, <1>6 DEF Store
<1>9. /\ job' \in [Channels -> [Collectors -> Job \cup {None}]]
      /\ \A d \in Channels, v \in Collectors : v # w => job'[d][v] = job[d][v]
      /\ job'[c][w] = j2
  BY <1>7, <1>8 DEF CollectionInv, TypeOK
<1>10. /\ UNCHANGED <<tg, proc, rows, edits, faults>>
       /\ proc' \in [Collectors -> Proc] /\ faults' \in 0 .. MaxFaults
  BY DEF Store, CollectionInv, TypeOK
<1>11. PICK t : t = tg[c]  OBVIOUS
<1>12. PICK r : r = chan[c]  OBVIOUS
<1>13. /\ ScanOK(s, t, r, job[c][w]) /\ t.posts \subseteq Msgs
       /\ m <= t.top
  BY <1>1, <1>2, <1>3, <1>11, <1>12, ScanAt, StateTypes DEF CollectionInv, ScanOK, Reads
<1>14. Mine(w) <=> IsRow(r, s)  BY <1>1, <1>2, <1>3, <1>12, ScanAt
<1>15. CASE Mine(w)
  <2>1. r \in Row /\ IsRow(r, s)
    BY <1>12, <1>14, <1>15, StateTypes DEF IsRow, CollectionInv
  <2>2. PICK r2 : r2 = Upserted(r, m)  OBVIOUS
  <2>3. /\ r2 \in Row /\ r2.id = r.id
        /\ \A n \in Msgs : r2.posts[n] = IF n = m THEN "live" ELSE r.posts[n]
    BY <1>5, <2>1, <2>2, PostSet
  <2>4. chan' = [chan EXCEPT ![c] = r2]
    BY <1>2, <1>3, <1>4, <1>12, <1>15, <2>2 DEF Store
  <2>5. PICK s1 \in Scan :
          /\ s1 = [s EXCEPT !.page = s.page \ {m}, !.seen = s.seen \cup {m}]
          /\ s1.ch = s.ch /\ s1.id = s.id /\ s1.since = s.since
          /\ s1.pos = s.pos /\ s1.seen = s.seen \cup {m} /\ s1.page = s.page \ {m}
          /\ s1.alone = s.alone /\ s1.calm = s.calm
    <3>1. s.page \ {m} \in SUBSET Msgs /\ s.seen \cup {m} \in SUBSET Msgs
      BY <1>5 DEF Scan
    <3>2. PICK P \in SUBSET Msgs : P = s.page \ {m}  BY <3>1
    <3>3. PICK S \in SUBSET Msgs : S = s.seen \cup {m}  BY <3>1
    <3>4. PICK s1 : s1 = [s EXCEPT !.page = P, !.seen = S]  OBVIOUS
    <3>5. /\ s1 \in Scan /\ s1.ch = s.ch /\ s1.id = s.id /\ s1.since = s.since
          /\ s1.pos = s.pos /\ s1.seen = S /\ s1.page = P
          /\ s1.alone = s.alone /\ s1.calm = s.calm
      BY <3>4 DEF Scan
    <3> QED  BY <3>2, <3>3, <3>4, <3>5
  <2>6. PICK s2 \in Scan :
          /\ scan' = [scan EXCEPT ![w] = s2] /\ Same(s1, s2)
          /\ s2.pc = "read" \/ (s2.pc = "thread" /\ s2.msg \in Msgs)
    <3>1. CASE tg[c].said[m] # {} \/ m \in scan[w].known
      <4>1. PICK s3 \in Scan : s3 = [s1 EXCEPT !.msg = m] /\ Same(s1, s3) /\ s3.msg = m
        <5>1. m \in 0 .. MaxMsg  BY <1>5, MessagesAreNumbers
        <5> QED  BY <5>1, MsgSet
      <4>2. PICK s2 \in Scan : /\ s2 = [s3 EXCEPT !.pc = "thread"]
                               /\ Same(s3, s2) /\ s2.pc = "thread" /\ s2.msg = s3.msg
        <5>1. "thread" \in Places  BY DEF Places, Scanning
        <5>2. PICK s2 : s2 = [s3 EXCEPT !.pc = "thread"]  OBVIOUS
        <5>3. s2 \in Scan /\ Same(s3, s2) /\ s2.pc = "thread" /\ s2.msg = s3.msg
          BY <5>1, <5>2, PlaceSet
        <5> QED  BY <5>2, <5>3
      <4>3. scan' = [scan EXCEPT ![w] = s2]
        BY <1>2, <1>3, <1>4, <1>15, <2>5, <3>1, <4>1, <4>2 DEF Store, Goto
      <4>4. Same(s1, s2)  BY <4>1, <4>2 DEF Same
      <4> QED  BY <1>5, <4>1, <4>2, <4>3, <4>4
    <3>2. CASE ~(tg[c].said[m] # {} \/ m \in scan[w].known)
      <4>1. PICK s2 \in Scan : s2 = [s1 EXCEPT !.pc = "read"] /\ Same(s1, s2) /\ s2.pc = "read"
        BY PlaceSet DEF Places, Scanning
      <4>2. scan' = [scan EXCEPT ![w] = s2]
        BY <1>2, <1>3, <1>4, <1>15, <2>5, <3>2, <4>1 DEF Store, Goto
      <4> QED  BY <4>1, <4>2
    <3> QED  BY <3>1, <3>2
  <2>7. /\ s2.ch = s.ch /\ s2.id = s.id /\ s2.since = s.since /\ s2.pos = s.pos
        /\ s2.seen = s.seen \cup {m} /\ s2.page = s.page \ {m}
        /\ s2.alone = s.alone /\ s2.calm = s.calm
    BY <2>5, <2>6 DEF Same
  <2>8. ScanOK(s2, t, r2, j2)
    <3>1. PICK j : j = job[c][w]  OBVIOUS
    <3> QED  BY <1>7, <1>13, <2>1, <2>3, <2>6, <2>7, <3>1, Handled
  <2>9. \A n \in Msgs : /\ r.posts[n] # "none" => r2.posts[n] # "none"
                        /\ r2.posts[n] # "none" => n <= t.top
    <3>1. \A n \in Msgs : r.posts[n] # "none" => n <= t.top
      BY <1>11, <1>12, <2>1, NoneAssumption DEF CollectionInv, RowsInv
    <3> QED  BY <1>13, <2>3, <3>1
  <2>10. s2.pc \in Scanning  BY <2>6 DEF Scanning
  <2>11. ScanOK(s2, tg[s2.ch], r2, job'[s2.ch][w])
    BY <1>3, <1>9, <1>11, <2>7, <2>8
  <2>12. /\ r2.id = chan[scan[w].ch].id
         /\ \A n \in Msgs : /\ chan[scan[w].ch].posts[n] # "none" => r2.posts[n] # "none"
                            /\ r2.posts[n] # "none" => n <= tg[scan[w].ch].top
         /\ s2.ch = scan[w].ch /\ s2.id = scan[w].id
         /\ (s2.alone => scan[w].alone)
    BY <1>2, <1>3, <1>11, <1>12, <2>3, <2>4, <2>7, <2>9
  <2>13. /\ chan' \in [Channels -> Row \cup {None}] /\ chan'[scan[w].ch] = r2
         /\ \A d \in Channels : d # scan[w].ch => chan'[d] = chan[d]
    <3>1. chan \in [Channels -> Row \cup {None}] /\ scan[w].ch = c
      BY <1>2, <1>3 DEF CollectionInv, TypeOK
    <3> QED  BY <2>3, <2>4, <3>1
  <2>14. /\ InScan(w) /\ Mine(w) /\ r2 \in Row /\ faults' \in 0 .. MaxFaults
         /\ job' \in [Channels -> [Collectors -> Job \cup {None}]]
         /\ \A d \in Channels, v \in Collectors : v # w => job'[d][v] = job[d][v]
         /\ scan' = [scan EXCEPT ![w] = s2] /\ UNCHANGED <<tg, proc, rows, edits>>
    BY <1>1, <1>9, <1>10, <1>15, <2>3, <2>6
  <2> QED  BY <2>10, <2>11, <2>12, <2>13, <2>14, OwnRowStep
<1>16. CASE ~Mine(w)
  <2>1. PICK s1 \in Scan : s1 = [s EXCEPT !.failed = TRUE] /\ Same(s, s1)
    BY FailedSet
  <2>2. PICK s2 \in Scan : /\ s2 = [s1 EXCEPT !.pc = "finish"]
                           /\ Same(s1, s2) /\ s2.pc = "finish"
    BY PlaceSet DEF Places, Scanning
  <2>3. scan' = [scan EXCEPT ![w] = s2] /\ chan' = chan
    BY <1>2, <1>16, <2>1, <2>2 DEF Store, Over, Goto
  <2>4. Same(s, s2)  BY <2>1, <2>2 DEF Same
  <2>5. ScanOK(s2, t, r, j2)
    <3>1. PICK j : j = job[c][w]  OBVIOUS
    <3>2. ScanOK(s2, t, r, j)  BY <1>13, <2>2, <2>4, <3>1, GoesOn
    <3>3. ~IsRow(r, s2)  BY <1>14, <1>16, <2>4 DEF IsRow, Same
    <3> QED  BY <3>2, <3>3 DEF ScanOK
  <2>6. s2.pc \in Scanning /\ s2.ch = s.ch /\ s2.id = s.id /\ s2.alone = s.alone
    BY <2>2, <2>4 DEF Scanning, Same
  <2>7. ScanOK(s2, tg[s2.ch], chan[s2.ch], job'[s2.ch][w])
    BY <1>3, <1>9, <1>11, <1>12, <2>5, <2>6
  <2> QED  BY <1>1, <1>2, <1>9, <1>10, <2>3, <2>6, <2>7, OwnJobStep
<1> QED  BY <1>15, <1>16

\* A scan rewrites its row, keeping what is stored.
LEMMA OwnRowWritten ==
  ASSUME CollectionInv, NEW w \in Collectors, InScan(w), Mine(w), NEW s2 \in Scan,
         NEW c \in Channels, c = scan[w].ch, NEW r2 \in Row, r2.id = chan[c].id,
         \A m \in Msgs : r2.posts[m] # "none" <=> chan[c].posts[m] # "none",
         chan' = [chan EXCEPT ![c] = r2], scan' = [scan EXCEPT ![w] = s2] \/ Noted(w, s2),
         UNCHANGED <<tg, job, proc, rows, edits>>, faults' \in 0 .. MaxFaults,
         s2.pc \in Scanning, Same(scan[w], s2), ScanOK(s2, tg[c], r2, job[c][w])
  PROVE  CollectionInv'
<1>1. /\ chan \in [Channels -> Row \cup {None}]
      /\ job' \in [Channels -> [Collectors -> Job \cup {None}]]
  BY DEF CollectionInv, TypeOK
<1>2. /\ chan' \in [Channels -> Row \cup {None}] /\ chan'[c] = r2
      /\ \A d \in Channels : d # c => chan'[d] = chan[d]
  BY <1>1
<1>3. chan[c] # None
  BY ScanAt DEF IsRow
<1>4. \A m \in Msgs : /\ chan[c].posts[m] # "none" => r2.posts[m] # "none"
                      /\ r2.posts[m] # "none" => m <= tg[c].top
  BY <1>3 DEF CollectionInv, RowsInv
<1>5. s2.ch = c /\ s2.id = scan[w].id /\ s2.alone = scan[w].alone
  BY DEF Same
<1>6. /\ UNCHANGED <<tg, proc, rows, edits>>
      /\ \A d \in Channels, v \in Collectors : v # w => job'[d][v] = job[d][v]
      /\ ScanOK(s2, tg[s2.ch], r2, job'[s2.ch][w])
  BY <1>5
<1>7. /\ r2.id = chan[scan[w].ch].id /\ chan'[scan[w].ch] = r2
      /\ \A d \in Channels : d # scan[w].ch => chan'[d] = chan[d]
      /\ \A m \in Msgs : /\ chan[scan[w].ch].posts[m] # "none" => r2.posts[m] # "none"
                         /\ r2.posts[m] # "none" => m <= tg[scan[w].ch].top
      /\ s2.ch = scan[w].ch /\ s2.id = scan[w].id
      /\ s2.alone => scan[w].alone
  BY <1>2, <1>4, <1>5
<1>8. r2 \in Row /\ s2 \in Scan /\ s2.pc \in Scanning /\ InScan(w) /\ Mine(w)
  OBVIOUS
<1> QED  BY <1>1, <1>2, <1>6, <1>7, <1>8, OwnRowStep

\* A scan whose row is gone goes on without one.
LEMMA LostRowStep ==
  ASSUME CollectionInv, NEW w \in Collectors, InScan(w), ~Mine(w), NEW s2 \in Scan,
         Same(scan[w], s2), s2.pc \in {"replies", "read", "finish"},
         s2.pc = "replies" => s2.msg \in Msgs,
         scan' = [scan EXCEPT ![w] = s2] \/ Noted(w, s2),
         UNCHANGED <<tg, chan, job, proc, rows, edits>>,
         faults' \in 0 .. MaxFaults
  PROVE  CollectionInv'
<1>1. ScanOK(s2, tg[scan[w].ch], chan[scan[w].ch], job[scan[w].ch][w])
  <2>1. PICK s \in Scan : s = scan[w]  BY ScanAt
  <2>2. PICK t : t = tg[s.ch]  OBVIOUS
  <2>3. PICK r : r = chan[s.ch]  OBVIOUS
  <2>4. Reads(s, t) /\ ~IsRow(r, s)  BY <2>1, <2>2, <2>3, ScanAt DEF ScanOK
  <2>5. Reads(s2, t)  BY <2>1, <2>4 DEF Reads, Same
  <2>6. ~IsRow(r, s2)  BY <2>1, <2>4 DEF IsRow, Same
  <2> QED  BY <2>1, <2>2, <2>3, <2>5, <2>6 DEF ScanOK
<1>2. /\ s2.ch = scan[w].ch /\ s2.id = scan[w].id /\ s2.alone = scan[w].alone
      /\ s2.pc \in Scanning
  BY DEF Same, Scanning
<1>3. proc' \in [Collectors -> Proc] /\ edits' \in 0 .. MaxEdits
  BY DEF CollectionInv, TypeOK
<1> QED  BY <1>1, <1>2, <1>3, QuietStep

\* The row of a scan in a thread, and the thread's post.
LEMMA ThreadAt ==
  ASSUME CollectionInv, NEW w \in Collectors, scan[w].pc \in {"thread", "replies"}
  PROVE  /\ InScan(w) /\ scan[w].msg \in Msgs
         /\ Mine(w) => chan[scan[w].ch] \in Row
<1>1. InScan(w)  BY DEF InScan, Scanning
<1>2. scan[w].msg \in Msgs  BY <1>1, ScanAt DEF ScanOK, Reads
<1>3. Mine(w) => chan[scan[w].ch] \in Row
  BY <1>1, ScanAt, StateTypes DEF IsRow, CollectionInv
<1> QED  BY <1>1, <1>2, <1>3

\* What a scan holds of its posts does not change with their comments.
LEMMA RepliesHold ==
  ASSUME NEW s, NEW s2, NEW t, NEW r, NEW r2, NEW j, ScanOK(s, t, r, j),
         IsRow(r, s), r2.id = r.id, r2.posts = r.posts, Same(s, s2),
         s2.pc \in {"replies", "read"}, s2.pc = "replies" => s2.msg \in Msgs
  PROVE  ScanOK(s2, t, r2, j)
<1>1. Reads(s2, t)  BY DEF ScanOK, Reads, Same
<1>2. KeepsJob(j) /\ Holds(s2, t, r2)
  BY DEF ScanOK, Holds, Same
<1> QED  BY <1>1, <1>2 DEF ScanOK

\* The comments of one post are rewritten.
LEMMA CommentsStep ==
  ASSUME CollectionInv, NEW w \in Collectors, NEW c \in Channels, c = scan[w].ch,
         scan[w].pc \in {"thread", "replies"}, Mine(w), NEW s2 \in Scan, NEW r2 \in Row,
         r2.id = chan[c].id, r2.posts = chan[c].posts,
         chan' = [chan EXCEPT ![c] = r2], scan' = [scan EXCEPT ![w] = s2] \/ Noted(w, s2),
         Same(scan[w], s2), s2.pc \in {"replies", "read"}, s2.pc = "replies" => s2.msg \in Msgs,
         UNCHANGED <<tg, job, proc, rows, edits, faults>>
  PROVE  CollectionInv'
<1>1. InScan(w)  BY ThreadAt
<1>2. PICK s : s = scan[w]  OBVIOUS
<1>3. PICK t : t = tg[c]  OBVIOUS
<1>4. PICK r : r = chan[c]  OBVIOUS
<1>5. PICK j : j = job[c][w]  OBVIOUS
<1>6. ScanOK(s, t, r, j) /\ IsRow(r, s)
  BY <1>1, <1>2, <1>3, <1>4, <1>5, ScanAt
<1>7. ScanOK(s2, t, r2, j)
  BY <1>2, <1>3, <1>4, <1>6, RepliesHold
<1>8. /\ ScanOK(s2, tg[c], r2, job[c][w])
      /\ \A m \in Msgs : r2.posts[m] # "none" <=> chan[c].posts[m] # "none"
      /\ s2.pc \in Scanning /\ faults' \in 0 .. MaxFaults
      /\ UNCHANGED <<tg, job, proc, rows, edits>>
  BY <1>3, <1>5, <1>7 DEF Scanning, CollectionInv, TypeOK
<1> QED  BY <1>1, <1>8, OwnRowWritten

LEMMA FetchThreadKeeps ==
  ASSUME CollectionInv, NEW w \in Collectors, FetchThread(w)
  PROVE  CollectionInv'
<1>1. scan[w].pc = "thread" /\ InScan(w)  BY ThreadAt DEF FetchThread
<1>2. PICK s \in Scan : s = scan[w]  BY <1>1, ScanAt
<1>3. PICK c \in Channels : c = s.ch  BY <1>1, <1>2, ScanAt
<1>4. PICK m \in Msgs : m = s.msg  BY <1>1, <1>2, ThreadAt
<1>5. PICK T \in SUBSET Comments : T = tg[c].said[m]
  BY StateTypes DEF CollectionInv
<1>6. PICK I : I = Inside(w)  OBVIOUS
<1>7. PICK s2 \in Scan : /\ s2 = [s EXCEPT !.pc = "replies", !.thread = T, !.quiet = (I = {})]
                         /\ Same(s, s2) /\ s2.pc = "replies" /\ s2.msg = s.msg
  <2>1. PICK b \in BOOLEAN : b = (I = {})  OBVIOUS
  <2>2. PICK s2 : s2 = [s EXCEPT !.pc = "replies", !.thread = T, !.quiet = b]  OBVIOUS
  <2>3. s2 \in Scan /\ Same(s, s2) /\ s2.pc = "replies" /\ s2.msg = s.msg
    BY <2>2 DEF Scan, Same, Scanning
  <2> QED  BY <2>1, <2>2, <2>3
<1>8. Noted(w, s2)
  <2>1. scan' = [v \in Collectors |->
          IF v = w THEN s2 ELSE IF v \in I THEN [scan[v] EXCEPT !.quiet = FALSE] ELSE scan[v]]
    BY <1>2, <1>3, <1>4, <1>5, <1>6, <1>7 DEF FetchThread
  <2>2. ASSUME NEW v \in Collectors PROVE scan'[v] \in Scan
    <3>1. scan[v] \in Scan  BY StateTypes DEF CollectionInv
    <3>2. [scan[v] EXCEPT !.quiet = FALSE] \in Scan  BY <3>1, Disturb
    <3> QED  BY <1>7, <2>1, <3>1, <3>2
  <2> QED  BY <2>1, <2>2 DEF Noted
<1>9. Same(scan[w], s2) /\ s2.msg = m
  BY <1>2, <1>4, <1>7
<1>10. UNCHANGED <<tg, job, proc, rows, edits, faults>> /\ faults' \in 0 .. MaxFaults
  BY DEF FetchThread, CollectionInv, TypeOK
<1>11. CASE Mine(w)
  <2>1. PICK r \in Row : r = chan[c]  BY <1>1, <1>2, <1>3, <1>11, ThreadAt
  <2>2. PICK F : F = [k \in Comments |->
                        IF r.comments[m][k] = w THEN "earlier" ELSE r.comments[m][k]]
    OBVIOUS
  <2>3. F \in [Comments -> Tokens \cup {"none", "retired"}]
    BY <2>2 DEF Row, Tokens
  <2>4. PICK r2 : r2 = [r EXCEPT !.comments[m] = F]  OBVIOUS
  <2>5. r2 \in Row /\ r2.id = r.id /\ r2.posts = r.posts
    BY <2>3, <2>4, CommentsSet
  <2>6. chan' = [chan EXCEPT ![c] = r2]
    BY <1>2, <1>3, <1>4, <1>11, <2>1, <2>2, <2>4 DEF FetchThread
  <2> QED  BY <1>1, <1>2, <1>3, <1>7, <1>8, <1>9, <1>10, <1>11, <2>1, <2>5, <2>6,
              CommentsStep
<1>12. CASE ~Mine(w)
  <2>1. chan' = chan  BY <1>12 DEF FetchThread
  <2>2. UNCHANGED <<tg, chan, job, proc, rows, edits>>  BY <1>10, <2>1
  <2> QED  BY <1>1, <1>7, <1>8, <1>9, <1>10, <1>12, <2>2, LostRowStep
<1> QED  BY <1>11, <1>12

LEMMA StoreCommentKeeps ==
  ASSUME CollectionInv, NEW w \in Collectors, StoreComment(w)
  PROVE  CollectionInv'
<1>1. scan[w].pc = "replies" /\ InScan(w) /\ Mine(w)  BY ThreadAt DEF StoreComment
<1>2. PICK s \in Scan : s = scan[w]  BY <1>1, ScanAt
<1>3. PICK c \in Channels : c = s.ch  BY <1>1, <1>2, ScanAt
<1>4. PICK m \in Msgs : m = s.msg  BY <1>1, <1>2, ThreadAt
<1>5. PICK k \in s.thread : k = (CHOOSE x \in scan[w].thread : TRUE)
  BY <1>2 DEF StoreComment
<1>6. k \in Comments /\ s.thread \ {k} \in SUBSET Comments  BY DEF Scan
<1>7. PICK T \in SUBSET Comments : T = s.thread \ {k}  BY <1>6
<1>8. PICK s1 \in Scan : s1 = [s EXCEPT !.thread = T] /\ Same(s, s1)
                         /\ s1.msg = s.msg /\ s1.thread = T
  BY ThreadSet
<1>9. PICK s2 \in Scan : s2 = [s1 EXCEPT !.pc = "replies"] /\ Same(s1, s2)
                         /\ s2.pc = "replies" /\ s2.msg = s1.msg /\ s2.thread = s1.thread
  <2>1. "replies" \in Places  BY DEF Places, Scanning
  <2> QED  BY <2>1, PlaceSet
<1>10. scan' = [scan EXCEPT ![w] = s2]
  BY <1>2, <1>5, <1>7, <1>8, <1>9 DEF StoreComment, Goto
<1>11. Same(scan[w], s2) /\ s2.msg = m /\ s2.thread = s.thread \ {k}
  BY <1>2, <1>4, <1>7, <1>8, <1>9 DEF Same
<1>12. PICK r \in Row : r = chan[c]  BY <1>1, <1>2, <1>3, ThreadAt
<1>13. PICK r2 \in Row : /\ r2 = [r EXCEPT !.comments[m][k] = w]
                         /\ r2.id = r.id /\ r2.posts = r.posts
                         /\ \A l \in Comments :
                              r2.comments[m][l] = IF l = k THEN w ELSE r.comments[m][l]
  <2>1. w \in Tokens  BY DEF Tokens
  <2> QED  BY <1>6, <2>1, CommentSet
<1>14. chan' = [chan EXCEPT ![c] = r2]
  BY <1>2, <1>3, <1>4, <1>5, <1>12, <1>13 DEF StoreComment
<1>15. UNCHANGED <<tg, job, proc, rows, edits, faults>>  BY DEF StoreComment
<1>16. /\ c = scan[w].ch /\ scan[w].pc \in {"thread", "replies"}
       /\ r2.id = chan[c].id /\ r2.posts = chan[c].posts
       /\ s2.pc \in {"replies", "read"} /\ s2.msg \in Msgs
  BY <1>1, <1>2, <1>3, <1>9, <1>11, <1>12, <1>13
<1> QED  BY <1>1, <1>10, <1>11, <1>14, <1>15, <1>16, CommentsStep

LEMMA RetireCommentsKeeps ==
  ASSUME CollectionInv, NEW w \in Collectors, RetireComments(w)
  PROVE  CollectionInv'
<1>1. scan[w].pc = "replies" /\ InScan(w)  BY ThreadAt DEF RetireComments
<1>2. PICK s \in Scan : s = scan[w]  BY <1>1, ScanAt
<1>3. PICK c \in Channels : c = s.ch  BY <1>1, <1>2, ScanAt
<1>4. PICK m \in Msgs : m = s.msg  BY <1>1, <1>2, ThreadAt
<1>5. PICK s1 \in Scan : s1 = [s EXCEPT !.msg = 0, !.quiet = TRUE] /\ Same(s, s1)
  <2>1. PICK s1 : s1 = [s EXCEPT !.msg = 0, !.quiet = TRUE]  OBVIOUS
  <2>2. s1 \in Scan /\ Same(s, s1)
    <3>1. 0 \in 0 .. MaxMsg  BY MessagesAreNumbers
    <3> QED  BY <2>1, <3>1 DEF Scan, Same
  <2> QED  BY <2>1, <2>2
<1>6. PICK s2 \in Scan : s2 = [s1 EXCEPT !.pc = "read"] /\ Same(s1, s2) /\ s2.pc = "read"
  BY PlaceSet DEF Places, Scanning
<1>7. scan' = [scan EXCEPT ![w] = s2]
  BY <1>2, <1>5, <1>6 DEF RetireComments, Goto
<1>8. Same(scan[w], s2)  BY <1>2, <1>5, <1>6 DEF Same
<1>9. UNCHANGED <<tg, job, proc, rows, edits, faults>> /\ faults' \in 0 .. MaxFaults
  BY DEF RetireComments, CollectionInv, TypeOK
<1>10. CASE Mine(w)
  <2>1. PICK r \in Row : r = chan[c]  BY <1>1, <1>2, <1>3, <1>10, ThreadAt
  <2>2. PICK F : F = [k \in Comments |->
                        IF Unseen(w, r.comments[m][k]) THEN "retired" ELSE r.comments[m][k]]
    OBVIOUS
  <2>3. F \in [Comments -> Tokens \cup {"none", "retired"}]
    BY <2>2 DEF Row
  <2>4. PICK r2 : r2 = [r EXCEPT !.comments[m] = F]  OBVIOUS
  <2>5. r2 \in Row /\ r2.id = r.id /\ r2.posts = r.posts
    BY <2>3, <2>4, CommentsSet
  <2>6. chan' = [chan EXCEPT ![c] = r2]
    BY <1>2, <1>3, <1>4, <1>10, <2>1, <2>2, <2>4 DEF RetireComments
  <2> QED  BY <1>1, <1>2, <1>3, <1>6, <1>7, <1>8, <1>9, <1>10, <2>1, <2>5, <2>6,
              CommentsStep
<1>11. CASE ~Mine(w)
  <2>1. chan' = chan  BY <1>11 DEF RetireComments
  <2>2. UNCHANGED <<tg, chan, job, proc, rows, edits>>  BY <1>9, <2>1
  <2> QED  BY <1>1, <1>6, <1>7, <1>8, <1>9, <1>11, <2>2, LostRowStep
<1> QED  BY <1>10, <1>11

\* mark_unseen_posts_deleted
LEMMA RetireKeeps ==
  ASSUME CollectionInv, NEW w \in Collectors, Retire(w)
  PROVE  CollectionInv'
<1>1. InScan(w)  BY DEF Retire, InScan, Scanning
<1>2. PICK s \in Scan : s = scan[w]  BY <1>1, ScanAt
<1>3. PICK c \in Channels : c = s.ch  BY <1>1, <1>2, ScanAt
<1>4. faults' \in 0 .. MaxFaults /\ proc' \in [Collectors -> Proc]
  BY FaultType DEF Retire, CollectionInv, TypeOK
<1>5. CASE chan' = chan
  <2>1. Over(w, FALSE) /\ UNCHANGED <<tg, chan, job, rows, edits>>
    BY <1>5 DEF Retire
  <2> QED  BY <1>1, <1>4, <2>1, OverKeeps
<1>6. CASE chan' # chan
  <2>1. /\ Mine(w) /\ chan' = [chan EXCEPT ![c].posts = Retired(w)]
        /\ UNCHANGED <<tg, job, proc, rows, edits>>
    BY <1>2, <1>3, <1>6 DEF Retire
  <2>2. PICK r \in Row : r = chan[c] /\ IsRow(r, s)
    BY <1>1, <1>2, <1>3, <2>1, ScanAt, StateTypes DEF IsRow, CollectionInv
  <2>3. PICK P : P = Retired(w)  OBVIOUS
  <2>4. /\ P \in [Msgs -> {"none", "live", "retired"}]
        /\ \A m \in Msgs : /\ P[m] # "none" <=> r.posts[m] # "none"
                           /\ P[m] = "live" => m \in s.seen \/ r.posts[m] = "live"
    <3>1. \A m \in Msgs : r.posts[m] \in {"none", "live", "retired"}  BY DEF Row
    <3> QED  BY <1>2, <1>3, <2>2, <2>3, <3>1 DEF Retired
  <2>5. PICK r2 : r2 = [r EXCEPT !.posts = P]  OBVIOUS
  <2>6. r2 \in Row /\ r2.id = r.id /\ r2.posts = P  BY <2>4, <2>5, PostsSet
  <2>7. chan' = [chan EXCEPT ![c] = r2]  BY <2>1, <2>2, <2>3, <2>5
  <2>8. PICK s1 \in Scan : s1 = [s EXCEPT !.failed = FALSE] /\ Same(s, s1)
    BY FailedSet
  <2>9. PICK s2 \in Scan : /\ s2 = [s1 EXCEPT !.pc = "finish"]
                           /\ Same(s1, s2) /\ s2.pc = "finish"
    BY PlaceSet DEF Places, Scanning
  <2>10. scan' = [scan EXCEPT ![w] = s2]  BY <1>2, <2>8, <2>9 DEF Retire, Over, Goto
  <2>11. Same(s, s2)  BY <2>8, <2>9 DEF Same
  <2>12. PICK t : t = tg[c]  OBVIOUS
  <2>13. PICK j : j = job[c][w]  OBVIOUS
  <2>14. ScanOK(s, t, r, j) /\ t.posts \subseteq Msgs
    BY <1>1, <1>2, <1>3, <2>2, <2>12, <2>13, ScanAt, StateTypes DEF CollectionInv
  <2>15. Reads(s2, t)  BY <2>9, <2>11, <2>14 DEF ScanOK, Reads, Same
  <2>16. KeepsJob(j) /\ Holds(s2, t, r2)
    <3>1. KeepsJob(j) /\ Holds(s, t, r) /\ s.seen \subseteq Msgs
      BY <2>2, <2>14 DEF ScanOK, Scan
    <3>2. ASSUME NEW m \in s.seen PROVE r2.posts[m] # "none"
      BY <2>4, <2>6, <3>1 DEF Holds
    <3>3. ASSUME s.alone, NEW m \in t.posts, s.pos <= m, r2.posts[m] = "live"
          PROVE  m \in s.seen \cup s.page
      BY <2>4, <2>6, <2>14, <3>1, <3>3 DEF Holds
    <3> QED  BY <2>9, <2>11, <3>1, <3>2, <3>3 DEF Holds, Same
  <2>17. ScanOK(s2, t, r2, j)  BY <2>15, <2>16 DEF ScanOK
  <2>18. s2.pc \in Scanning  BY <2>9 DEF Scanning
  <2> QED  BY <1>1, <1>2, <1>3, <1>4, <2>1, <2>2, <2>4, <2>6, <2>7, <2>10, <2>11,
              <2>12, <2>13, <2>17, <2>18, OwnRowWritten
<1> QED  BY <1>5, <1>6

\* finish_collection_job, and the end of the cycle of a process that leaves.
LEMMA FinishKeeps ==
  ASSUME CollectionInv, NEW w \in Collectors, Finish(w)
  PROVE  CollectionInv'
<1>1. InScan(w)  BY DEF Finish, InScan, Scanning
<1>2. PICK c \in Channels : c = scan[w].ch  BY <1>1, ScanAt
<1>3. PICK T \in SUBSET (Channels \X (1 .. MaxRows)) : T = scan[w].todo
  BY StateTypes DEF CollectionInv, Scan
<1>4. PICK left : left = [Idle EXCEPT !.todo = T, !.pc = "next"]  OBVIOUS
<1>5. left \in Scan /\ Fresh(left) /\ left.pc = "next" /\ left.id = 0
  <2>1. PICK s \in Scan : s = Idle  BY IdleIsFresh
  <2>2. left = [s EXCEPT !.todo = T, !.pc = "next"]  BY <1>4, <2>1
  <2>3. /\ left \in Scan /\ left.pc = "next" /\ left.id = s.id /\ left.pos = s.pos
        /\ left.seen = s.seen /\ left.page = s.page
    BY <2>2 DEF Scan
  <2> QED  BY <2>1, <2>3, IdleIsFresh DEF Fresh
<1>6. PICK s2 : s2 = IF proc[w].leaving THEN Idle ELSE left  OBVIOUS
<1>7. s2 \in Scan /\ s2.pc \notin Scanning /\ Fresh(s2) /\ s2.id <= rows
  <2>1. left.pc \notin Scanning  BY <1>5 DEF Scanning
  <2>2. rows \in Nat  BY StateTypes DEF CollectionInv
  <2> QED  BY <1>5, <1>6, <2>1, <2>2, IdleIsFresh
<1>8. scan' = [scan EXCEPT ![w] = s2]
  BY <1>3, <1>4, <1>6 DEF Finish
<1>9. proc' \in [Collectors -> Proc]
  <2>1. Down \in Proc /\ proc[w] \in Proc
    BY StateTypes DEF Down, Proc, CollectionInv
  <2> QED  BY <2>1 DEF Finish, CollectionInv, TypeOK
<1>10. /\ job' \in [Channels -> [Collectors -> Job \cup {None}]]
       /\ \A d \in Channels, v \in Collectors : v # w => job'[d][v] = job[d][v]
  <2>1. PICK st \in {"failed", "succeeded"} :
          job' = IF job[c][w] = None THEN job
                 ELSE [job EXCEPT ![c] = [job[c] EXCEPT ![w] = [job[c][w] EXCEPT !.status = st]]]
    BY <1>2 DEF Finish
  <2>2. CASE job[c][w] = None
    BY <2>1, <2>2 DEF CollectionInv, TypeOK
  <2>3. CASE job[c][w] # None
    <3>1. PICK j \in Job : j = job[c][w]  BY <2>3, StateTypes DEF CollectionInv
    <3>2. PICK j2 \in Job : j2 = [j EXCEPT !.status = st]  BY DEF Job
    <3>3. job' = [job EXCEPT ![c] = [job[c] EXCEPT ![w] = j2]]
      BY <2>1, <2>3, <3>1, <3>2
    <3> QED  BY <3>3 DEF CollectionInv, TypeOK
  <2> QED  BY <2>2, <2>3
<1>11. UNCHANGED <<tg, chan, rows, edits>> /\ faults' \in 0 .. MaxFaults
  BY DEF Finish, CollectionInv, TypeOK
<1> QED  BY <1>7, <1>8, <1>9, <1>10, <1>11, OwnJobStep

-----------------------------------------------------------------------------
(* claim_collection_job *)

\* What a claim leaves of the jobs of a channel.
LEMMA ClaimedJobs ==
  ASSUME CollectionInv, NEW w \in Collectors, NEW c \in Channels,
         job' = [job EXCEPT ![c] = [v \in Collectors |->
                  IF v = w THEN [status |-> "running", lapsed |-> FALSE] ELSE Expired(job[c][v])]]
  PROVE  /\ job' \in [Channels -> [Collectors -> Job \cup {None}]]
         /\ KeepsJob(job'[c][w])
         /\ \A d \in Channels, v \in Collectors :
              v # w /\ KeepsJob(job[d][v]) => KeepsJob(job'[d][v])
<1>1. PICK j \in Job : j = [status |-> "running", lapsed |-> FALSE] /\ KeepsJob(j)
  <2>1. PICK j : j = [status |-> "running", lapsed |-> FALSE]  OBVIOUS
  <2>2. j \in Job /\ j.status = "running"  BY <2>1 DEF Job
  <2> QED  BY <2>1, <2>2, NoneAssumption DEF KeepsJob
<1>2. PICK J : J = [v \in Collectors |-> IF v = w THEN j ELSE Expired(job[c][v])]
  OBVIOUS
<1>3. job' = [job EXCEPT ![c] = J]  BY <1>1, <1>2
<1>4. /\ job \in [Channels -> [Collectors -> Job \cup {None}]]
      /\ \A v \in Collectors : Expired(job[c][v]) \in Job \cup {None}
  BY JobsOfOthers DEF CollectionInv, TypeOK
<1>5. J \in [Collectors -> Job \cup {None}]  BY <1>2, <1>4
<1>6. job' \in [Channels -> [Collectors -> Job \cup {None}]] /\ job'[c] = J
      /\ \A d \in Channels : d # c => job'[d] = job[d]
  BY <1>3, <1>4, <1>5
<1>7. ASSUME NEW d \in Channels, NEW v \in Collectors, v # w, KeepsJob(job[d][v])
      PROVE  KeepsJob(job'[d][v])
  <2>1. CASE d # c  BY <1>6, <1>7, <2>1
  <2>2. CASE d = c
    <3>1. job'[d][v] = Expired(job[d][v])  BY <1>2, <1>6, <1>7, <2>2
    <3>2. job[d][v] \in Job \cup {None}  BY <1>4
    <3> QED  BY <1>7, <3>1, <3>2, JobsOfOthers
  <2> QED  BY <2>1, <2>2
<1> QED  BY <1>1, <1>2, <1>6, <1>7

\* The others' scans after a step that writes no row, and no job but its own
\* or one that had lapsed.
LEMMA OthersAtClaim ==
  ASSUME CollectionInv, NEW w \in Collectors, NEW v \in Collectors, v # w, InScan(v),
         \A d \in Channels : KeepsJob(job[d][v]) => KeepsJob(job'[d][v]),
         NEW s2, s2 \in {scan[v], [scan[v] EXCEPT !.alone = FALSE]}
  PROVE  ScanOK(s2, tg[scan[v].ch], chan[scan[v].ch], job'[scan[v].ch][v])
<1>1. PICK s \in Scan : s = scan[v]  BY ScanAt
<1>2. PICK c \in Channels : c = s.ch  BY <1>1, ScanAt
<1>3. PICK t : t = tg[c]  OBVIOUS
<1>4. PICK r : r = chan[c]  OBVIOUS
<1>5. PICK j : j = job[c][v]  OBVIOUS
<1>6. PICK j2 : j2 = job'[c][v]  OBVIOUS
<1>7. ScanOK(s, t, r, j)  BY <1>1, <1>2, <1>3, <1>4, <1>5, ScanAt
<1>8. t.top \in Nat /\ t.top <= t.top  BY <1>3, StateTypes DEF CollectionInv
<1>9. /\ s2.ch = s.ch /\ s2.id = s.id /\ s2.since = s.since /\ s2.pos = s.pos
      /\ s2.seen = s.seen /\ s2.page = s.page /\ s2.pc = s.pc
      /\ s2.msg = s.msg /\ s2.thread = s.thread
      /\ s2.alone => s.alone
      /\ s2.calm => s.calm
  BY <1>1, Disturb
<1>10. KeepsJob(j) => KeepsJob(j2)  BY <1>5, <1>6
<1>11. ScanOK(s2, t, r, j2)  BY <1>7, <1>8, <1>9, <1>10, Later
<1> QED  BY <1>1, <1>2, <1>3, <1>4, <1>6, <1>11

\* The row is not there, or its job is another's: the channel is left out.
LEMMA FirstType ==
  ASSUME CollectionInv, NEW w \in Collectors, scan[w].todo # {}
  PROVE  First(w)[1] \in Channels /\ First(w)[2] \in 1 .. MaxRows
<1>1. scan[w].todo \in SUBSET (Channels \X (1 .. MaxRows))
  BY StateTypes DEF CollectionInv, Scan
<1>2. First(w) \in scan[w].todo  BY <1>1, FirstIsThere
<1> QED  BY <1>1, <1>2

LEMMA ClaimBreaksKeeps ==
  ASSUME CollectionInv, NEW w \in Collectors, ClaimBreaks(w)
  PROVE  CollectionInv'
<1>1. PICK c \in Channels : c = First(w)[1]  BY FirstType DEF ClaimBreaks
<1>2. faults' \in 0 .. MaxFaults  BY FaultType DEF ClaimBreaks, CollectionInv
<1>3. scan' = [scan EXCEPT ![w] = Idle] /\ UNCHANGED <<tg, chan, proc, rows, edits>>
  BY DEF ClaimBreaks
<1>4. CASE job' = job
  <2>1. proc' \in [Collectors -> Proc]  BY <1>3 DEF CollectionInv, TypeOK
  <2> QED  BY <1>2, <1>3, <1>4, <2>1, IdleStep
<1>5. CASE job' # job
  <2>1. job' = [job EXCEPT ![c] = [v \in Collectors |->
                 IF v = w THEN [status |-> "running", lapsed |-> FALSE] ELSE Expired(job[c][v])]]
    BY <1>1, <1>5 DEF ClaimBreaks
  <2>2. /\ job' \in [Channels -> [Collectors -> Job \cup {None}]]
        /\ \A d \in Channels, v \in Collectors :
             v # w /\ KeepsJob(job[d][v]) => KeepsJob(job'[d][v])
    BY <2>1, ClaimedJobs
  <2>3. /\ chan' \in [Channels -> Row \cup {None}] /\ edits' \in 0 .. MaxEdits
        /\ rows' \in 0 .. MaxRows /\ rows \in Nat /\ proc' \in [Collectors -> Proc]
    BY <1>3, MessagesAreNumbers DEF CollectionInv, TypeOK
  <2>4. RowsInv' /\ Idle.id <= rows' /\ rows <= rows'
    BY <1>3, <2>3, IdleIsFresh DEF CollectionInv, RowsInv
  <2>5. ASSUME NEW v \in Collectors, v # w, InScan(v)
        PROVE  ScanOK(scan[v], tg[scan[v].ch], chan'[scan[v].ch], job'[scan[v].ch][v])
    BY <1>3, <2>2, <2>5, OthersAtClaim
  <2> QED  BY <1>2, <1>3, <2>2, <2>3, <2>4, <2>5, IdleIsFresh, ScanStep
<1> QED  BY <1>4, <1>5

\* The scan that a claim begins has read nothing and holds its job.
LEMMA ClaimedScan ==
  ASSUME NEW s, NEW t, NEW r, NEW j, s.ch \in Channels, Fresh(s), s.pc = "resolve",
         t.posts \subseteq Msgs, KeepsJob(j)
  PROVE  ScanOK(s, t, r, j)
<1>1. \A m \in Msgs : ~(s.pos <= m)
  <2>1. \A m \in Msgs : m \in Nat /\ m < MaxMsg + 1  BY MessagesAreNumbers
  <2>2. MaxMsg + 1 \in Nat  BY MessagesAreNumbers
  <2> QED  BY <2>1, <2>2 DEF Fresh
<1>2. Reads(s, t)  BY <1>1 DEF Reads, Fresh
<1>3. Holds(s, t, r)  BY <1>1 DEF Holds, Fresh
<1> QED  BY <1>2, <1>3 DEF ScanOK

LEMMA ClaimKeeps ==
  ASSUME CollectionInv, NEW w \in Collectors, Claim(w)
  PROVE  CollectionInv'
<1> DEFINE c == First(w)[1]
           n == First(w)[2]
           others == ScansOf(c, n) \ {w}
<1>1. c \in Channels  BY FirstType DEF Claim
<1>2. n \in 1 .. MaxRows  BY FirstType DEF Claim
<1>3. PICK T \in SUBSET (Channels \X (1 .. MaxRows)) : T = scan[w].todo \ {First(w)}
  <2>1. scan[w].todo \in SUBSET (Channels \X (1 .. MaxRows))
    BY StateTypes DEF CollectionInv, Scan
  <2> QED  BY <2>1
<1>4. ~InScan(w) /\ Fresh(scan[w]) /\ scan[w] \in Scan
  BY StateTypes DEF Claim, InScan, Scanning, CollectionInv, RestInv
<1>5. UNCHANGED <<tg, chan, proc, rows, edits, faults>>  BY DEF Claim
<1>6. CASE ~Claimable(c, n)
  <2>1. Goto(w, [scan[w] EXCEPT !.todo = T], "next") /\ UNCHANGED job
    BY <1>3, <1>6 DEF Claim, Rest
  <2> QED  BY <1>4, <1>5, <2>1, TodoStep
<1>7. CASE Claimable(c, n)
  <2>1. PICK since \in Windows :
          scan' = [v \in Collectors |->
            IF v = w THEN [[Rest(w) EXCEPT !.pc = "resolve", !.ch = c, !.id = n,
                                          !.alone = (others = {})] EXCEPT !.since = since]
            ELSE IF v \in others THEN [scan[v] EXCEPT !.alone = FALSE] ELSE scan[v]]
    BY <1>7 DEF Claim
  <2>2. job' = [job EXCEPT ![c] = [v \in Collectors |->
          IF v = w THEN [status |-> "running", lapsed |-> FALSE] ELSE Expired(job[c][v])]]
    BY <1>7 DEF Claim
  <2>3. \A v \in Collectors : InScan(v) /\ scan[v].ch = c /\ scan[v].id = n /\ v # w =>
          v \in others
    BY DEF ScansOf
  <2> HIDE DEF c, n, others
  <2>4. PICK s1 \in Scan : s1 = [scan[w] EXCEPT !.todo = T] /\ Same(scan[w], s1)
    BY <1>4, TodoSet
  <2>5. PICK s3 : s3 = [s1 EXCEPT !.pc = "resolve", !.ch = c, !.id = n, !.alone = (others = {})]
    OBVIOUS
  <2>6. /\ s3 \in Scan /\ s3.pc = "resolve" /\ s3.ch = c /\ s3.id = n
        /\ s3.alone <=> others = {}
        /\ s3.pos = s1.pos /\ s3.seen = s1.seen /\ s3.page = s1.page
    <3>1. n \in 0 .. MaxRows  BY <1>2, MessagesAreNumbers
    <3> QED  BY <1>1, <2>5, <3>1 DEF Scan, Scanning
  <2>7. PICK s2 : s2 = [s3 EXCEPT !.since = since]  OBVIOUS
  <2>8. /\ s2 \in Scan /\ s2.pc = "resolve" /\ s2.ch = c /\ s2.id = n
        /\ s2.alone = s3.alone
        /\ s2.pos = s3.pos /\ s2.seen = s3.seen /\ s2.page = s3.page
    BY <2>6, <2>7 DEF Scan
  <2>9. Fresh(s2)  BY <1>4, <2>4, <2>6, <2>8 DEF Same, Fresh
  <2>10. scan'[w] = s2
    BY <1>3, <2>1, <2>4, <2>5, <2>7 DEF Rest
  <2>11. ASSUME NEW v \in Collectors, v # w
         PROVE  /\ scan'[v] \in {scan[v], [scan[v] EXCEPT !.alone = FALSE]}
                /\ v \in others => scan'[v] = [scan[v] EXCEPT !.alone = FALSE]
    BY <2>1, <2>11
  <2>12. ASSUME NEW v \in Collectors, v # w
         PROVE  /\ scan'[v] \in Scan /\ scan'[v].ch = scan[v].ch /\ scan'[v].id = scan[v].id
                /\ scan'[v].pc = scan[v].pc /\ Fresh(scan'[v]) = Fresh(scan[v])
                /\ scan'[v].alone => scan[v].alone
                /\ v \in others => ~scan'[v].alone
    <3>1. PICK s \in Scan : s = scan[v]  BY StateTypes DEF CollectionInv
    <3>2. PICK u : u = scan'[v]  OBVIOUS
    <3>3. u \in {s, [s EXCEPT !.alone = FALSE]}  BY <2>11, <2>12, <3>1, <3>2
    <3>4. /\ u \in Scan /\ u.ch = s.ch /\ u.id = s.id /\ u.pc = s.pc
          /\ u.pos = s.pos /\ u.seen = s.seen /\ u.page = s.page
          /\ u.alone => s.alone
      BY <3>3, Disturb
    <3>5. v \in others => ~u.alone
      <4>1. v \in others => u = [s EXCEPT !.alone = FALSE]  BY <2>11, <2>12, <3>1, <3>2
      <4> QED  BY <4>1 DEF Scan
    <3> QED  BY <3>1, <3>2, <3>4, <3>5 DEF Fresh
  <2>13. /\ job' \in [Channels -> [Collectors -> Job \cup {None}]]
         /\ KeepsJob(job'[c][w])
         /\ \A d \in Channels, v \in Collectors :
              v # w /\ KeepsJob(job[d][v]) => KeepsJob(job'[d][v])
    BY <1>1, <2>2, ClaimedJobs
  <2>14. TypeOK'
    <3>1. scan' \in [Collectors -> Scan]
      <4>1. \A v \in Collectors : scan'[v] \in Scan  BY <2>8, <2>10, <2>12
      <4>2. scan' = [v \in Collectors |-> scan'[v]]  BY <2>1
      <4> QED  BY <4>1, <4>2
    <3> QED  BY <1>5, <2>13, <3>1 DEF CollectionInv, TypeOK
  <2>15. ScansInv'
    <3>1. ASSUME NEW v \in Collectors, InScan(v)'
          PROVE  ScanOK(scan'[v], tg[scan'[v].ch], chan[scan'[v].ch], job'[scan'[v].ch][v])
      <4>1. CASE v = w
        <5>1. tg[c].posts \subseteq Msgs  BY <1>1, StateTypes DEF CollectionInv
        <5>2. PICK j : j = job'[c][w]  OBVIOUS
        <5>3. PICK r : r = chan[c]  OBVIOUS
        <5>4. PICK t : t = tg[c]  OBVIOUS
        <5>5. ScanOK(s2, t, r, j)
          BY <1>1, <2>8, <2>9, <2>13, <5>1, <5>2, <5>4, ClaimedScan
        <5> QED  BY <2>8, <2>10, <4>1, <5>2, <5>3, <5>4, <5>5
      <4>2. CASE v # w
        <5>1. InScan(v) /\ scan'[v].ch = scan[v].ch  BY <2>12, <3>1, <4>2 DEF InScan
        <5>2. PICK u : u = scan'[v]  OBVIOUS
        <5>3. u \in {scan[v], [scan[v] EXCEPT !.alone = FALSE]}  BY <2>11, <4>2, <5>2
        <5>4. \A d \in Channels : KeepsJob(job[d][v]) => KeepsJob(job'[d][v])
          BY <2>13, <4>2
        <5>5. ScanOK(u, tg[scan[v].ch], chan[scan[v].ch], job'[scan[v].ch][v])
          BY <4>2, <5>1, <5>3, <5>4, OthersAtClaim
        <5> QED  BY <5>1, <5>2, <5>5
      <4> QED  BY <4>1, <4>2
    <3> QED  BY <1>5, <3>1 DEF ScansInv
  <2>16. AloneInv'
    <3>1. ASSUME NEW v \in Collectors, NEW x \in Collectors, InScan(v)', InScan(x)', v # x,
                 scan'[v].ch = scan'[x].ch, scan'[v].id = scan'[x].id
          PROVE  ~scan'[x].alone
      <4>1. CASE x = w
        <5>1. InScan(v) /\ scan[v].ch = c /\ scan[v].id = n
          BY <2>8, <2>10, <2>12, <3>1, <4>1 DEF InScan
        <5>2. v \in others  BY <2>3, <3>1, <4>1, <5>1
        <5> QED  BY <2>6, <2>8, <2>10, <4>1, <5>2
      <4>2. CASE v = w
        <5>1. InScan(x) /\ scan[x].ch = c /\ scan[x].id = n
          BY <2>8, <2>10, <2>12, <3>1, <4>2 DEF InScan
        <5>2. x \in others  BY <2>3, <3>1, <4>2, <5>1
        <5> QED  BY <2>12, <3>1, <4>2, <5>2
      <4>3. CASE x # w /\ v # w
        <5>1. InScan(v) /\ InScan(x) /\ scan[v].ch = scan[x].ch /\ scan[v].id = scan[x].id
          BY <2>12, <3>1, <4>3 DEF InScan
        <5>2. ~scan[x].alone  BY <3>1, <5>1 DEF CollectionInv, AloneInv
        <5> QED  BY <2>12, <4>3, <5>2
      <4> QED  BY <4>1, <4>2, <4>3
    <3> QED  BY <3>1 DEF AloneInv
  <2>17. RestInv'
    <3>1. n <= rows
      BY <1>1, <1>7 DEF Claimable, Here, CollectionInv, RowsInv
    <3>2. scan'[w].id <= rows /\ InScan(w)'
      BY <2>8, <2>10, <3>1 DEF InScan, Scanning
    <3>3. ASSUME NEW v \in Collectors, v # w
          PROVE  (~InScan(v)' => Fresh(scan'[v])) /\ scan'[v].id <= rows
      BY <2>12, <3>3 DEF CollectionInv, RestInv, InScan
    <3> QED  BY <1>5, <3>2, <3>3 DEF RestInv
  <2>18. RowsInv'  BY <1>5 DEF CollectionInv, RowsInv
  <2> QED  BY <2>14, <2>15, <2>16, <2>17, <2>18 DEF CollectionInv
<1> QED  BY <1>6, <1>7

-----------------------------------------------------------------------------
(* Telegram. *)

\* A channel changes: new messages are newer than all, and its scans are told.
LEMMA TelegramStep ==
  ASSUME CollectionInv, NEW c \in Channels, NEW n, scan' = Disturbed(c, n),
         UNCHANGED <<chan, job, proc, rows, faults>>, edits' \in 0 .. MaxEdits,
         tg' \in [Channels -> [top : 0 .. MaxMsg, posts : SUBSET Msgs,
                               said : [Msgs -> SUBSET Comments]]],
         \A d \in Channels : d # c => tg'[d] = tg[d],
         tg'[c].posts \subseteq 1 .. tg'[c].top, tg[c].top <= tg'[c].top,
         \A m \in tg'[c].posts : m \in tg[c].posts \/ tg[c].top < m
  PROVE  CollectionInv'
<1>1. ASSUME NEW v \in Collectors
      PROVE  /\ scan[v].ch = c => scan'[v] =
                  [scan[v] EXCEPT !.calm = FALSE, !.quiet = scan[v].quiet /\ scan[v].msg # n]
             /\ scan[v].ch # c => scan'[v] = scan[v]
  BY DEF Disturbed
<1>2. ASSUME NEW v \in Collectors
      PROVE  LET s == scan[v]
                 u == scan'[v]
             IN  /\ u \in Scan /\ u.ch = s.ch /\ u.id = s.id /\ u.since = s.since
                 /\ u.pos = s.pos /\ u.seen = s.seen /\ u.page = s.page /\ u.pc = s.pc
                 /\ u.msg = s.msg /\ u.thread = s.thread
                 /\ u.alone => s.alone
                 /\ u.calm => s.calm
                 /\ s.ch = c => ~u.calm
  <2>1. PICK s \in Scan : s = scan[v]  BY StateTypes DEF CollectionInv
  <2>2. PICK u : u = scan'[v]  OBVIOUS
  <2>3. CASE s.ch # c
    <3>1. u = s  BY <1>1, <2>1, <2>2, <2>3
    <3> QED  BY <2>1, <2>2, <2>3, <3>1
  <2>4. CASE s.ch = c
    <3>1. PICK b \in BOOLEAN : b = (s.quiet /\ s.msg # n)  OBVIOUS
    <3>2. u = [s EXCEPT !.calm = FALSE, !.quiet = b]  BY <1>1, <2>1, <2>2, <2>4, <3>1
    <3>3. /\ u \in Scan /\ u.ch = s.ch /\ u.id = s.id /\ u.since = s.since
          /\ u.pos = s.pos /\ u.seen = s.seen /\ u.page = s.page /\ u.pc = s.pc
          /\ u.msg = s.msg /\ u.thread = s.thread
          /\ u.alone => s.alone
          /\ ~u.calm
      BY <3>2 DEF Scan
    <3>4. (u.calm => s.calm) /\ (s.ch = c => ~u.calm)  BY <3>3
    <3> QED  BY <2>1, <2>2, <3>3, <3>4
  <2> QED  BY <2>3, <2>4
<1>3. TypeOK'
  <2>1. scan' \in [Collectors -> Scan]
    <3>1. scan' = [v \in Collectors |-> scan'[v]]  BY DEF Disturbed
    <3> QED  BY <1>2, <3>1
  <2> QED  BY <2>1 DEF CollectionInv, TypeOK
<1>4. RowsInv'
  <2>1. ASSUME NEW d \in Channels
        PROVE  /\ tg'[d].posts \subseteq 1 .. tg'[d].top
               /\ chan[d] # None =>
                    \A m \in Msgs : chan[d].posts[m] # "none" => m <= tg'[d].top
    <3>1. CASE d # c  BY <3>1 DEF CollectionInv, RowsInv
    <3>2. CASE d = c
      <4>1. ASSUME chan[c] # None, NEW m \in Msgs, chan[c].posts[m] # "none"
            PROVE  m <= tg'[c].top
        <5>1. m <= tg[c].top  BY <4>1 DEF CollectionInv, RowsInv
        <5>2. m \in Nat /\ tg[c].top \in Nat /\ tg'[c].top \in Nat
          BY <4>1, StateTypes, MessagesAreNumbers DEF CollectionInv
        <5> QED  BY <5>1, <5>2
      <4> QED  BY <3>2, <4>1
    <3> QED  BY <3>1, <3>2
  <2> QED  BY <2>1 DEF CollectionInv, RowsInv
<1>5. ScansInv'
  <2>1. ASSUME NEW v \in Collectors, InScan(v)'
        PROVE  ScanOK(scan'[v], tg'[scan'[v].ch], chan[scan'[v].ch], job[scan'[v].ch][v])
    <3>1. InScan(v) /\ scan'[v].ch = scan[v].ch  BY <1>2, <2>1 DEF InScan
    <3>2. CASE scan[v].ch # c
      <4>1. scan'[v] = scan[v] /\ tg'[scan[v].ch] = tg[scan[v].ch]
        BY <1>1, <3>1, <3>2, ScanAt
      <4> QED  BY <3>1, <4>1, ScanAt
    <3>3. CASE scan[v].ch = c
      <4>1. PICK s \in Scan : s = scan[v] /\ s.ch = c  BY <3>1, <3>3, ScanAt
      <4>2. PICK u : u = scan'[v]  OBVIOUS
      <4>3. PICK t : t = tg[c]  OBVIOUS
      <4>4. PICK t2 : t2 = tg'[c]  OBVIOUS
      <4>5. PICK r : r = chan[c]  OBVIOUS
      <4>6. PICK j : j = job[c][v]  OBVIOUS
      <4>7. ScanOK(s, t, r, j)  BY <3>1, <3>3, <4>1, <4>3, <4>5, <4>6, ScanAt
      <4>8. /\ u.ch = s.ch /\ u.id = s.id /\ u.since = s.since
            /\ u.pos = s.pos /\ u.seen = s.seen /\ u.page = s.page /\ u.pc = s.pc
            /\ u.msg = s.msg /\ u.thread = s.thread
            /\ u.alone => s.alone
            /\ ~u.calm
        BY <1>2, <4>1, <4>2
      <4>9. t.top \in Nat /\ t2.top \in Nat /\ t.top <= t2.top
        BY <4>3, <4>4, MessagesAreNumbers DEF CollectionInv, TypeOK
      <4>10. ASSUME IsRow(r, s), NEW m \in t2.posts
             PROVE  m \in t.posts \/ r.posts[m] = "none"
        <5>1. CASE m \in t.posts  BY <5>1
        <5>2. CASE m \notin t.posts
          <6>1. t.top < m  BY <4>3, <4>4, <5>2
          <6>2. m \in Msgs  BY <4>4
          <6>3. m \in Nat  BY <6>2, MessagesAreNumbers
          <6>4. r.posts[m] # "none" => m <= t.top
            BY <4>3, <4>5, <4>10, <6>2 DEF IsRow, CollectionInv, RowsInv
          <6> QED  BY <4>9, <6>1, <6>3, <6>4
        <5> QED  BY <5>1, <5>2
      <4>11. ScanOK(u, t2, r, j)  BY <4>7, <4>8, <4>9, <4>10, Later
      <4> QED  BY <4>1, <4>2, <4>4, <4>5, <4>6, <4>8, <4>11
    <3> QED  BY <3>2, <3>3
  <2> QED  BY <2>1 DEF ScansInv
<1>6. AloneInv'
  BY <1>2 DEF CollectionInv, AloneInv, InScan
<1>7. RestInv'
  <2>1. \A v \in Collectors : Fresh(scan[v]) => Fresh(scan'[v])
    BY <1>2 DEF Fresh
  <2> QED  BY <1>2, <2>1 DEF CollectionInv, RestInv, InScan
<1> QED  BY <1>3, <1>4, <1>5, <1>6, <1>7 DEF CollectionInv

\* The record of a channel on Telegram.
TgRecord == [top : 0 .. MaxMsg, posts : SUBSET Msgs, said : [Msgs -> SUBSET Comments]]

LEMMA TgRecordType ==
  ASSUME CollectionInv
  PROVE  /\ tg \in [Channels -> TgRecord]
         /\ \A c \in Channels : tg[c].posts \subseteq 1 .. tg[c].top
BY DEF CollectionInv, RowsInv, TypeOK, TgRecord

LEMMA PublishKeeps ==
  ASSUME CollectionInv, NEW c \in Channels, Publish(c)
  PROVE  CollectionInv'
<1>1. PICK t \in TgRecord : t = tg[c] /\ t.posts \subseteq 1 .. t.top  BY TgRecordType
<1>2. t.top \in Nat /\ t.top + 1 \in 1 .. MaxMsg
  BY <1>1, MessagesAreNumbers DEF Publish, TgRecord
<1>3. PICK t2 : t2 = [t EXCEPT !.top = t.top + 1, !.posts = t.posts \cup {t.top + 1}]
  OBVIOUS
<1>4. t2 \in TgRecord /\ t2.top = t.top + 1 /\ t2.posts = t.posts \cup {t.top + 1}
  <2>1. t.top + 1 \in Msgs /\ t.top + 1 \in 0 .. MaxMsg  BY <1>2 DEF Msgs
  <2> QED  BY <1>3, <2>1 DEF TgRecord
<1>5. tg' = [tg EXCEPT ![c] = t2]
  BY <1>1, <1>3, TgRecordType DEF Publish
<1>6. /\ tg' \in [Channels -> TgRecord] /\ tg'[c] = t2
      /\ \A d \in Channels : d # c => tg'[d] = tg[d]
  BY <1>4, <1>5, TgRecordType
<1>7. t2.posts \subseteq 1 .. t2.top /\ t.top <= t2.top
  BY <1>1, <1>2, <1>4
<1>8. \A m \in t2.posts : m \in t.posts \/ t.top < m
  BY <1>2, <1>4
<1>9. /\ scan' = Disturbed(c, t.top + 1) /\ UNCHANGED <<chan, job, proc, rows, faults>>
      /\ edits' \in 0 .. MaxEdits
  BY <1>1 DEF Publish, CollectionInv, TypeOK
<1> QED  BY <1>1, <1>6, <1>7, <1>8, <1>9, TelegramStep DEF TgRecord

\* A message goes, or a comment changes: no message is new.
LEMMA EditStep ==
  ASSUME CollectionInv, NEW c \in Channels, NEW t2 \in TgRecord,
         tg' = [tg EXCEPT ![c] = t2], t2.top = tg[c].top, t2.posts \subseteq tg[c].posts,
         NEW n, scan' = Disturbed(c, n), UNCHANGED <<chan, job, proc, rows, faults>>,
         edits' \in 0 .. MaxEdits
  PROVE  CollectionInv'
<1>1. /\ tg' \in [Channels -> TgRecord] /\ tg'[c] = t2
      /\ \A d \in Channels : d # c => tg'[d] = tg[d]
  BY TgRecordType
<1>2. /\ tg'[c].posts \subseteq 1 .. tg'[c].top
      /\ \A m \in tg'[c].posts : m \in tg[c].posts \/ tg[c].top < m
  BY <1>1, TgRecordType
<1>3. tg[c].top <= tg'[c].top
  BY <1>1, StateTypes DEF CollectionInv
<1> QED  BY <1>1, <1>2, <1>3, TelegramStep DEF TgRecord

LEMMA RemoveKeeps ==
  ASSUME CollectionInv, NEW c \in Channels, NEW m \in Msgs, Remove(c, m)
  PROVE  CollectionInv'
<1>1. PICK t \in TgRecord : t = tg[c]  BY TgRecordType
<1>2. PICK t2 : t2 = [t EXCEPT !.posts = t.posts \ {m}, !.said[m] = {}]  OBVIOUS
<1>3. t2 \in TgRecord /\ t2.top = t.top /\ t2.posts \subseteq t.posts
  BY <1>2 DEF TgRecord
<1>4. tg' = [tg EXCEPT ![c] = t2]
  BY <1>1, <1>2, TgRecordType DEF Remove
<1>5. edits' \in 0 .. MaxEdits  BY EditType DEF Remove, CollectionInv
<1> QED  BY <1>1, <1>3, <1>4, <1>5, EditStep DEF Remove

LEMMA CommentKeeps ==
  ASSUME CollectionInv, NEW c \in Channels, NEW m \in Msgs, NEW k \in Comments, Comment(c, m, k)
  PROVE  CollectionInv'
<1>1. PICK t \in TgRecord : t = tg[c]  BY TgRecordType
<1>2. PICK S \in SUBSET Comments : tg' = [tg EXCEPT ![c].said[m] = S]
  <2>1. t.said[m] \in SUBSET Comments  BY DEF TgRecord
  <2>2. t.said[m] \cup {k} \in SUBSET Comments /\ t.said[m] \ {k} \in SUBSET Comments
    BY <2>1
  <2> QED  BY <1>1, <2>2 DEF Comment
<1>3. PICK t2 : t2 = [t EXCEPT !.said[m] = S]  OBVIOUS
<1>4. t2 \in TgRecord /\ t2.top = t.top /\ t2.posts \subseteq t.posts
  BY <1>3 DEF TgRecord
<1>5. tg' = [tg EXCEPT ![c] = t2]  BY <1>1, <1>2, <1>3
<1>6. edits' \in 0 .. MaxEdits  BY EditType DEF Comment, CollectionInv
<1> QED  BY <1>1, <1>4, <1>5, <1>6, EditStep DEF Comment

-----------------------------------------------------------------------------
(* The invariant. *)

LEMMA CollectionInit == Init => CollectionInv
<1> SUFFICES ASSUME Init PROVE CollectionInv
  OBVIOUS
<1>1. TypeOK
  <2>1. Down \in Proc  BY DEF Down, Proc
  <2>2. 0 \in 0 .. MaxMsg /\ 0 \in 0 .. MaxRows /\ 0 \in 0 .. MaxEdits /\ 0 \in 0 .. MaxFaults
    BY CollectionAssumption
  <2> QED  BY <2>1, <2>2, IdleIsFresh DEF Init, TypeOK
<1>2. \A w \in Collectors : scan[w] = Idle  BY DEF Init
<1>3. ScansInv /\ AloneInv
  BY <1>2, IdleIsFresh DEF ScansInv, AloneInv, InScan
<1>4. RestInv
  BY <1>2, IdleIsFresh DEF Init, RestInv
<1>5. RowsInv  BY DEF Init, RowsInv
<1> QED  BY <1>1, <1>3, <1>4, <1>5 DEF CollectionInv

LEMMA CollectionInductive == CollectionInv /\ [Next]_vars => CollectionInv'
<1> SUFFICES ASSUME CollectionInv, [Next]_vars PROVE CollectionInv'
  OBVIOUS
<1>1. CASE UNCHANGED vars
  BY <1>1 DEF vars, CollectionInv, TypeOK, ScansInv, AloneInv, RestInv, RowsInv, InScan
<1>2. ASSUME NEW w \in Collectors, Poll(w) PROVE CollectionInv'
  BY <1>2, BeginKeeps, EndCycleKeeps, SkipInFloodKeeps, ClaimKeeps, ResolveKeeps, FetchKeeps,
     StoreKeeps, ReachCutoffKeeps, FetchThreadKeeps, StoreCommentKeeps, RetireCommentsKeeps,
     RetireKeeps, FinishKeeps DEF Poll
<1>3. ASSUME NEW w \in Collectors, Breaks(w) PROVE CollectionInv'
  BY <1>3, ClaimBreaksKeeps, FinishBreaksKeeps, ResolveBreaksKeeps, FloodWaitKeeps,
     ReadBreaksKeeps, SkipThreadKeeps DEF Breaks
<1>4. ASSUME NEW w \in Collectors,
             \/ Start(w) \/ FloodPasses(w) \/ Stop(w) \/ Crash(w)
             \/ \E c \in Channels : LeaseLapses(c, w)
      PROVE  CollectionInv'
  BY <1>4, StartKeeps, FloodPassesKeeps, StopKeeps, CrashKeeps, LeaseLapsesKeeps
<1>5. CASE World
  BY <1>5, AddChannelKeeps, DeactivateChannelKeeps, DeleteChannelKeeps, PublishKeeps,
     RemoveKeeps, CommentKeeps DEF World
<1> QED  BY <1>1, <1>2, <1>3, <1>4, <1>5 DEF Next

(* In every reachable state each scan knows what it has read, which row    *)
(* and job it works for, and whether the row is its own (poll_channel).    *)
THEOREM CollectionInvariant == Spec => []CollectionInv
BY CollectionInit, CollectionInductive, PTL DEF Spec

(* The tables, the scans and the processes keep their types. *)
THEOREM CollectionIsTyped == Spec => []TypeOK
<1>1. CollectionInv => TypeOK  BY DEF CollectionInv
<1> QED  BY <1>1, CollectionInvariant, PTL

(* No process takes the job of a scan whose lease is renewed: neither one *)
(* that starts, which fails stale jobs, nor one that claims.               *)
THEOREM JobsAreKept == Spec => []ScanKeepsItsJob
<1>1. CollectionInv => ScanKeepsItsJob
  <2> SUFFICES ASSUME CollectionInv, NEW w \in Collectors, InScan(w), Mine(w)
               PROVE  KeepsJob(job[scan[w].ch][w])
    BY DEF ScanKeepsItsJob, KeepsJob
  <2> QED  BY ScanAt DEF ScanOK
<1> QED  BY <1>1, CollectionInvariant, PTL

-----------------------------------------------------------------------------
(* Threads. *)

\* What a sync s of process w that has its thread to itself knows of it: the
\* comments under its token are Telegram's, and those that it still has to store
\* are the rest. t is what Telegram shows of the channel and r the channel's row.
ThreadTrue(w, s, t, r) ==
  \A k \in Comments :
    /\ k \in s.thread => k \in t.said[s.msg]
    /\ r.comments[s.msg][k] = w => k \in t.said[s.msg]
    /\ k \in t.said[s.msg] => k \in s.thread \/ r.comments[s.msg][k] = w

Undisturbed(w) == scan[w].pc = "replies" /\ scan[w].quiet /\ Mine(w)

ThreadsTrue ==
  \A w \in Collectors : Undisturbed(w) =>
    ThreadTrue(w, scan[w], tg[scan[w].ch], chan[scan[w].ch])

\* Syncs that are in one thread know of each other.
ThreadsShared ==
  \A v, w \in Collectors :
    /\ v # w /\ scan[v].pc = "replies" /\ scan[w].pc = "replies"
    /\ scan[v].ch = scan[w].ch /\ scan[v].id = scan[w].id /\ scan[v].msg = scan[w].msg
    => ~scan[w].quiet

ThreadsInv == ThreadsTrue /\ ThreadsShared

\* No sync of v begins, and none finds its quiet again.
InPlace(v) ==
  scan'[v].pc = "replies" =>
    /\ scan[v].pc = "replies"
    /\ scan'[v].ch = scan[v].ch /\ scan'[v].id = scan[v].id /\ scan'[v].msg = scan[v].msg
    /\ scan'[v].quiet => scan[v].quiet

\* If it keeps its quiet, nothing has changed in its thread.
ThreadLeft(v) ==
  scan'[v].pc = "replies" /\ scan'[v].quiet /\ Mine(v)' =>
    /\ Mine(v) /\ scan'[v].thread = scan[v].thread
    /\ tg'[scan[v].ch].said[scan[v].msg] = tg[scan[v].ch].said[scan[v].msg]
    /\ chan'[scan[v].ch].comments[scan[v].msg] = chan[scan[v].ch].comments[scan[v].msg]

LEMMA StillShared ==
  ASSUME ThreadsShared, \A v \in Collectors : InPlace(v)
  PROVE  ThreadsShared'
BY DEF ThreadsShared, InPlace

LEMMA StillTrue ==
  ASSUME ThreadsTrue, NEW v \in Collectors, InPlace(v), ThreadLeft(v), Undisturbed(v)'
  PROVE  ThreadTrue(v, scan'[v], tg'[scan'[v].ch], chan'[scan'[v].ch])
<1>1. /\ Undisturbed(v) /\ scan'[v].ch = scan[v].ch /\ scan'[v].msg = scan[v].msg
      /\ scan'[v].thread = scan[v].thread
      /\ tg'[scan[v].ch].said[scan[v].msg] = tg[scan[v].ch].said[scan[v].msg]
      /\ chan'[scan[v].ch].comments[scan[v].msg] = chan[scan[v].ch].comments[scan[v].msg]
  BY DEF InPlace, ThreadLeft, Undisturbed
<1>2. ThreadTrue(v, scan[v], tg[scan[v].ch], chan[scan[v].ch])
  BY <1>1 DEF ThreadsTrue
<1> QED  BY <1>1, <1>2 DEF ThreadTrue

\* A step outside the threads: a row that stays keeps its comments.
CommentsKept(c) ==
  chan'[c] # None =>
    \/ chan'[c].id = rows + 1
    \/ chan[c] # None /\ chan'[c].id = chan[c].id /\ chan'[c].comments = chan[c].comments

LEMMA OutsideStep ==
  ASSUME CollectionInv, ThreadsInv, UNCHANGED tg,
         \A v \in Collectors : scan'[v].pc = "replies" =>
           scan'[v] \in {scan[v], [scan[v] EXCEPT !.alone = FALSE]},
         \A c \in Channels : CommentsKept(c)
  PROVE  ThreadsInv'
<1>1. ASSUME NEW v \in Collectors, scan'[v].pc = "replies"
      PROVE  /\ scan[v].pc = "replies" /\ scan'[v].thread = scan[v].thread
             /\ scan'[v].ch = scan[v].ch /\ scan'[v].id = scan[v].id
             /\ scan'[v].msg = scan[v].msg
             /\ scan'[v].quiet => scan[v].quiet
  <2>1. PICK s \in Scan : s = scan[v]  BY StateTypes DEF CollectionInv
  <2>2. PICK u : u = scan'[v]  OBVIOUS
  <2>3. u \in {s, [s EXCEPT !.alone = FALSE]}  BY <1>1, <2>1, <2>2
  <2>4. /\ u.pc = s.pc /\ u.thread = s.thread /\ u.ch = s.ch /\ u.id = s.id
        /\ u.msg = s.msg
        /\ u.quiet => s.quiet
    BY <2>3, Disturb
  <2> QED  BY <1>1, <2>1, <2>2, <2>4
<1>2. \A v \in Collectors : InPlace(v)  BY <1>1 DEF InPlace
<1>3. ASSUME NEW v \in Collectors, scan'[v].pc = "replies", Mine(v)'
      PROVE  /\ Mine(v)
             /\ chan'[scan[v].ch].comments = chan[scan[v].ch].comments
  <2>1. PICK c \in Channels : c = scan[v].ch  BY <1>1, <1>3, ThreadAt, ScanAt
  <2>2. chan'[c] # None /\ chan'[c].id = scan[v].id
    BY <1>1, <1>3, <2>1 DEF Mine, Here
  <2>3. scan[v].id # rows + 1
    <3>1. scan[v].id <= rows /\ scan[v].id \in Nat /\ rows \in Nat
      BY StateTypes, MessagesAreNumbers DEF CollectionInv, RestInv, Scan
    <3> QED  BY <3>1
  <2>4. chan[c] # None /\ chan'[c].id = chan[c].id /\ chan'[c].comments = chan[c].comments
    BY <2>2, <2>3 DEF CommentsKept
  <2> QED  BY <2>1, <2>2, <2>4 DEF Mine, Here
<1>4. \A v \in Collectors : ThreadLeft(v)  BY <1>1, <1>3 DEF ThreadLeft
<1> QED  BY <1>2, <1>4, StillShared, StillTrue DEF ThreadsInv, ThreadsTrue

\* The steps of a scan outside its threads.
LEMMA OutsideMoves ==
  ASSUME CollectionInv, ThreadsInv, NEW w \in Collectors, NEW x,
         scan' = [scan EXCEPT ![w] = x], x.pc # "replies", UNCHANGED tg,
         \A c \in Channels : CommentsKept(c)
  PROVE  ThreadsInv'
<1>1. \A v \in Collectors : scan'[v] = IF v = w THEN x ELSE scan[v]
  BY DEF CollectionInv, TypeOK
<1> QED  BY <1>1, OutsideStep

LEMMA SameRowsKept ==
  ASSUME UNCHANGED chan
  PROVE  \A c \in Channels : CommentsKept(c)
BY DEF CommentsKept

LEMMA RowsKeepComments ==
  ASSUME \A c \in Channels : RowKept(c)
  PROVE  \A c \in Channels : CommentsKept(c)
BY DEF RowKept, CommentsKept

\* The steps of a process that end in no thread.
LEMMA MovesOutside ==
  ASSUME CollectionInv, NEW w \in Collectors,
         \/ Begin(w) \/ EndCycle(w) \/ SkipInFlood(w) \/ Resolve(w) \/ Fetch(w) \/ Store(w)
         \/ ReachCutoff(w) \/ RetireComments(w) \/ Retire(w) \/ Finish(w)
         \/ Breaks(w) \/ Stop(w) \/ Crash(w)
  PROVE  \E x : scan' = [scan EXCEPT ![w] = x] /\ x.pc # "replies"
<1>1. PICK s \in Scan : s = scan[w]  BY StateTypes DEF CollectionInv
<1>2. Idle.pc # "replies"  BY DEF Idle
<1>3. ASSUME Begin(w) \/ SkipInFlood(w)
      PROVE  \E x : scan' = [scan EXCEPT ![w] = x] /\ x.pc # "replies"
  <2>1. PICK T : scan' = [scan EXCEPT ![w] = [[s EXCEPT !.todo = T] EXCEPT !.pc = "next"]]
    BY <1>1, <1>3 DEF Begin, SkipInFlood, Rest, Goto
  <2>2. [[s EXCEPT !.todo = T] EXCEPT !.pc = "next"].pc = "next"  BY DEF Scan
  <2> QED  BY <2>1, <2>2
<1>4. ASSUME NEW pc, pc # "replies", Goto(w, scan[w], pc)
      PROVE  \E x : scan' = [scan EXCEPT ![w] = x] /\ x.pc # "replies"
  <2>1. [s EXCEPT !.pc = pc].pc = pc  BY DEF Scan
  <2> QED  BY <1>1, <1>4, <2>1 DEF Goto
<1>5. ASSUME NEW b, Over(w, b)
      PROVE  \E x : scan' = [scan EXCEPT ![w] = x] /\ x.pc # "replies"
  <2>1. [[s EXCEPT !.failed = b] EXCEPT !.pc = "finish"].pc = "finish"  BY DEF Scan
  <2> QED  BY <1>1, <1>5, <2>1 DEF Over, Goto
<1>6. ASSUME Resolve(w)
      PROVE  \E x : scan' = [scan EXCEPT ![w] = x] /\ x.pc # "replies"
  <2>1. PICK K : scan' = [scan EXCEPT ![w] = [[s EXCEPT !.known = K] EXCEPT !.pc = "read"]]
    BY <1>1, <1>6 DEF Resolve, Goto
  <2>2. [[s EXCEPT !.known = K] EXCEPT !.pc = "read"].pc = "read"  BY DEF Scan
  <2> QED  BY <2>1, <2>2
<1>7. ASSUME Fetch(w)
      PROVE  \E x : scan' = [scan EXCEPT ![w] = x] /\ x.pc # "replies"
  <2>1. CASE NextPage(w) = {}  BY <1>4, <1>7, <2>1 DEF Fetch
  <2>2. CASE NextPage(w) # {}
    <3>1. PICK P : P = NextPage(w)  OBVIOUS
    <3>2. PICK o : o = Oldest(P)  OBVIOUS
    <3>3. PICK g : g = s.got + Cardinality(P)  OBVIOUS
    <3>4. scan' = [scan EXCEPT ![w] =
                    [[s EXCEPT !.page = P, !.pos = o, !.got = g] EXCEPT !.pc = "read"]]
      BY <1>1, <1>7, <2>2, <3>1, <3>2, <3>3 DEF Fetch, Goto
    <3>5. [[s EXCEPT !.page = P, !.pos = o, !.got = g] EXCEPT !.pc = "read"].pc = "read"
      BY DEF Scan
    <3> QED  BY <3>4, <3>5
  <2> QED  BY <2>1, <2>2
<1>8. ASSUME Store(w)
      PROVE  \E x : scan' = [scan EXCEPT ![w] = x] /\ x.pc # "replies"
  <2>1. CASE Mine(w)
    <3>1. PICK m : m = Newest(s.page)  OBVIOUS
    <3>2. PICK P : P = s.page \ {m}  OBVIOUS
    <3>3. PICK S : S = s.seen \cup {m}  OBVIOUS
    <3>4. PICK s1 : s1 = [s EXCEPT !.page = P, !.seen = S]  OBVIOUS
    <3>5. \/ scan' = [scan EXCEPT ![w] = [[s1 EXCEPT !.msg = m] EXCEPT !.pc = "thread"]]
          \/ scan' = [scan EXCEPT ![w] = [s1 EXCEPT !.pc = "read"]]
      BY <1>1, <1>8, <2>1, <3>1, <3>2, <3>3, <3>4 DEF Store, Goto
    <3>6. /\ [[s1 EXCEPT !.msg = m] EXCEPT !.pc = "thread"].pc = "thread"
          /\ [s1 EXCEPT !.pc = "read"].pc = "read"
      BY <3>4 DEF Scan
    <3> QED  BY <3>5, <3>6
  <2>2. CASE ~Mine(w)  BY <1>5, <1>8, <2>2 DEF Store
  <2> QED  BY <2>1, <2>2
<1>9. ASSUME RetireComments(w) \/ SkipThread(w)
      PROVE  \E x : scan' = [scan EXCEPT ![w] = x] /\ x.pc # "replies"
  <2>1. PICK T : \/ scan' = [scan EXCEPT ![w] =
                      [[s EXCEPT !.msg = 0, !.quiet = TRUE] EXCEPT !.pc = "read"]]
                 \/ scan' = [scan EXCEPT ![w] =
                      [[s EXCEPT !.msg = 0, !.thread = T, !.quiet = TRUE] EXCEPT !.pc = "read"]]
    BY <1>1, <1>9 DEF RetireComments, SkipThread, Goto
  <2>2. /\ [[s EXCEPT !.msg = 0, !.quiet = TRUE] EXCEPT !.pc = "read"].pc = "read"
        /\ [[s EXCEPT !.msg = 0, !.thread = T, !.quiet = TRUE] EXCEPT !.pc = "read"].pc = "read"
    BY DEF Scan
  <2> QED  BY <2>1, <2>2
<1>10. ASSUME Finish(w) \/ FinishBreaks(w) \/ EndCycle(w) \/ ClaimBreaks(w) \/ Crash(w)
       PROVE  \E x : scan' = [scan EXCEPT ![w] = x] /\ x.pc # "replies"
  <2>1. PICK T : \/ scan' = [scan EXCEPT ![w] = Idle]
                 \/ scan' = [scan EXCEPT ![w] = [Idle EXCEPT !.todo = T, !.pc = "next"]]
    BY <1>10 DEF Finish, FinishBreaks, EndCycle, ClaimBreaks, Crash
  <2>2. [Idle EXCEPT !.todo = T, !.pc = "next"].pc = "next"  BY DEF Idle
  <2> QED  BY <1>2, <2>1, <2>2
<1>11. ASSUME Stop(w)
       PROVE  \E x : scan' = [scan EXCEPT ![w] = x] /\ x.pc # "replies"
  BY <1>2, <1>4, <1>11 DEF Stop
<1>12. ReachCutoff(w) \/ Retire(w) \/ ResolveBreaks(w) \/ FloodWait(w) \/ ReadBreaks(w) =>
         \E x : scan' = [scan EXCEPT ![w] = x] /\ x.pc # "replies"
  BY <1>4, <1>5 DEF ReachCutoff, Retire, ResolveBreaks, FloodWait, ReadBreaks
<1> QED  BY <1>3, <1>6, <1>7, <1>8, <1>9, <1>10, <1>11, <1>12 DEF Breaks

\* The rows that these steps leave.
LEMMA PostsWritten ==
  ASSUME CollectionInv, NEW c \in Channels, NEW P, chan[c] # None,
         chan' = [chan EXCEPT ![c] = [chan[c] EXCEPT !.posts = P]]
  PROVE  \A d \in Channels : CommentsKept(d)
<1>1. PICK r \in Row : r = chan[c]  BY StateTypes DEF CollectionInv
<1>2. PICK r2 : r2 = [r EXCEPT !.posts = P]  OBVIOUS
<1>3. r2.id = r.id /\ r2.comments = r.comments  BY <1>2 DEF Row
<1>4. \A d \in Channels : chan'[d] = IF d = c THEN r2 ELSE chan[d]
  BY <1>1, <1>2 DEF CollectionInv, TypeOK
<1> QED  BY <1>1, <1>3, <1>4 DEF CommentsKept

LEMMA RowsOutside ==
  ASSUME CollectionInv, NEW w \in Collectors,
         \/ Begin(w) \/ EndCycle(w) \/ SkipInFlood(w) \/ Claim(w) \/ Resolve(w) \/ Fetch(w)
         \/ Store(w) \/ ReachCutoff(w) \/ Retire(w) \/ Finish(w)
         \/ Breaks(w) \/ Stop(w) \/ Crash(w)
  PROVE  UNCHANGED tg /\ \A c \in Channels : CommentsKept(c)
<1>1. CASE Resolve(w)
  BY <1>1, ResolveRows, RowsKeepComments DEF Resolve
<1>2. CASE Store(w) /\ Mine(w)
  <2>1. PICK c \in Channels : c = scan[w].ch
    BY <1>2, ScanAt DEF Store, InScan, Scanning
  <2>2. PICK m : m = Newest(scan[w].page)  OBVIOUS
  <2>3. PICK P : P = [chan[c].posts EXCEPT ![m] = "live"]  OBVIOUS
  <2>4. chan' = [chan EXCEPT ![c] = [chan[c] EXCEPT !.posts = P]] /\ chan[c] # None
    BY <1>2, <2>1, <2>2, <2>3 DEF Store, Upserted, Mine, Here
  <2> QED  BY <1>2, <2>4, PostsWritten DEF Store
<1>3. CASE Retire(w) /\ chan' # chan
  <2>1. PICK c \in Channels : c = scan[w].ch
    BY <1>3, ScanAt DEF Retire, InScan, Scanning
  <2>2. PICK P : P = Retired(w)  OBVIOUS
  <2>3. chan' = [chan EXCEPT ![c] = [chan[c] EXCEPT !.posts = P]] /\ chan[c] # None
    BY <1>3, <2>1, <2>2 DEF Retire, Mine, Here
  <2> QED  BY <1>3, <2>3, PostsWritten DEF Retire
<1>4. CASE UNCHANGED <<tg, chan>>  BY <1>4, SameRowsKept
<1>5. \/ Resolve(w) \/ (Store(w) /\ Mine(w)) \/ (Retire(w) /\ chan' # chan)
      \/ UNCHANGED <<tg, chan>>
  BY DEF Begin, EndCycle, SkipInFlood, Claim, Fetch, Store, ReachCutoff, Retire, Finish,
         Breaks, ClaimBreaks, FinishBreaks, ResolveBreaks, FloodWait, ReadBreaks, SkipThread,
         Stop, Crash
<1> QED  BY <1>1, <1>2, <1>3, <1>4, <1>5

\* A claim begins no thread.
LEMMA ClaimOutside ==
  ASSUME CollectionInv, ThreadsInv, NEW w \in Collectors, Claim(w)
  PROVE  ThreadsInv'
<1>1. PICK s \in Scan : s = scan[w]  BY StateTypes DEF CollectionInv
<1>2. UNCHANGED tg /\ \A c \in Channels : CommentsKept(c)  BY RowsOutside
<1>3. CASE ~Claimable(First(w)[1], First(w)[2])
  <2>1. PICK T : scan' = [scan EXCEPT ![w] = [[s EXCEPT !.todo = T] EXCEPT !.pc = "next"]]
    BY <1>1, <1>3 DEF Claim, Rest, Goto
  <2>2. [[s EXCEPT !.todo = T] EXCEPT !.pc = "next"].pc = "next"  BY DEF Scan
  <2> QED  BY <1>2, <2>1, <2>2, OutsideMoves
<1>4. CASE Claimable(First(w)[1], First(w)[2])
  <2> DEFINE c == First(w)[1]
             id == First(w)[2]
             others == ScansOf(c, id) \ {w}
             mine == [Rest(w) EXCEPT !.pc = "resolve", !.ch = c, !.id = id,
                                     !.alone = (others = {})]
  <2>1. PICK since \in Windows :
          scan' = [v \in Collectors |->
            IF v = w THEN [mine EXCEPT !.since = since]
            ELSE IF v \in others THEN [scan[v] EXCEPT !.alone = FALSE] ELSE scan[v]]
    BY <1>4 DEF Claim
  <2>2. [mine EXCEPT !.since = since].pc = "resolve"
    <3>1. PICK T : T = s.todo \ {First(w)}  OBVIOUS
    <3>2. Rest(w) = [s EXCEPT !.todo = T]  BY <1>1, <3>1 DEF Rest
    <3> QED  BY <3>2 DEF Scan
  <2> HIDE DEF others, mine
  <2>3. \A v \in Collectors : scan'[v].pc = "replies" =>
          scan'[v] \in {scan[v], [scan[v] EXCEPT !.alone = FALSE]}
    BY <2>1, <2>2
  <2> QED  BY <1>2, <2>3, OutsideStep
<1> QED  BY <1>3, <1>4

\* What is no step of a scan.
LEMMA RowsAndLeases ==
  ASSUME CollectionInv, ThreadsInv,
         \/ \E w \in Collectors : Start(w) \/ FloodPasses(w) \/ \E c \in Channels : LeaseLapses(c, w)
         \/ \E c \in Channels : AddChannel(c) \/ DeactivateChannel(c) \/ DeleteChannel(c)
  PROVE  ThreadsInv'
<1>1. UNCHANGED <<tg, scan>>
  BY DEF Start, FloodPasses, LeaseLapses, AddChannel, DeactivateChannel, DeleteChannel
<1>2. ASSUME NEW w \in Collectors, Start(w) PROVE \A c \in Channels : CommentsKept(c)
  BY <1>2, StartRows, RowsKeepComments
<1>3. ASSUME NEW w \in Collectors, FloodPasses(w) \/ \E c \in Channels : LeaseLapses(c, w)
      PROVE  \A c \in Channels : CommentsKept(c)
  BY <1>3, SameRowsKept DEF FloodPasses, LeaseLapses
<1>4. ASSUME NEW c \in Channels, AddChannel(c) \/ DeactivateChannel(c)
      PROVE  \A d \in Channels : CommentsKept(d)
  <2>1. RowKept(c)
    <3>1. chan'[c] = Added(c) \/ (chan[c] # None /\ chan'[c] = [chan[c] EXCEPT !.active = FALSE])
      BY <1>4 DEF AddChannel, DeactivateChannel, CollectionInv, TypeOK
    <3>2. chan'[c] = Added(c) /\ chan[c] = None => rows < MaxRows /\ rows' = rows + 1
      BY <1>4, <3>1 DEF AddChannel, DeactivateChannel
    <3> QED  BY <3>1, <3>2, RowSwitched DEF Added
  <2>2. \A d \in Channels : d # c => chan'[d] = chan[d]
    BY <1>4 DEF AddChannel, DeactivateChannel, CollectionInv, TypeOK
  <2>3. \A d \in Channels : RowKept(d)  BY <2>1, <2>2 DEF RowKept
  <2> QED  BY <2>3, RowsKeepComments
<1>5. ASSUME NEW c \in Channels, DeleteChannel(c) PROVE \A d \in Channels : CommentsKept(d)
  <2>1. \A d \in Channels : chan'[d] = IF d = c THEN None ELSE chan[d]
    BY <1>5 DEF DeleteChannel, CollectionInv, TypeOK
  <2> QED  BY <2>1 DEF CommentsKept
<1>6. \A c \in Channels : CommentsKept(c)  BY <1>2, <1>3, <1>4, <1>5
<1> QED  BY <1>1, <1>6, OutsideStep

\* Nothing is written but comments of one post m, by its sync w.
OneThread(w, c, m) ==
  \/ chan' = chan
  \/ /\ Mine(w)
     /\ \E r2 \in Row : /\ chan' = [chan EXCEPT ![c] = r2] /\ r2.id = chan[c].id
                        /\ \A n \in Msgs : n # m => r2.comments[n] = chan[c].comments[n]

\* A sync w writes comments of its post: the syncs that are in the same thread
\* are told, the others' threads are left alone.
LEMMA OtherThreads ==
  ASSUME CollectionInv, ThreadsInv, NEW w \in Collectors, UNCHANGED tg,
         NEW c \in Channels, c = scan[w].ch, NEW m \in Msgs, m = scan[w].msg,
         OneThread(w, c, m),
         NEW v \in Collectors, v # w,
         scan'[v] \in {scan[v], [scan[v] EXCEPT !.quiet = FALSE]},
         /\ scan[v].pc = "replies" /\ scan[v].ch = c /\ scan[v].id = scan[w].id
         /\ scan[v].msg = m
         => ~scan'[v].quiet
  PROVE  InPlace(v) /\ ThreadLeft(v)
<1>1. PICK s \in Scan : s = scan[v]  BY StateTypes DEF CollectionInv
<1>2. PICK u : u = scan'[v]  OBVIOUS
<1>3. u \in {s, [s EXCEPT !.quiet = FALSE]}  BY <1>1, <1>2
<1>4. /\ u.pc = s.pc /\ u.ch = s.ch /\ u.id = s.id /\ u.msg = s.msg /\ u.thread = s.thread
      /\ u.quiet => s.quiet
  BY <1>3, Disturb
<1>5. InPlace(v)  BY <1>1, <1>2, <1>4 DEF InPlace
<1>6. ASSUME s.pc = "replies", u.quiet, Mine(v)'
      PROVE  Mine(v) /\ chan'[s.ch].comments[s.msg] = chan[s.ch].comments[s.msg]
  <2>1. CASE chan' = chan \/ s.ch # c
    <3>1. s.ch \in Channels  BY <1>1, <1>6, ThreadAt, ScanAt
    <3>2. chan'[s.ch] = chan[s.ch]  BY <2>1, <3>1 DEF OneThread, CollectionInv, TypeOK
    <3> QED  BY <1>1, <1>2, <1>4, <1>6, <3>2 DEF Mine, Here
  <2>2. CASE chan' # chan /\ s.ch = c
    <3>1. PICK r2 \in Row : /\ chan' = [chan EXCEPT ![c] = r2] /\ r2.id = chan[c].id
                            /\ \A n \in Msgs : n # m => r2.comments[n] = chan[c].comments[n]
      BY <2>2 DEF OneThread
    <3>2. chan'[c] = r2  BY <3>1 DEF CollectionInv, TypeOK
    <3>3. Mine(w) /\ chan[c] # None /\ chan[c].id = scan[w].id
      BY <2>2 DEF OneThread, Mine, Here
    <3>4. s.id = chan[c].id  BY <1>2, <1>4, <1>6, <2>2, <3>1, <3>2 DEF Mine, Here
    <3>5. s.msg # m  BY <1>1, <1>2, <1>6, <2>2, <3>3, <3>4
    <3>6. s.msg \in Msgs  BY <1>1, <1>6, ThreadAt
    <3> QED  BY <1>1, <2>2, <3>1, <3>2, <3>3, <3>4, <3>5, <3>6 DEF Mine, Here
  <2> QED  BY <2>1, <2>2
<1>7. ThreadLeft(v)  BY <1>1, <1>2, <1>4, <1>6 DEF ThreadLeft
<1> QED  BY <1>5, <1>7

\* A sync that goes on in its thread, or leaves it.
LEMMA ThreadGoesOn ==
  ASSUME CollectionInv, ThreadsInv, NEW w \in Collectors, scan[w].pc = "replies",
         UNCHANGED tg, NEW s2, scan' = [scan EXCEPT ![w] = s2], InPlace(w),
         NEW c \in Channels, c = scan[w].ch, NEW m \in Msgs, m = scan[w].msg,
         OneThread(w, c, m),
         Undisturbed(w)' => ThreadTrue(w, s2, tg[c], chan'[c]), s2.ch = c
  PROVE  ThreadsInv'
<1>1. scan'[w] = s2 /\ \A v \in Collectors : v # w => scan'[v] = scan[v]
  BY DEF CollectionInv, TypeOK
<1>2. ASSUME NEW v \in Collectors, v # w PROVE InPlace(v) /\ ThreadLeft(v)
  <2>1. /\ scan[v].pc = "replies" /\ scan[v].ch = c /\ scan[v].id = scan[w].id
        /\ scan[v].msg = m
        => ~scan[v].quiet
    BY <1>2 DEF ThreadsInv, ThreadsShared
  <2> QED  BY <1>1, <1>2, <2>1, OtherThreads
<1>3. ThreadsShared'  BY <1>2, StillShared DEF ThreadsInv
<1>4. ASSUME NEW v \in Collectors, v # w, Undisturbed(v)'
      PROVE  ThreadTrue(v, scan'[v], tg'[scan'[v].ch], chan'[scan'[v].ch])
  BY <1>2, <1>4, StillTrue DEF ThreadsInv
<1> QED  BY <1>1, <1>3, <1>4 DEF ThreadsInv, ThreadsTrue

\* The sync that has fetched a thread knows all of it and has stored nothing.
LEMMA FetchThreadKnows ==
  ASSUME CollectionInv, ThreadsInv, NEW w \in Collectors, FetchThread(w)
  PROVE  ThreadsInv'
<1>1. scan[w].pc = "thread" /\ InScan(w)  BY ThreadAt DEF FetchThread
<1>2. PICK s \in Scan : s = scan[w]  BY <1>1, ScanAt
<1>3. PICK c \in Channels : c = s.ch  BY <1>1, <1>2, ScanAt
<1>4. PICK m \in Msgs : m = s.msg  BY <1>1, <1>2, ThreadAt
<1>5. PICK T \in SUBSET Comments : T = tg[c].said[m]
  BY StateTypes DEF CollectionInv
<1>6. PICK I : I = Inside(w)  OBVIOUS
<1>7. PICK b \in BOOLEAN : b = (I = {})  OBVIOUS
<1>8. PICK s2 : s2 = [s EXCEPT !.pc = "replies", !.thread = T, !.quiet = b]  OBVIOUS
<1>9. /\ s2.pc = "replies" /\ s2.thread = T /\ s2.ch = c /\ s2.id = s.id /\ s2.msg = m
      /\ s2.quiet => b
  BY <1>3, <1>4, <1>8 DEF Scan
<1>10. /\ scan'[w] = s2
       /\ \A v \in Collectors : v # w =>
            scan'[v] = IF v \in I THEN [scan[v] EXCEPT !.quiet = FALSE] ELSE scan[v]
  BY <1>2, <1>3, <1>4, <1>5, <1>6, <1>7, <1>8 DEF FetchThread
<1>11. UNCHANGED tg  BY DEF FetchThread
<1>12. ASSUME NEW v \in Collectors, v # w,
              scan[v].pc = "replies", scan[v].ch = c, scan[v].id = s.id, scan[v].msg = m
       PROVE  v \in I /\ ~scan'[v].quiet
  <2>1. v \in I
    BY <1>2, <1>3, <1>4, <1>6, <1>12 DEF Inside, ScansOf, InScan, Scanning
  <2>2. PICK u \in Scan : u = scan[v]  BY StateTypes DEF CollectionInv
  <2>3. ~[u EXCEPT !.quiet = FALSE].quiet  BY DEF Scan
  <2> QED  BY <1>10, <1>12, <2>1, <2>2, <2>3
<1>13. /\ OneThread(w, c, m)
       /\ Mine(w) => \A k \in Comments : chan'[c].comments[m][k] # w
  <2>1. CASE ~Mine(w)  BY <2>1 DEF FetchThread, OneThread
  <2>2. CASE Mine(w)
    <3>1. PICK r \in Row : r = chan[c]  BY <1>1, <1>2, <1>3, <2>2, ThreadAt
    <3>2. PICK F : F = [k \in Comments |->
                          IF r.comments[m][k] = w THEN "earlier" ELSE r.comments[m][k]]
      OBVIOUS
    <3>3. F \in [Comments -> Tokens \cup {"none", "retired"}]
      BY <3>2 DEF Row, Tokens
    <3>4. \A k \in Comments : F[k] # w
      BY <3>2, TokenAssumption
    <3>5. PICK r2 : r2 = [r EXCEPT !.comments[m] = F]  OBVIOUS
    <3>6. /\ r2 \in Row /\ r2.id = r.id /\ r2.comments[m] = F
          /\ \A n \in Msgs : n # m => r2.comments[n] = r.comments[n]
      BY <3>3, <3>5, CommentsSet
    <3>7. chan' = [chan EXCEPT ![c] = r2]
      BY <1>2, <1>3, <1>4, <2>2, <3>1, <3>2, <3>5 DEF FetchThread
    <3>8. chan'[c] = r2  BY <3>7 DEF CollectionInv, TypeOK
    <3> QED  BY <2>2, <3>1, <3>4, <3>6, <3>7, <3>8 DEF OneThread
  <2> QED  BY <2>1, <2>2
<1>14. ASSUME NEW v \in Collectors, v # w PROVE InPlace(v) /\ ThreadLeft(v)
  <2>1. scan'[v] \in {scan[v], [scan[v] EXCEPT !.quiet = FALSE]}  BY <1>10, <1>14
  <2>2. /\ scan[v].pc = "replies" /\ scan[v].ch = c /\ scan[v].id = scan[w].id
        /\ scan[v].msg = m
        => ~scan'[v].quiet
    BY <1>2, <1>12, <1>14
  <2>3. c = scan[w].ch /\ m = scan[w].msg  BY <1>2, <1>3, <1>4
  <2> QED  BY <1>11, <1>13, <1>14, <2>1, <2>2, <2>3, OtherThreads
<1>15. ASSUME NEW v \in Collectors, v # w, scan'[v].pc = "replies",
              scan'[v].ch = c, scan'[v].id = s.id, scan'[v].msg = m
       PROVE  ~scan'[v].quiet /\ ~scan'[w].quiet
  <2>1. /\ scan[v].pc = "replies" /\ scan[v].ch = c /\ scan[v].id = s.id
        /\ scan[v].msg = m
    BY <1>14, <1>15 DEF InPlace
  <2> QED  BY <1>7, <1>9, <1>10, <1>12, <1>15, <2>1
<1>16. ThreadsShared'
  <2> SUFFICES ASSUME NEW u \in Collectors, NEW v \in Collectors, u # v,
                      scan'[u].pc = "replies", scan'[v].pc = "replies",
                      scan'[u].ch = scan'[v].ch, scan'[u].id = scan'[v].id,
                      scan'[u].msg = scan'[v].msg
               PROVE  ~scan'[v].quiet
    BY DEF ThreadsShared
  <2>1. CASE u = w  BY <1>9, <1>10, <1>15, <2>1
  <2>2. CASE v = w  BY <1>9, <1>10, <1>15, <2>2
  <2>3. CASE u # w /\ v # w
    BY <1>14, <2>3 DEF InPlace, ThreadsInv, ThreadsShared
  <2> QED  BY <2>1, <2>2, <2>3
<1>17. ASSUME NEW v \in Collectors, Undisturbed(v)'
       PROVE  ThreadTrue(v, scan'[v], tg'[scan'[v].ch], chan'[scan'[v].ch])
  <2>1. CASE v # w  BY <1>14, <1>17, <2>1, StillTrue DEF ThreadsInv
  <2>2. CASE v = w
    <3>1. \A k \in Comments : chan'[c].comments[m][k] # w
      <4>1. Mine(w)' => Mine(w)
        <5>1. CASE chan' = chan  BY <1>2, <1>3, <1>9, <1>10, <5>1 DEF Mine, Here
        <5>2. CASE chan' # chan  BY <1>13, <5>2 DEF OneThread
        <5> QED  BY <5>1, <5>2
      <4>2. Mine(w)  BY <1>17, <2>2, <4>1 DEF Undisturbed
      <4> QED  BY <1>13, <4>2
    <3>2. tg'[c].said[m] = T  BY <1>5, <1>11
    <3> QED  BY <1>9, <1>10, <2>2, <3>1, <3>2 DEF ThreadTrue
  <2> QED  BY <2>1, <2>2
<1> QED  BY <1>16, <1>17 DEF ThreadsInv, ThreadsTrue

\* A comment moves from what is to be stored to what is stored under the token.
LEMMA StoreCommentKnows ==
  ASSUME CollectionInv, ThreadsInv, NEW w \in Collectors, StoreComment(w)
  PROVE  ThreadsInv'
<1>1. scan[w].pc = "replies" /\ InScan(w) /\ Mine(w)  BY ThreadAt DEF StoreComment
<1>2. PICK s \in Scan : s = scan[w]  BY <1>1, ScanAt
<1>3. PICK c \in Channels : c = s.ch  BY <1>1, <1>2, ScanAt
<1>4. PICK m \in Msgs : m = s.msg  BY <1>1, <1>2, ThreadAt
<1>5. PICK k \in s.thread : k = (CHOOSE x \in scan[w].thread : TRUE)
  BY <1>2 DEF StoreComment
<1>6. k \in Comments  BY DEF Scan
<1>7. PICK T : T = s.thread \ {k}  OBVIOUS
<1>8. PICK s2 : s2 = [[s EXCEPT !.thread = T] EXCEPT !.pc = "replies"]  OBVIOUS
<1>9. /\ s2.pc = "replies" /\ s2.thread = s.thread \ {k} /\ s2.ch = c /\ s2.id = s.id
      /\ s2.msg = m
      /\ s2.quiet => s.quiet
  BY <1>3, <1>4, <1>7, <1>8 DEF Scan
<1>10. scan' = [scan EXCEPT ![w] = s2]
  BY <1>2, <1>5, <1>7, <1>8 DEF StoreComment, Goto
<1>11. scan'[w] = s2  BY <1>10 DEF CollectionInv, TypeOK
<1>12. PICK r \in Row : r = chan[c]  BY <1>1, <1>2, <1>3, ThreadAt
<1>13. PICK r2 : r2 = [r EXCEPT !.comments[m][k] = w]  OBVIOUS
<1>14. /\ r2 \in Row /\ r2.id = r.id
       /\ \A l \in Comments : r2.comments[m][l] = IF l = k THEN w ELSE r.comments[m][l]
       /\ \A n \in Msgs : n # m => r2.comments[n] = r.comments[n]
  <2>1. w \in Tokens  BY DEF Tokens
  <2> QED  BY <1>6, <1>13, <2>1, CommentSet
<1>15. chan' = [chan EXCEPT ![c] = r2]
  BY <1>2, <1>3, <1>4, <1>5, <1>12, <1>13 DEF StoreComment
<1>16. chan'[c] = r2  BY <1>15 DEF CollectionInv, TypeOK
<1>17. InPlace(w)  BY <1>1, <1>2, <1>3, <1>4, <1>9, <1>11 DEF InPlace
<1>18. ASSUME Undisturbed(w)' PROVE ThreadTrue(w, s2, tg[c], r2)
  <2>1. Undisturbed(w)  BY <1>1, <1>2, <1>9, <1>11, <1>18 DEF Undisturbed
  <2>2. ThreadTrue(w, s, tg[c], r)  BY <1>2, <1>3, <1>12, <2>1 DEF ThreadsInv, ThreadsTrue
  <2> QED  BY <1>4, <1>9, <1>14, <2>2 DEF ThreadTrue
<1>19. c = scan[w].ch /\ m = scan[w].msg /\ UNCHANGED tg
  BY <1>2, <1>3, <1>4 DEF StoreComment
<1>20. OneThread(w, c, m)  BY <1>1, <1>12, <1>14, <1>15 DEF OneThread
<1> QED  BY <1>1, <1>9, <1>10, <1>16, <1>17, <1>18, <1>19, <1>20, ThreadGoesOn

\* A sync leaves its thread.
LEMMA RetireCommentsKnows ==
  ASSUME CollectionInv, ThreadsInv, NEW w \in Collectors, RetireComments(w)
  PROVE  ThreadsInv'
<1>1. scan[w].pc = "replies" /\ InScan(w)  BY ThreadAt DEF RetireComments
<1>2. PICK s \in Scan : s = scan[w]  BY <1>1, ScanAt
<1>3. PICK c \in Channels : c = s.ch  BY <1>1, <1>2, ScanAt
<1>4. PICK m \in Msgs : m = s.msg  BY <1>1, <1>2, ThreadAt
<1>5. PICK s2 : s2 = [[s EXCEPT !.msg = 0, !.quiet = TRUE] EXCEPT !.pc = "read"]  OBVIOUS
<1>6. s2.pc = "read" /\ s2.ch = c  BY <1>3, <1>5 DEF Scan
<1>7. scan' = [scan EXCEPT ![w] = s2]  BY <1>2, <1>5 DEF RetireComments, Goto
<1>8. scan'[w] = s2  BY <1>7 DEF CollectionInv, TypeOK
<1>9. InPlace(w) /\ ~Undisturbed(w)'  BY <1>6, <1>8 DEF InPlace, Undisturbed
<1>10. OneThread(w, c, m)
  <2>1. CASE ~Mine(w)  BY <2>1 DEF RetireComments, OneThread
  <2>2. CASE Mine(w)
    <3>1. PICK r \in Row : r = chan[c]  BY <1>1, <1>2, <1>3, <2>2, ThreadAt
    <3>2. PICK F : F = [k \in Comments |->
                          IF Unseen(w, r.comments[m][k]) THEN "retired" ELSE r.comments[m][k]]
      OBVIOUS
    <3>3. F \in [Comments -> Tokens \cup {"none", "retired"}]
      BY <3>2 DEF Row
    <3>4. PICK r2 : r2 = [r EXCEPT !.comments[m] = F]  OBVIOUS
    <3>5. /\ r2 \in Row /\ r2.id = r.id
          /\ \A n \in Msgs : n # m => r2.comments[n] = r.comments[n]
      BY <3>3, <3>4, CommentsSet
    <3>6. chan' = [chan EXCEPT ![c] = r2]
      BY <1>2, <1>3, <1>4, <2>2, <3>1, <3>2, <3>4 DEF RetireComments
    <3> QED  BY <2>2, <3>1, <3>5, <3>6 DEF OneThread
  <2> QED  BY <2>1, <2>2
<1>11. c = scan[w].ch /\ m = scan[w].msg /\ UNCHANGED tg
  BY <1>2, <1>3, <1>4 DEF RetireComments
<1> QED  BY <1>1, <1>6, <1>7, <1>9, <1>10, <1>11, ThreadGoesOn

\* Telegram tells the syncs that are in the thread it changes.
LEMMA TelegramTells ==
  ASSUME CollectionInv, ThreadsInv, NEW c \in Channels, NEW n, scan' = Disturbed(c, n),
         UNCHANGED chan, \A d \in Channels : d # c => tg'[d] = tg[d],
         \A m \in Msgs : m # n => tg'[c].said[m] = tg[c].said[m]
  PROVE  ThreadsInv'
<1>1. ASSUME NEW v \in Collectors PROVE InPlace(v) /\ ThreadLeft(v)
  <2>1. PICK s \in Scan : s = scan[v]  BY StateTypes DEF CollectionInv
  <2>2. PICK u : u = scan'[v]  OBVIOUS
  <2>3. PICK b \in BOOLEAN : b = (s.quiet /\ s.msg # n)  OBVIOUS
  <2>4. u = IF s.ch # c THEN s ELSE [s EXCEPT !.calm = FALSE, !.quiet = b]
    BY <2>1, <2>2, <2>3 DEF Disturbed
  <2>5. /\ u.pc = s.pc /\ u.ch = s.ch /\ u.id = s.id /\ u.msg = s.msg /\ u.thread = s.thread
        /\ u.quiet => s.quiet /\ (s.ch = c => s.msg # n)
    <3>1. CASE s.ch # c  BY <2>4, <3>1
    <3>2. CASE s.ch = c  BY <2>3, <2>4, <3>2 DEF Scan
    <3> QED  BY <3>1, <3>2
  <2>6. InPlace(v)  BY <2>1, <2>2, <2>5 DEF InPlace
  <2>7. ASSUME s.pc = "replies", u.quiet, Mine(v)'
        PROVE  Mine(v) /\ tg'[s.ch].said[s.msg] = tg[s.ch].said[s.msg]
    <3>1. s.msg \in Msgs /\ s.ch \in Channels  BY <2>1, <2>7, ThreadAt, ScanAt
    <3>2. Mine(v)  BY <2>1, <2>2, <2>5, <2>7 DEF Mine, Here
    <3> QED  BY <2>5, <2>7, <3>1, <3>2
  <2>8. ThreadLeft(v)  BY <2>1, <2>2, <2>5, <2>7 DEF ThreadLeft
  <2> QED  BY <2>6, <2>8
<1> QED  BY <1>1, StillShared, StillTrue DEF ThreadsInv, ThreadsTrue

LEMMA TelegramKnows ==
  ASSUME CollectionInv, ThreadsInv, NEW c \in Channels,
         \/ Publish(c)
         \/ \E m \in Msgs : Remove(c, m) \/ \E k \in Comments : Comment(c, m, k)
  PROVE  ThreadsInv'
<1>1. PICK t \in TgRecord : t = tg[c]  BY TgRecordType
<1>2. ASSUME NEW t2, tg' = [tg EXCEPT ![c] = t2]
      PROVE  tg'[c] = t2 /\ \A d \in Channels : d # c => tg'[d] = tg[d]
  BY <1>2, TgRecordType
<1>3. CASE Publish(c)
  <2>1. PICK t2 : t2 = [t EXCEPT !.top = t.top + 1, !.posts = t.posts \cup {t.top + 1}]
    OBVIOUS
  <2>2. t2.said = t.said  BY <2>1 DEF TgRecord
  <2>3. tg' = [tg EXCEPT ![c] = t2]  BY <1>1, <1>3, <2>1, TgRecordType DEF Publish
  <2>4. tg'[c].said = tg[c].said /\ \A d \in Channels : d # c => tg'[d] = tg[d]
    BY <1>1, <1>2, <2>2, <2>3
  <2> QED  BY <1>3, <2>4, TelegramTells DEF Publish
<1>4. ASSUME NEW m \in Msgs, NEW S, tg' = [tg EXCEPT ![c] = [t EXCEPT !.said[m] = S]]
      PROVE  /\ \A d \in Channels : d # c => tg'[d] = tg[d]
             /\ \A l \in Msgs : l # m => tg'[c].said[l] = tg[c].said[l]
  <2>1. PICK t2 : t2 = [t EXCEPT !.said[m] = S]  OBVIOUS
  <2>2. \A l \in Msgs : l # m => t2.said[l] = t.said[l]  BY <2>1 DEF TgRecord
  <2> QED  BY <1>1, <1>2, <1>4, <2>1, <2>2
<1>5. ASSUME NEW m \in Msgs, Remove(c, m) PROVE ThreadsInv'
  <2>1. PICK t2 : t2 = [t EXCEPT !.posts = t.posts \ {m}, !.said[m] = {}]  OBVIOUS
  <2>2. \A l \in Msgs : l # m => t2.said[l] = t.said[l]  BY <2>1 DEF TgRecord
  <2>3. tg' = [tg EXCEPT ![c] = t2]  BY <1>1, <1>5, <2>1, TgRecordType DEF Remove
  <2>4. /\ \A d \in Channels : d # c => tg'[d] = tg[d]
        /\ \A l \in Msgs : l # m => tg'[c].said[l] = tg[c].said[l]
    BY <1>1, <1>2, <2>2, <2>3
  <2> QED  BY <1>5, <2>4, TelegramTells DEF Remove
<1>6. ASSUME NEW m \in Msgs, NEW k \in Comments, Comment(c, m, k) PROVE ThreadsInv'
  <2>1. PICK S : tg' = [tg EXCEPT ![c] = [t EXCEPT !.said[m] = S]]
    BY <1>1, <1>6 DEF Comment
  <2>2. /\ \A d \in Channels : d # c => tg'[d] = tg[d]
        /\ \A l \in Msgs : l # m => tg'[c].said[l] = tg[c].said[l]
    BY <1>4, <2>1
  <2>3. scan' = Disturbed(c, m) /\ UNCHANGED chan  BY <1>6 DEF Comment
  <2> QED  BY <2>2, <2>3, TelegramTells
<1> QED  BY <1>3, <1>5, <1>6

LEMMA ThreadsInit == Init => ThreadsInv
<1> SUFFICES ASSUME Init PROVE ThreadsInv
  OBVIOUS
<1>1. \A w \in Collectors : scan[w] = Idle  BY DEF Init
<1>2. Idle.pc # "replies"  BY DEF Idle
<1> QED  BY <1>1, <1>2 DEF ThreadsInv, ThreadsTrue, ThreadsShared, Undisturbed

LEMMA ThreadsInductive == CollectionInv /\ ThreadsInv /\ [Next]_vars => ThreadsInv'
<1> SUFFICES ASSUME CollectionInv, ThreadsInv, [Next]_vars PROVE ThreadsInv'
  OBVIOUS
<1>1. CASE UNCHANGED vars
  BY <1>1 DEF vars, ThreadsInv, ThreadsTrue, ThreadsShared, Undisturbed, Mine, Here
<1>2. ASSUME NEW w \in Collectors,
             \/ Begin(w) \/ EndCycle(w) \/ SkipInFlood(w) \/ Resolve(w) \/ Fetch(w) \/ Store(w)
             \/ ReachCutoff(w) \/ Retire(w) \/ Finish(w) \/ Breaks(w) \/ Stop(w) \/ Crash(w)
      PROVE  ThreadsInv'
  <2>1. UNCHANGED tg /\ \A c \in Channels : CommentsKept(c)  BY <1>2, RowsOutside
  <2>2. PICK x : scan' = [scan EXCEPT ![w] = x] /\ x.pc # "replies"
    BY <1>2, MovesOutside
  <2> QED  BY <2>1, <2>2, OutsideMoves
<1>3. ASSUME NEW w \in Collectors, Poll(w) PROVE ThreadsInv'
  BY <1>2, <1>3, ClaimOutside, FetchThreadKnows, StoreCommentKnows, RetireCommentsKnows DEF Poll
<1>4. ASSUME NEW w \in Collectors,
             \/ Start(w) \/ FloodPasses(w) \/ Breaks(w) \/ Stop(w) \/ Crash(w)
             \/ \E c \in Channels : LeaseLapses(c, w)
      PROVE  ThreadsInv'
  BY <1>2, <1>4, RowsAndLeases
<1>5. CASE World
  BY <1>5, RowsAndLeases, TelegramKnows DEF World
<1> QED  BY <1>1, <1>3, <1>4, <1>5 DEF Next

-----------------------------------------------------------------------------
(* What the end of a scan does. *)

\* Only a scan's own steps move it.
LEMMA ScanMoves ==
  ASSUME CollectionInv, Next, NEW w \in Collectors, scan'[w].pc # scan[w].pc
  PROVE  Poll(w) \/ Breaks(w) \/ Stop(w) \/ Crash(w)
<1>1. scan \in [Collectors -> Scan]  BY DEF CollectionInv, TypeOK
<1>2. scan' # scan
  OBVIOUS
<1>3. ASSUME NEW v \in Collectors, NEW x, scan' = [scan EXCEPT ![v] = x] PROVE v = w
  BY <1>1, <1>3
<1>4. ASSUME NEW v \in Collectors, Poll(v) PROVE v = w
  <2>1. CASE Claim(v)
    <3>1. CASE Claimable(First(v)[1], First(v)[2])
      <4> DEFINE c == First(v)[1]
                 id == First(v)[2]
                 others == ScansOf(c, id) \ {v}
                 mine == [Rest(v) EXCEPT !.pc = "resolve", !.ch = c, !.id = id,
                                         !.alone = (others = {})]
      <4>1. PICK since \in Windows :
              scan' = [u \in Collectors |->
                IF u = v THEN [mine EXCEPT !.since = since]
                ELSE IF u \in others THEN [scan[u] EXCEPT !.alone = FALSE] ELSE scan[u]]
        BY <2>1, <3>1 DEF Claim
      <4> HIDE DEF others, mine
      <4> SUFFICES ASSUME v # w PROVE FALSE
        OBVIOUS
      <4>2. scan'[w] \in {scan[w], [scan[w] EXCEPT !.alone = FALSE]}
        BY <4>1
      <4>3. PICK s \in Scan : s = scan[w]  BY <1>1
      <4>4. PICK u : u = scan'[w]  OBVIOUS
      <4>5. u.pc = s.pc  BY <4>2, <4>3, <4>4, Disturb
      <4> QED  BY <4>3, <4>4, <4>5
    <3>2. CASE ~Claimable(First(v)[1], First(v)[2])
      BY <1>3, <2>1, <3>2 DEF Claim, Goto
    <3> QED  BY <3>1, <3>2
  <2>2. CASE FetchThread(v)
    <3> SUFFICES ASSUME v # w PROVE FALSE
      OBVIOUS
    <3>1. scan'[w] \in {scan[w], [scan[w] EXCEPT !.quiet = FALSE]}
      BY <2>2 DEF FetchThread
    <3>2. PICK s \in Scan : s = scan[w]  BY <1>1
    <3>3. PICK u : u = scan'[w]  OBVIOUS
    <3>4. u.pc = s.pc  BY <3>1, <3>2, <3>3, Disturb
    <3> QED  BY <3>2, <3>3, <3>4
  <2>3. CASE ~Claim(v) /\ ~FetchThread(v)
    <3>1. \E x : scan' = [scan EXCEPT ![v] = x]
      BY <1>4, <2>3 DEF Poll, Begin, EndCycle, SkipInFlood, Resolve, Fetch, Store, ReachCutoff,
            StoreComment, RetireComments, Retire, Finish, Goto, Over
    <3> QED  BY <1>3, <3>1
  <2> QED  BY <2>1, <2>2, <2>3
<1>5. ASSUME NEW v \in Collectors, Breaks(v) \/ Stop(v) \/ Crash(v) PROVE v = w
  <2>1. \E x : scan' = [scan EXCEPT ![v] = x]
    BY <1>5 DEF Breaks, ClaimBreaks, FinishBreaks, ResolveBreaks, FloodWait, ReadBreaks,
          SkipThread, Stop, Crash, Goto, Over
  <2> QED  BY <1>3, <2>1
<1>6. ASSUME NEW c \in Channels, NEW n, scan' = Disturbed(c, n) PROVE FALSE
  <2>1. PICK s \in Scan : s = scan[w]  BY <1>1
  <2>2. PICK b \in BOOLEAN : b = (s.quiet /\ s.msg # n)  OBVIOUS
  <2>3. PICK u : u = scan'[w]  OBVIOUS
  <2>4. u = s \/ u = [s EXCEPT !.calm = FALSE, !.quiet = b]
    BY <1>6, <2>1, <2>2, <2>3 DEF Disturbed
  <2>5. u.pc = s.pc
    <3>1. CASE u = s  BY <3>1
    <3>2. CASE u = [s EXCEPT !.calm = FALSE, !.quiet = b]  BY <3>2, TelegramDisturbs
    <3> QED  BY <2>4, <3>1, <3>2
  <2> QED  BY <2>1, <2>3, <2>5
<1>7. ~World
  BY <1>2, <1>6 DEF World, AddChannel, DeactivateChannel, DeleteChannel, Publish, Remove, Comment
<1>8. \A v \in Collectors : ~Start(v) /\ ~FloodPasses(v) /\ \A c \in Channels : ~LeaseLapses(c, v)
  BY <1>2 DEF Start, FloodPasses, LeaseLapses
<1> QED  BY <1>4, <1>5, <1>7, <1>8 DEF Next

LEMMA RetireEnds ==
  ASSUME CollectionInv, Next, NEW w \in Collectors,
         scan[w].pc = "retire", scan'[w].pc = "finish"
  PROVE  Retire(w) \/ Stop(w)
<1>1. Poll(w) \/ Breaks(w) \/ Stop(w) \/ Crash(w)  BY ScanMoves
<1>2. Poll(w) => Retire(w)
  BY DEF Poll, Begin, EndCycle, SkipInFlood, Claim, Resolve, Fetch, Store, ReachCutoff,
         FetchThread, StoreComment, RetireComments, Finish
<1>3. ~Breaks(w)
  BY DEF Breaks, ClaimBreaks, FinishBreaks, ResolveBreaks, FloodWait, ReadBreaks, SkipThread
<1>4. ~Crash(w)
  <2>1. Crash(w) => scan'[w] = Idle  BY DEF Crash, CollectionInv, TypeOK
  <2> QED  BY <2>1, IdleIsFresh
<1> QED  BY <1>1, <1>2, <1>3, <1>4

\* What a scan that retires knows: the messages at and above the oldest it saw
\* are at its position, and what is left of its page is before the cutoff.
LEMMA SeenFrom ==
  ASSUME NEW s \in Scan, NEW t, Reads(s, t), s.pc = "retire", s.seen # {},
         NEW m \in Msgs, m >= Oldest(s.seen), m >= s.since
  PROVE  s.pos <= m /\ m \notin s.page
<1>1. s.seen \in SUBSET Msgs /\ s.pos \in Nat /\ s.since \in Nat
  <2>1. s.seen \in SUBSET Msgs /\ s.pos \in 1 .. (MaxMsg + 1) /\ s.since \in Windows
    BY DEF Scan
  <2>2. s.since \in 0 .. (MaxMsg + 1)  BY <2>1, CollectionAssumption
  <2> QED  BY <2>1, <2>2, MessagesAreNumbers
<1>2. PICK o \in s.seen : o = Oldest(s.seen)  BY <1>1, OldestIsThere
<1>3. s.pos <= o  BY <1>2 DEF Reads
<1>4. o \in Nat /\ m \in Nat
  <2>1. \A n \in Msgs : n \in Nat  BY MessagesAreNumbers
  <2> QED  BY <1>1, <2>1
<1>5. s.pos <= m  BY <1>1, <1>2, <1>3, <1>4
<1>6. m \in s.page => m < s.since  BY DEF Reads
<1>7. m \notin s.page  BY <1>1, <1>4, <1>6
<1> QED  BY <1>5, <1>7

PostsStay ==
  \A w \in Collectors :
    /\ scan[w].pc = "retire" /\ scan'[w].pc = "finish" /\ Mine(w)
    /\ scan[w].alone \/ scan[w].calm
    => \A m \in tg[scan[w].ch].posts :
         chan[scan[w].ch].posts[m] = "live" => chan'[scan[w].ch].posts[m] = "live"

LEMMA StepKeepsPosts == ASSUME CollectionInv, [Next]_vars PROVE PostsStay \/ UNCHANGED vars
<1> SUFFICES ASSUME Next, NEW w \in Collectors,
                    scan[w].pc = "retire", scan'[w].pc = "finish", Mine(w),
                    scan[w].alone \/ scan[w].calm,
                    NEW m \in tg[scan[w].ch].posts, chan[scan[w].ch].posts[m] = "live"
             PROVE  chan'[scan[w].ch].posts[m] = "live"
  BY DEF PostsStay
<1>1. InScan(w) /\ scan[w].pc = "retire"  BY DEF InScan, Scanning
<1>2. PICK s \in Scan : s = scan[w]  BY <1>1, ScanAt
<1>3. PICK c \in Channels : c = s.ch  BY <1>1, <1>2, ScanAt
<1>4. PICK r \in Row : r = chan[c] /\ IsRow(r, s)
  BY <1>1, <1>2, <1>3, ScanAt, StateTypes DEF IsRow, CollectionInv
<1>5. m \in Msgs  BY <1>2, <1>3, StateTypes DEF CollectionInv
<1>6. /\ Reads(s, tg[c]) /\ Holds(s, tg[c], r)
  BY <1>1, <1>2, <1>3, <1>4, ScanAt DEF ScanOK
<1>7. CASE chan' = chan  BY <1>7
<1>8. CASE chan' # chan
  <2>1. Retire(w)  BY <1>8, RetireEnds DEF Stop
  <2>2. s.seen # {} /\ chan' = [chan EXCEPT ![c] = [r EXCEPT !.posts = Retired(w)]]
    BY <1>2, <1>3, <1>4, <1>8, <2>1 DEF Retire
  <2>3. chan'[c] = [r EXCEPT !.posts = Retired(w)]  BY <2>2 DEF CollectionInv, TypeOK
  <2>4. chan'[c].posts = Retired(w)  BY <2>3 DEF Row
  <2>5. ~Missed(w, m)
    <3> SUFFICES ASSUME m \notin s.seen, m >= s.since, m >= Oldest(s.seen) PROVE FALSE
      BY <1>2 DEF Missed
    <3>1. s.pos <= m /\ m \notin s.page  BY <1>1, <1>2, <1>5, <1>6, <2>2, SeenFrom
    <3>2. s.alone => m \in s.seen \cup s.page
      BY <1>2, <1>3, <1>4, <1>6, <3>1 DEF Holds
    <3>3. s.calm => m \in s.seen \cup s.page
      BY <1>2, <1>3, <1>5, <1>6, <3>1 DEF Reads
    <3> QED  BY <1>2, <3>1, <3>2, <3>3
  <2> QED  BY <1>2, <1>3, <1>5, <2>4, <2>5 DEF Retired
<1> QED  BY <1>7, <1>8

(* A scan that had its row to itself, or met no change, retires no post    *)
(* that Telegram still has: above its position it has read every such      *)
(* message that the row shows, and it retires only from the oldest one it  *)
(* has seen, which is not below the position.                              *)
THEOREM OnlyGonePostsAreRetired == Spec => RetiresOnlyGone
<1>1. CollectionInv /\ [Next]_vars => [PostsStay]_vars
  BY StepKeepsPosts
<1> QED  BY <1>1, CollectionInvariant, PTL DEF Spec, RetiresOnlyGone, PostsStay

ArchiveIsTrue ==
  \A w \in Collectors :
    LET c == scan[w].ch
    IN  /\ scan[w].pc = "retire" /\ scan'[w].pc = "finish" /\ faults' = faults
        /\ ~proc[w].leaving /\ scan[w].calm /\ Mine(w) /\ scan[w].seen # {}
        => \A m \in Msgs : m >= Oldest(scan[w].seen) /\ m >= scan[w].since =>
             (chan'[c].posts[m] = "live" <=> m \in tg[c].posts)

LEMMA StepIsFaithful == ASSUME CollectionInv, [Next]_vars PROVE ArchiveIsTrue \/ UNCHANGED vars
<1> SUFFICES ASSUME Next, NEW w \in Collectors,
                    scan[w].pc = "retire", scan'[w].pc = "finish", faults' = faults,
                    scan[w].calm, Mine(w), scan[w].seen # {},
                    NEW m \in Msgs, m >= Oldest(scan[w].seen), m >= scan[w].since
             PROVE  chan'[scan[w].ch].posts[m] = "live" <=> m \in tg[scan[w].ch].posts
  BY DEF ArchiveIsTrue
<1>1. InScan(w) /\ scan[w].pc = "retire"  BY DEF InScan, Scanning
<1>2. PICK s \in Scan : s = scan[w]  BY <1>1, ScanAt
<1>3. PICK c \in Channels : c = s.ch  BY <1>1, <1>2, ScanAt
<1>4. PICK r \in Row : r = chan[c] /\ IsRow(r, s)
  BY <1>1, <1>2, <1>3, ScanAt, StateTypes DEF IsRow, CollectionInv
<1>5. /\ Reads(s, tg[c]) /\ Holds(s, tg[c], r)
  BY <1>1, <1>2, <1>3, <1>4, ScanAt DEF ScanOK
<1>6. ~Fault
  BY CollectionAssumption DEF Fault, CollectionInv, TypeOK
<1>7. Retire(w)  BY <1>6, RetireEnds DEF Stop
<1>8. chan' = [chan EXCEPT ![c] = [r EXCEPT !.posts = Retired(w)]]
  BY <1>2, <1>3, <1>4, <1>6, <1>7 DEF Retire
<1>9. chan'[c] = [r EXCEPT !.posts = Retired(w)]  BY <1>8 DEF CollectionInv, TypeOK
<1>10. chan'[c].posts = Retired(w)  BY <1>9 DEF Row
<1>11. s.pos <= m /\ m \notin s.page  BY <1>1, <1>2, <1>5, SeenFrom
<1>12. m \in tg[c].posts <=> m \in s.seen  BY <1>2, <1>5, <1>11 DEF Reads
<1>13. CASE m \in s.seen
  <2>1. r.posts[m] \in {"live", "retired"}
    <3>1. r.posts[m] \in {"none", "live", "retired"}  BY DEF Row
    <3> QED  BY <1>5, <1>13, <3>1 DEF Holds
  <2>2. ~Missed(w, m)  BY <1>2, <1>13 DEF Missed
  <2>3. Retired(w)[m] = "live"
    BY <1>2, <1>3, <1>4, <1>13, <2>1, <2>2 DEF Retired
  <2> QED  BY <1>2, <1>3, <1>10, <1>12, <1>13, <2>3
<1>14. CASE m \notin s.seen
  <2>1. Missed(w, m)  BY <1>2, <1>14 DEF Missed
  <2>2. Retired(w)[m] # "live"
    BY <1>2, <1>3, <1>4, <1>14, <2>1 DEF Retired
  <2> QED  BY <1>2, <1>3, <1>10, <1>12, <1>14, <2>2
<1> QED  BY <1>13, <1>14

(* After a scan that ended by itself and met no change the archive is what *)
(* Telegram shows, from the oldest post that was read on: what it has seen *)
(* stays stored whoever else writes, and it goes over all the rest.        *)
THEOREM ScansAreFaithful == Spec => ScanIsFaithful
<1>1. CollectionInv /\ [Next]_vars => [ArchiveIsTrue]_vars
  BY StepIsFaithful
<1> QED  BY <1>1, CollectionInvariant, PTL DEF Spec, ScanIsFaithful, ArchiveIsTrue

LEMMA RepliesEnd ==
  ASSUME CollectionInv, Next, NEW w \in Collectors, faults' = faults, Mine(w),
         scan[w].pc = "replies", scan'[w].pc = "read"
  PROVE  RetireComments(w)
<1>1. Poll(w) \/ Breaks(w) \/ Stop(w) \/ Crash(w)  BY ScanMoves
<1>2. Poll(w) => RetireComments(w) \/ StoreComment(w)
  BY DEF Poll, Begin, EndCycle, SkipInFlood, Claim, Resolve, Fetch, Store, ReachCutoff,
         FetchThread, Retire, Finish
<1>3. ~StoreComment(w)
  <2> SUFFICES ASSUME StoreComment(w) PROVE FALSE
    OBVIOUS
  <2>1. PICK s \in Scan : s = scan[w]  BY StateTypes DEF CollectionInv
  <2>2. PICK T : T = s.thread \ {CHOOSE k \in s.thread : TRUE}  OBVIOUS
  <2>3. scan' = [scan EXCEPT ![w] = [[s EXCEPT !.thread = T] EXCEPT !.pc = "replies"]]
    BY <2>1, <2>2 DEF StoreComment, Goto
  <2>4. [[s EXCEPT !.thread = T] EXCEPT !.pc = "replies"].pc = "replies"  BY DEF Scan
  <2> QED  BY <2>3, <2>4 DEF CollectionInv, TypeOK
<1>4. ~Fault
  BY CollectionAssumption DEF Fault, CollectionInv, TypeOK
<1>5. ~Breaks(w) /\ ~Stop(w) /\ ~Crash(w)
  BY <1>4 DEF Breaks, ClaimBreaks, FinishBreaks, ResolveBreaks, FloodWait, ReadBreaks,
              SkipThread, Stop, Crash
<1> QED  BY <1>1, <1>2, <1>3, <1>5

ThreadIsTrue ==
  \A w \in Collectors :
    LET c == scan[w].ch
        m == scan[w].msg
    IN  /\ scan[w].pc = "replies" /\ scan'[w].pc = "read" /\ faults' = faults
        /\ scan[w].quiet /\ Mine(w)
        => \A k \in Comments :
             chan'[c].comments[m][k] \in Tokens <=> k \in tg[c].said[m]

LEMMA StepKeepsThreads ==
  ASSUME CollectionInv, ThreadsInv, [Next]_vars
  PROVE  ThreadIsTrue \/ UNCHANGED vars
<1> SUFFICES ASSUME Next, NEW w \in Collectors,
                    scan[w].pc = "replies", scan'[w].pc = "read", faults' = faults,
                    scan[w].quiet, Mine(w), NEW k \in Comments
             PROVE  chan'[scan[w].ch].comments[scan[w].msg][k] \in Tokens
                      <=> k \in tg[scan[w].ch].said[scan[w].msg]
  BY DEF ThreadIsTrue
<1>1. InScan(w) /\ scan[w].msg \in Msgs  BY ThreadAt
<1>2. PICK s \in Scan : s = scan[w]  BY <1>1, ScanAt
<1>3. PICK c \in Channels : c = s.ch  BY <1>1, <1>2, ScanAt
<1>4. PICK m \in Msgs : m = s.msg  BY <1>1, <1>2
<1>5. PICK r \in Row : r = chan[c]  BY <1>2, <1>3, ThreadAt
<1>6. RetireComments(w)  BY RepliesEnd
<1>7. s.thread = {}  BY <1>2, <1>6 DEF RetireComments
<1>8. r.comments[m][k] = w <=> k \in tg[c].said[m]
  <2>1. Undisturbed(w)  BY DEF Undisturbed
  <2>2. ThreadTrue(w, s, tg[c], r)  BY <1>2, <1>3, <1>5, <2>1 DEF ThreadsInv, ThreadsTrue
  <2> QED  BY <1>4, <1>7, <2>2 DEF ThreadTrue
<1>9. PICK F : F = [x \in Comments |->
                      IF Unseen(w, r.comments[m][x]) THEN "retired" ELSE r.comments[m][x]]
  OBVIOUS
<1>10. F[k] \in Tokens <=> r.comments[m][k] = w
  BY <1>9, TokenAssumption DEF Unseen, Tokens
<1>11. PICK r2 : r2 = [r EXCEPT !.comments[m] = F]  OBVIOUS
<1>12. r2.comments[m] = F
  <2>1. F \in [Comments -> Tokens \cup {"none", "retired"}]
    BY <1>9 DEF Row
  <2> QED  BY <1>11, <2>1, CommentsSet
<1>13. chan' = [chan EXCEPT ![c] = r2]
  BY <1>2, <1>3, <1>4, <1>5, <1>6, <1>9, <1>11 DEF RetireComments
<1>14. chan'[c] = r2  BY <1>13 DEF CollectionInv, TypeOK
<1> QED  BY <1>2, <1>3, <1>4, <1>8, <1>10, <1>12, <1>14

(* A sync that has its thread to itself since it was fetched leaves of it  *)
(* what Telegram shows, whatever earlier or overlapping syncs had left:    *)
(* all that is shown is stored under its token before it retires the rest, *)
(* and no comment is under its token that is not shown.                    *)
THEOREM ThreadsAreFaithful == Spec => ThreadIsFaithful
<1>1. CollectionInv /\ ThreadsInv /\ [Next]_vars => [ThreadIsTrue]_vars
  BY StepKeepsThreads
<1> QED  BY <1>1, CollectionInvariant, ThreadsInit, ThreadsInductive, PTL
         DEF Spec, ThreadIsFaithful, ThreadIsTrue
=============================================================================
