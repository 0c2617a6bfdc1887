--------------------------- MODULE ResearchProofs ---------------------------
(***************************************************************************)
(* Proofs about the evidence of a conversation, for every number of        *)
(* sources, articles and tool calls: types, and that a claim which a draft *)
(* calls verified was checked against an article that was read.            *)
(*                                                                         *)
(* The argument.  Whatever is held of a source anywhere, in the rows, in   *)
(* memory, or by a call on its way between them, is an article that was    *)
(* read or no article at all (Read).  What was stored last in this process *)
(* is what is known (LatestInv), since rows that a call has loaded earlier *)
(* only fill in sources of which nothing is known; and the bundle is what  *)
(* is known unless a write of rows failed.  Then the step that confirms a  *)
(* claim sees what it should, whatever the other calls of the turn do.     *)
(***************************************************************************)
EXTENDS Research, TLAPS

\* The articles in h were read.
Read(h, f) == \A s \in Sources : h[s] \in Articles => h[s] \in f[s]

MemoryInv ==
  /\ Read(rows, fetched) /\ Read(known, fetched)
  /\ bundle # Nil => Read(bundle, fetched)

\* What was stored last is what is known, and the bundle is all of it.
LatestInv ==
  /\ \A s \in Sources : latest[s] # Nil => known[s] = latest[s]
  /\ bundle # Nil /\ ~failed => bundle = known

\* A call belongs to a run, holds what was read, and writes for a writing tool.
CallOK(k, f) ==
  /\ k \in CallRecord
  /\ Read(k.page, f) /\ Read(k.held, f)
  /\ k.stage = "write" => k.op \in Writers

CallsInv == \A c \in Calls : call[c] # Nil => work # Nil /\ CallOK(call[c], fetched)

EvidenceInv == ResearchTypeOK /\ MemoryInv /\ LatestInv /\ CallsInv

-----------------------------------------------------------------------------
(* What is held of sources. *)

LEMMA EmptyIsRead == Empty \in Holding /\ \A f : Read(Empty, f)
BY ResearchAssumption DEF Empty, Holding, Evidence, Read

LEMMA OverIsRead ==
  ASSUME NEW g \in Holding, NEW h \in Holding
  PROVE  /\ Over(g, h) \in Holding
         /\ \A f : Read(g, f) /\ Read(h, f) => Read(Over(g, h), f)
         /\ \A s \in Sources : Over(g, h)[s] = IF g[s] # Nil THEN g[s] ELSE h[s]
BY DEF Over, Holding, Read

LEMMA BundleIsSame == ASSUME NEW h \in Holding PROVE Bundle(h) = h
<1>1. \A s \in Sources : SourceOf(h[s]) = h[s]
  BY ResearchAssumption DEF Holding, Evidence, SourceOf
<1> QED  BY <1>1 DEF Bundle, Holding

LEMMA ResultsAreRead ==
  ASSUME NEW found
  PROVE  Results(found) \in Holding /\ \A f : Read(Results(found), f)
BY ResearchAssumption DEF Results, Holding, Evidence, Read, SourceOf

\* Pages that are read count as read from then on.
LEMMA PagesAreRead ==
  ASSUME NEW docs \in [Sources -> Documents \cup {Nil}], NEW f \in [Sources -> SUBSET Articles],
         NEW g, g = [s \in Sources |-> f[s] \cup ({docs[s]} \cap Articles)]
  PROVE  /\ [s \in Sources |-> SourceOf(docs[s])] \in Holding
         /\ Read([s \in Sources |-> SourceOf(docs[s])], g)
         /\ g \in [Sources -> SUBSET Articles]
         /\ \A h : Read(h, f) => Read(h, g)
<1>1. \A s \in Sources : SourceOf(docs[s]) \in Evidence \cup {Nil}
  BY DEF Documents, Evidence, SourceOf
<1>2. \A s \in Sources : SourceOf(docs[s]) \in Articles => SourceOf(docs[s]) = docs[s]
  BY ResearchAssumption DEF SourceOf
<1> QED  BY <1>1, <1>2 DEF Holding, Read

LEMMA LeastOfTwo == ASSUME NEW n \in 0 .. 2 PROVE Min({2, n + 1}) \in 0 .. 2
<1>1. \E x \in {2, n + 1} : \A y \in {2, n + 1} : x <= y
  OBVIOUS
<1>2. Min({2, n + 1}) \in {2, n + 1}
        /\ \A y \in {2, n + 1} : Min({2, n + 1}) <= y
  BY <1>1 DEF Min
<1> QED  BY <1>2

-----------------------------------------------------------------------------
(* What a step does to the calls. *)

LEMMA CallsSame ==
  ASSUME CallsInv, UNCHANGED <<call, fetched>>, work # Nil => work' # Nil
  PROVE  CallsInv'
BY DEF CallsInv, CallOK

LEMMA CallMoves ==
  ASSUME ResearchTypeOK, CallsInv, NEW c \in Calls, NEW k,
         call[c] # Nil, call' = [call EXCEPT ![c] = k], CallOK(k, fetched),
         UNCHANGED fetched, work' # Nil
  PROVE  /\ call' \in [Calls -> CallRecord \cup {Nil}]
         /\ CallsInv'
<1>1. call' \in [Calls -> CallRecord \cup {Nil}]
  BY DEF ResearchTypeOK, CallOK
<1>2. ASSUME NEW d \in Calls, call'[d] # Nil PROVE CallOK(call'[d], fetched')
  <2>1. call'[d] = IF d = c THEN k ELSE call[d]  BY DEF ResearchTypeOK
  <2> QED  BY <1>2, <2>1 DEF CallsInv
<1> QED  BY <1>1, <1>2 DEF CallsInv

LEMMA CallEnds ==
  ASSUME ResearchTypeOK, CallsInv, NEW c \in Calls, End(c),
         UNCHANGED fetched, work # Nil => work' # Nil
  PROVE  /\ call' \in [Calls -> CallRecord \cup {Nil}]
         /\ CallsInv'
<1>1. call' \in [Calls -> CallRecord \cup {Nil}]
  BY DEF ResearchTypeOK, End
<1>2. ASSUME NEW d \in Calls, call'[d] # Nil
      PROVE  work' # Nil /\ CallOK(call'[d], fetched')
  <2>1. call'[d] = call[d]  BY <1>2 DEF ResearchTypeOK, End
  <2> QED  BY <1>2, <2>1 DEF CallsInv
<1> QED  BY <1>1, <1>2 DEF CallsInv

LEMMA CallReaches ==
  ASSUME ResearchTypeOK, CallsInv, NEW c \in Calls, call[c] # Nil,
         NEW stage \in {"asked", "load", "done"}, Reaches(c, stage),
         UNCHANGED fetched, work # Nil => work' # Nil
  PROVE  /\ call' \in [Calls -> CallRecord \cup {Nil}]
         /\ CallsInv'
<1> DEFINE k == [call[c] EXCEPT !.stage = stage, !.page = Empty, !.held = Empty]
<1>1. call' = [call EXCEPT ![c] = k]
  BY DEF Reaches, ResearchTypeOK
<1>2. call[c] \in CallRecord /\ work # Nil
  BY DEF CallsInv, CallOK
<1>3. CallOK(k, fetched)
  BY <1>2, EmptyIsRead DEF CallOK, CallRecord
<1> HIDE DEF k
<1> QED  BY <1>1, <1>2, <1>3, CallMoves

-----------------------------------------------------------------------------
(* What a step does to the memory. *)

LEMMA MemorySame ==
  ASSUME MemoryInv, LatestInv, UNCHANGED <<rows, known, bundle, fetched, latest, failed>>
  PROVE  MemoryInv' /\ LatestInv'
BY DEF MemoryInv, LatestInv

\* What a call that has loaded takes for known is what is known, and more.
LEMMA LoadedIsRead ==
  ASSUME EvidenceInv, NEW c \in Calls, Ready(c)
  PROVE  /\ KnownTo(c) \in Holding /\ Read(KnownTo(c), fetched)
         /\ \A s \in Sources : known[s] # Nil => KnownTo(c)[s] = known[s]
         /\ BundleOf(c) \in Holding \cup {Nil}
         /\ BundleOf(c) # Nil => Read(BundleOf(c), fetched)
         /\ BundleOf(c) # Nil /\ ~failed => BundleOf(c) = KnownTo(c)
<1>1. CallOK(call[c], fetched)  BY DEF EvidenceInv, CallsInv, Ready
<1>2. call[c].held \in Holding /\ Read(call[c].held, fetched)
  BY <1>1 DEF CallOK, CallRecord
<1>3. /\ known \in Holding /\ bundle \in Holding \cup {Nil}
      /\ Read(known, fetched) /\ (bundle # Nil => Read(bundle, fetched))
      /\ bundle # Nil /\ ~failed => bundle = known
  BY DEF EvidenceInv, ResearchTypeOK, MemoryInv, LatestInv
<1>4. CASE call[c].held = Empty
  BY <1>3, <1>4 DEF KnownTo, BundleOf
<1>5. CASE call[c].held # Empty
  <2>1. KnownTo(c) = Over(known, call[c].held) /\ BundleOf(c) = KnownTo(c)
    BY <1>5 DEF KnownTo, BundleOf, Merged
  <2> QED  BY <1>2, <1>3, <2>1, OverIsRead
<1> QED  BY <1>4, <1>5

LEMMA Taken ==
  ASSUME EvidenceInv, NEW c \in Calls, Ready(c), TakeLoaded(c),
         UNCHANGED <<rows, fetched, latest, failed>>
  PROVE  /\ known' \in Holding /\ bundle' \in Holding \cup {Nil}
         /\ MemoryInv' /\ LatestInv'
<1>1. known' = KnownTo(c) /\ bundle' = BundleOf(c)  BY DEF TakeLoaded
<1>2. MemoryInv /\ LatestInv  BY DEF EvidenceInv
<1>3. MemoryInv'  BY <1>1, <1>2, LoadedIsRead DEF MemoryInv
<1>4. LatestInv'  BY <1>1, <1>2, LoadedIsRead DEF LatestInv
<1> QED  BY <1>1, <1>3, <1>4, LoadedIsRead

LEMMA Stored ==
  ASSUME EvidenceInv, NEW c \in Calls, call[c] # Nil,
         NEW base \in Holding, Read(base, fetched),
         \A s \in Sources : known[s] # Nil => base[s] = known[s],
         NEW found \in Holding, Read(found, fetched), Store(c, base, found),
         UNCHANGED <<rows, work, artifact, fetched, failed>>
  PROVE  EvidenceInv'
<1> DEFINE all == Over(found, base)
           new(kept) == [s \in Sources |-> IF s \in kept THEN all[s] ELSE Nil]
<1>1. PICK kept : /\ known' = new(kept) /\ bundle' = Bundle(known')
                  /\ latest' = [s \in Sources |->
                                  IF s \in kept THEN Over(found, latest)[s] ELSE Nil]
                  /\ call' = [call EXCEPT ![c].stage = "persist", ![c].page = Empty,
                                          ![c].held = known']
  BY DEF Store
<1>2. all \in Holding /\ Read(all, fetched)
        /\ \A s \in Sources : all[s] = IF found[s] # Nil THEN found[s] ELSE base[s]
  BY OverIsRead
<1>3. latest \in Holding /\ fetched \in [Sources -> SUBSET Articles] /\ CallsInv
        /\ call \in [Calls -> CallRecord \cup {Nil}]
  BY DEF EvidenceInv, ResearchTypeOK
<1>4. latest' \in Holding
        /\ \A s \in Sources : latest'[s] =
             IF s \in kept THEN (IF found[s] # Nil THEN found[s] ELSE latest[s]) ELSE Nil
  <2>1. Over(found, latest) \in Holding
          /\ \A s \in Sources : Over(found, latest)[s] =
               IF found[s] # Nil THEN found[s] ELSE latest[s]
    BY <1>3, OverIsRead
  <2> QED  BY <1>1, <2>1 DEF Holding
<1>5. known' \in Holding /\ Read(known', fetched)
        /\ \A s \in Sources : known'[s] = IF s \in kept THEN all[s] ELSE Nil
  <2> HIDE DEF all
  <2>1. known' = [s \in Sources |-> IF s \in kept THEN all[s] ELSE Nil]  BY <1>1
  <2> QED  BY <1>2, <2>1, ResearchAssumption DEF Holding, Read
<1>6. bundle' = known'  BY <1>1, <1>5, BundleIsSame
<1>7. MemoryInv'  BY <1>5, <1>6 DEF EvidenceInv, MemoryInv
<1>8. LatestInv'
  <2>1. \A s \in Sources : latest'[s] # Nil => known'[s] = latest'[s]
    BY <1>2, <1>4, <1>5 DEF EvidenceInv, LatestInv
  <2> QED  BY <1>6, <2>1 DEF LatestInv
<1> DEFINE k == [call[c] EXCEPT !.stage = "persist", !.page = Empty, !.held = known']
<1>9. call' \in [Calls -> CallRecord \cup {Nil}] /\ CallsInv'
  <2>1. call' = [call EXCEPT ![c] = k]  BY <1>1, <1>3
  <2>2. call[c] \in CallRecord /\ work # Nil  BY <1>3 DEF CallsInv, CallOK
  <2>3. CallOK(k, fetched)  BY <1>5, <2>2, EmptyIsRead DEF CallOK, CallRecord
  <2> HIDE DEF k
  <2>4. ResearchTypeOK /\ work' # Nil  BY <2>2 DEF EvidenceInv
  <2> QED  BY <1>3, <2>1, <2>3, <2>4, CallMoves
<1>10. ResearchTypeOK'
  BY <1>4, <1>5, <1>6, <1>9 DEF EvidenceInv, ResearchTypeOK
<1> QED  BY <1>7, <1>8, <1>9, <1>10 DEF EvidenceInv

\* A refused call ends, and is counted in the run.
LEMMA Refused ==
  ASSUME EvidenceInv, NEW c \in Calls, call[c] # Nil, call[c].op \in Writers, Refuse(c)
  PROVE  work' \in Work /\ End(c)
<1>1. work \in Work  BY DEF EvidenceInv, ResearchTypeOK, CallsInv
<1> DEFINE op == call[c].op
           n == Min({2, work.refused[op] + 1})
<1>2. work.refused[op] \in 0 .. 2  BY <1>1 DEF Work
<1>3. n \in 0 .. 2  BY <1>2, LeastOfTwo
<1>4. work' = [work EXCEPT !.refused[op] = n,
                 !.ended = IF n = 2 THEN @ \cup {op} ELSE @]  BY DEF Refuse
<1>5. op \in Tools  BY DEF Writers, Tools
<1> HIDE DEF n
<1>6. work' \in Work  BY <1>1, <1>3, <1>4, <1>5 DEF Work
<1> QED  BY <1>6 DEF Refuse

-----------------------------------------------------------------------------
(* The run and its turns. *)

LEMMA ContractIsTools ==
  ASSUME NEW a \in BOOLEAN, NEW b \in BOOLEAN, NEW w \in BOOLEAN, NEW v \in BOOLEAN
  PROVE  Contract(Wanted(a, b, w), v) \subseteq Tools
<1>1. Wanted(a, b, w) \subseteq Tools  BY DEF Wanted, Tools
<1> QED  BY <1>1 DEF Contract, Tools

LEMMA StartKeeps ==
  ASSUME EvidenceInv, NEW a \in BOOLEAN, NEW b \in BOOLEAN, NEW w \in BOOLEAN,
         NEW v \in BOOLEAN, StartWork(a, b, w, v)
  PROVE  EvidenceInv'
<1>1. work' = [wanted |-> Contract(Wanted(a, b, w), v), ended |-> {},
               searches |-> 0, refused |-> [x \in Writers |-> 0]]
  BY DEF StartWork
<1>2. work' \in Work
  <2>1. MaxSearches \in Nat \ {0}  BY ResearchAssumption
  <2> QED  BY <1>1, <2>1, ContractIsTools DEF Work
<1>3. CallsInv'
  BY DEF EvidenceInv, CallsInv, StartWork
<1>4. /\ known' \in Holding /\ bundle' \in Holding \cup {Nil}
      /\ MemoryInv' /\ LatestInv'
  <2>1. CASE UNCHANGED <<known, bundle>>
    BY <2>1, MemorySame DEF StartWork, EvidenceInv, ResearchTypeOK
  <2>2. CASE known' = Merged(rows) /\ bundle' = known'
    <3>1. /\ known \in Holding /\ rows \in Holding
          /\ Read(known, fetched) /\ Read(rows, fetched)
      BY DEF EvidenceInv, ResearchTypeOK, MemoryInv
    <3>2. /\ known' \in Holding /\ Read(known', fetched)
          /\ \A s \in Sources : known[s] # Nil => known'[s] = known[s]
      BY <2>2, <3>1, OverIsRead DEF Merged
    <3>3. UNCHANGED <<rows, fetched, latest, failed>>  BY DEF StartWork
    <3>4. MemoryInv'  BY <2>2, <3>1, <3>2, <3>3 DEF MemoryInv
    <3>5. LatestInv'  BY <2>2, <3>2, <3>3 DEF EvidenceInv, LatestInv
    <3> QED  BY <2>2, <3>2, <3>4, <3>5
  <2> QED  BY <2>1, <2>2 DEF StartWork
<1>5. ResearchTypeOK'
  BY <1>2, <1>4 DEF EvidenceInv, ResearchTypeOK, StartWork
<1> QED  BY <1>3, <1>4, <1>5 DEF EvidenceInv

LEMMA TurnKeeps ==
  ASSUME EvidenceInv, NEW batch \in [Calls -> Tools \cup {Nil}], Turn(batch)
  PROVE  EvidenceInv'
<1> DEFINE new(c) == [op |-> batch[c], stage |-> "new", page |-> Empty,
                      held |-> Empty, claim |-> Nil]
<1>1. ASSUME NEW c \in Calls, batch[c] # Nil PROVE CallOK(new(c), fetched)
  BY <1>1, EmptyIsRead DEF CallOK, CallRecord
<1>2. call' = [c \in Calls |-> IF batch[c] = Nil THEN Nil ELSE new(c)]
  BY DEF Turn
<1> HIDE DEF new
<1>3. call' \in [Calls -> CallRecord \cup {Nil}]
  BY <1>1, <1>2 DEF CallOK
<1>4. CallsInv'
  <2> SUFFICES ASSUME NEW c \in Calls, call'[c] # Nil
               PROVE  work' # Nil /\ CallOK(call'[c], fetched')
    BY DEF CallsInv
  <2>1. call'[c] = new(c) /\ batch[c] # Nil  BY <1>2
  <2> QED  BY <1>1, <2>1 DEF Turn
<1>5. MemoryInv' /\ LatestInv'  BY MemorySame DEF Turn, EvidenceInv
<1>6. ResearchTypeOK'  BY <1>3 DEF EvidenceInv, ResearchTypeOK, Turn
<1> QED  BY <1>4, <1>5, <1>6 DEF EvidenceInv

LEMMA FinishKeeps == ASSUME EvidenceInv, Finish PROVE EvidenceInv'
<1>1. MemoryInv' /\ LatestInv'  BY MemorySame DEF Finish, EvidenceInv
<1>2. CallsInv'  BY DEF Finish, CallsInv, NoCalls
<1>3. ResearchTypeOK'  BY DEF EvidenceInv, ResearchTypeOK, Finish
<1> QED  BY <1>1, <1>2, <1>3 DEF EvidenceInv

LEMMA StopKeeps == ASSUME EvidenceInv, Stop PROVE EvidenceInv'
<1>1. MemoryInv' /\ LatestInv'  BY MemorySame DEF Stop, EvidenceInv
<1>2. CallsInv'  BY DEF Stop, CallsInv, NoCalls
<1>3. ResearchTypeOK'  BY DEF EvidenceInv, ResearchTypeOK, Stop, NoCalls
<1> QED  BY <1>1, <1>2, <1>3 DEF EvidenceInv

LEMMA BreakKeeps == ASSUME EvidenceInv, NEW c \in Calls, Break(c) PROVE EvidenceInv'
<1>1. MemoryInv' /\ LatestInv'  BY MemorySame DEF Break, EvidenceInv
<1>2. CallsInv' /\ call' \in [Calls -> CallRecord \cup {Nil}]
  BY CallEnds DEF Break, EvidenceInv
<1>3. ResearchTypeOK'  BY <1>2 DEF EvidenceInv, ResearchTypeOK, Break
<1> QED  BY <1>1, <1>2, <1>3 DEF EvidenceInv

LEMMA CompleteKeeps == ASSUME EvidenceInv, NEW c \in Calls, Complete(c) PROVE EvidenceInv'
<1>1. MemoryInv' /\ LatestInv'  BY MemorySame DEF Complete, EvidenceInv
<1>2. call[c] \in CallRecord /\ work \in Work
  BY DEF Complete, EvidenceInv, ResearchTypeOK, CallsInv
<1>3. work' \in Work
  <2>1. {call[c].op} \cap (work.wanted \cup Writers) \subseteq Tools
    BY <1>2 DEF CallRecord
  <2> QED  BY <1>2, <2>1 DEF Complete, Work
<1>4. work' # Nil  BY <1>3, NilAssumption
<1>5. CallsInv' /\ call' \in [Calls -> CallRecord \cup {Nil}]
  BY <1>4, CallEnds DEF Complete, EvidenceInv
<1>6. ResearchTypeOK'  BY <1>3, <1>5 DEF EvidenceInv, ResearchTypeOK, Complete
<1> QED  BY <1>1, <1>5, <1>6 DEF EvidenceInv

-----------------------------------------------------------------------------
(* Searches, pages and rows. *)

LEMMA BeginSearchKeeps ==
  ASSUME EvidenceInv, NEW c \in Calls, BeginSearch(c) PROVE EvidenceInv'
<1>1. MemoryInv' /\ LatestInv'  BY MemorySame DEF BeginSearch, EvidenceInv
<1>2. work \in Work /\ work # Nil
  BY DEF BeginSearch, EvidenceInv, ResearchTypeOK, CallsInv
<1>3. CASE work.searches = MaxSearches
  <2>1. CallsInv' /\ call' \in [Calls -> CallRecord \cup {Nil}]
    BY <1>3, CallEnds DEF BeginSearch, EvidenceInv
  <2>2. ResearchTypeOK'
    BY <1>3, <2>1 DEF EvidenceInv, ResearchTypeOK, BeginSearch
  <2> QED  BY <1>1, <2>1, <2>2 DEF EvidenceInv
<1>4. CASE work.searches # MaxSearches
  <2>1. work' \in Work
    <3>1. MaxSearches \in Nat /\ work.searches \in 0 .. MaxSearches
      BY <1>2, ResearchAssumption DEF Work
    <3>2. work.searches + 1 \in 0 .. MaxSearches  BY <1>4, <3>1
    <3> QED  BY <1>2, <1>4, <3>2 DEF Work, BeginSearch
  <2>2. work' # Nil  BY <2>1, NilAssumption
  <2>3. CallsInv' /\ call' \in [Calls -> CallRecord \cup {Nil}]
    BY <1>4, <2>2, CallReaches DEF BeginSearch, EvidenceInv
  <2>4. ResearchTypeOK'
    BY <2>1, <2>3 DEF EvidenceInv, ResearchTypeOK, BeginSearch
  <2> QED  BY <1>1, <2>3, <2>4 DEF EvidenceInv
<1> QED  BY <1>3, <1>4

LEMMA RefuseKeeps ==
  ASSUME EvidenceInv, NEW c \in Calls, call[c] # Nil, call[c].op \in Writers, Refuse(c),
         known' \in Holding, bundle' \in Holding \cup {Nil}, MemoryInv', LatestInv',
         UNCHANGED <<rows, artifact, fetched, latest, failed>>
  PROVE  EvidenceInv'
<1>1. work' \in Work /\ End(c)  BY Refused
<1>2. work' # Nil  BY <1>1, NilAssumption
<1>3. CallsInv' /\ call' \in [Calls -> CallRecord \cup {Nil}]
  BY <1>1, <1>2, CallEnds DEF EvidenceInv
<1>4. ResearchTypeOK'
  BY <1>1, <1>3 DEF EvidenceInv, ResearchTypeOK
<1> QED  BY <1>3, <1>4 DEF EvidenceInv

LEMMA BeginRevisionKeeps ==
  ASSUME EvidenceInv, NEW c \in Calls, BeginRevision(c) PROVE EvidenceInv'
<1>1. MemoryInv' /\ LatestInv'  BY MemorySame DEF BeginRevision, EvidenceInv
<1>2. CASE artifact = Nil
  <2>1. call[c].op \in Writers  BY DEF BeginRevision, Writers
  <2> QED  BY <1>1, <1>2, <2>1, RefuseKeeps DEF BeginRevision, EvidenceInv, ResearchTypeOK
<1>3. CASE artifact # Nil
  <2> DEFINE k == [call[c] EXCEPT !.stage = "load", !.claim = artifact.claim]
  <2>1. call[c] # Nil /\ work # Nil /\ CallOK(call[c], fetched)
    BY DEF BeginRevision, EvidenceInv, CallsInv
  <2>2. artifact.claim \in Claim \cup {Nil}
    BY <1>3 DEF EvidenceInv, ResearchTypeOK, Artifact
  <2>3. call' = [call EXCEPT ![c] = k]
    BY <1>3 DEF BeginRevision, EvidenceInv, ResearchTypeOK
  <2>4. CallOK(k, fetched)  BY <2>1, <2>2 DEF CallOK, CallRecord
  <2> HIDE DEF k
  <2>5. CallsInv' /\ call' \in [Calls -> CallRecord \cup {Nil}]
    BY <1>3, <2>1, <2>3, <2>4, CallMoves DEF BeginRevision, EvidenceInv
  <2>6. ResearchTypeOK'
    BY <1>3, <2>5 DEF EvidenceInv, ResearchTypeOK, BeginRevision
  <2> QED  BY <1>1, <2>5, <2>6 DEF EvidenceInv
<1> QED  BY <1>2, <1>3

\* A call that only moves on leaves the rest as it is.
LEMMA MovesOn ==
  ASSUME EvidenceInv, NEW c \in Calls, call[c] # Nil,
         NEW stage \in {"asked", "load", "done"}, Reaches(c, stage),
         UNCHANGED <<fetched, work, artifact>>,
         rows' \in Holding, known' \in Holding, bundle' \in Holding \cup {Nil},
         latest' \in Holding, failed' \in BOOLEAN, MemoryInv', LatestInv'
  PROVE  EvidenceInv'
<1>1. CallsInv' /\ call' \in [Calls -> CallRecord \cup {Nil}]
  BY CallReaches DEF EvidenceInv
<1>2. ResearchTypeOK'  BY <1>1 DEF EvidenceInv, ResearchTypeOK
<1> QED  BY <1>1, <1>2 DEF EvidenceInv

LEMMA BeginOtherKeeps ==
  ASSUME EvidenceInv, NEW c \in Calls, BeginOther(c) \/ GetDraft(c) PROVE EvidenceInv'
<1>1. MemoryInv' /\ LatestInv'  BY MemorySame DEF BeginOther, GetDraft, EvidenceInv
<1>2. PICK stage \in {"asked", "load", "done"} : Reaches(c, stage)
  BY DEF BeginOther, GetDraft
<1>3. /\ call[c] # Nil
      /\ UNCHANGED <<rows, known, bundle, work, artifact, fetched, latest, failed>>
  BY DEF BeginOther, GetDraft
<1> QED  BY <1>1, <1>2, <1>3, MovesOn DEF EvidenceInv, ResearchTypeOK

LEMMA AnswersKeep ==
  ASSUME EvidenceInv, NEW c \in Calls, NEW found \in Answers,
         SearchAnswers(c, found) \/ NovelAnswers(c, found)
  PROVE  EvidenceInv'
<1>1. /\ call[c] # Nil /\ Store(c, known, Results(found))
      /\ UNCHANGED <<rows, work, artifact, fetched, failed>>
  BY DEF SearchAnswers, NovelAnswers
<1>2. known \in Holding /\ Read(known, fetched)
  BY DEF EvidenceInv, ResearchTypeOK, MemoryInv
<1> QED  BY <1>1, <1>2, ResultsAreRead, Stored

LEMMA PagesReadKeeps ==
  ASSUME EvidenceInv, NEW c \in Calls, NEW docs \in [Sources -> Documents \cup {Nil}],
         PagesRead(c, docs)
  PROVE  EvidenceInv'
<1> DEFINE page == [s \in Sources |-> SourceOf(docs[s])]
           k == [call[c] EXCEPT !.stage = "load", !.page = page]
<1>1. /\ fetched' = [s \in Sources |-> fetched[s] \cup ({docs[s]} \cap Articles)]
      /\ call[c] # Nil
      /\ UNCHANGED <<rows, known, bundle, work, artifact, latest, failed>>
  BY DEF PagesRead
<1>2. fetched \in [Sources -> SUBSET Articles]  BY DEF EvidenceInv, ResearchTypeOK
<1>3. /\ page \in Holding /\ Read(page, fetched')
      /\ fetched' \in [Sources -> SUBSET Articles]
      /\ \A h : Read(h, fetched) => Read(h, fetched')
  BY <1>1, <1>2, PagesAreRead
<1>4. call' = [call EXCEPT ![c] = k]
  BY DEF PagesRead, EvidenceInv, ResearchTypeOK
<1> HIDE DEF page
<1>5. work # Nil /\ CallOK(call[c], fetched)  BY <1>1 DEF EvidenceInv, CallsInv
<1>6. k \in CallRecord /\ CallOK(k, fetched')
  BY <1>3, <1>5 DEF CallOK, CallRecord
<1> HIDE DEF k
<1>7. call' \in [Calls -> CallRecord \cup {Nil}]
  BY <1>4, <1>6 DEF EvidenceInv, ResearchTypeOK
<1>8. CallsInv'
  <2> SUFFICES ASSUME NEW d \in Calls, call'[d] # Nil
               PROVE  work' # Nil /\ CallOK(call'[d], fetched')
    BY DEF CallsInv
  <2>1. call'[d] = IF d = c THEN k ELSE call[d]
    BY <1>4 DEF EvidenceInv, ResearchTypeOK
  <2>2. CASE d = c  BY <1>1, <1>5, <1>6, <2>1, <2>2
  <2>3. CASE d # c  BY <1>1, <1>3, <2>1, <2>3 DEF EvidenceInv, CallsInv, CallOK
  <2> QED  BY <2>2, <2>3
<1>9. MemoryInv' /\ LatestInv'
  BY <1>1, <1>3 DEF EvidenceInv, MemoryInv, LatestInv
<1>10. ResearchTypeOK'
  BY <1>1, <1>3, <1>7 DEF EvidenceInv, ResearchTypeOK
<1> QED  BY <1>8, <1>9, <1>10 DEF EvidenceInv

LEMMA LoadRowsKeeps ==
  ASSUME EvidenceInv, NEW c \in Calls, LoadRows(c) PROVE EvidenceInv'
<1>1. PICK got \in {rows, Empty} :
        call' = [call EXCEPT ![c].stage = "loaded", ![c].held = got]
  BY DEF LoadRows
<1> DEFINE k == [call[c] EXCEPT !.stage = "loaded", !.held = got]
<1>2. got \in Holding /\ Read(got, fetched)
  BY EmptyIsRead DEF EvidenceInv, ResearchTypeOK, MemoryInv
<1>3. call' = [call EXCEPT ![c] = k]  BY <1>1 DEF EvidenceInv, ResearchTypeOK
<1>4. call[c] # Nil /\ work # Nil /\ CallOK(call[c], fetched)
  BY DEF LoadRows, EvidenceInv, CallsInv
<1>5. CallOK(k, fetched)  BY <1>2, <1>4 DEF CallOK, CallRecord
<1> HIDE DEF k
<1>6. CallsInv' /\ call' \in [Calls -> CallRecord \cup {Nil}]
  BY <1>3, <1>4, <1>5, CallMoves DEF LoadRows, EvidenceInv
<1>7. MemoryInv' /\ LatestInv'  BY MemorySame DEF LoadRows, EvidenceInv
<1>8. ResearchTypeOK'  BY <1>6 DEF EvidenceInv, ResearchTypeOK, LoadRows
<1> QED  BY <1>6, <1>7, <1>8 DEF EvidenceInv

LEMMA StorePagesKeeps ==
  ASSUME EvidenceInv, NEW c \in Calls, StorePages(c) PROVE EvidenceInv'
<1>1. call[c] # Nil /\ Ready(c)  BY DEF StorePages, Ready
<1>2. call[c].page \in Holding /\ Read(call[c].page, fetched)
  BY <1>1 DEF EvidenceInv, CallsInv, CallOK, CallRecord
<1> QED  BY <1>1, <1>2, LoadedIsRead, Stored DEF StorePages

LEMMA TakenMovesOn ==
  ASSUME EvidenceInv, NEW c \in Calls, Ready(c), TakeLoaded(c), Reaches(c, "done"),
         UNCHANGED <<rows, work, artifact, fetched, latest, failed>>
  PROVE  EvidenceInv'
<1>1. call[c] # Nil  BY DEF Ready
<1> QED  BY <1>1, Taken, MovesOn DEF EvidenceInv, ResearchTypeOK

LEMMA CompareKeeps ==
  ASSUME EvidenceInv, NEW c \in Calls, Compare(c) PROVE EvidenceInv'
<1>1. /\ call[c] # Nil /\ Ready(c)
      /\ UNCHANGED <<rows, work, artifact, fetched, failed>>
  BY DEF Compare, Ready
<1>2. CASE Store(c, KnownTo(c), Empty)
  BY <1>1, <1>2, EmptyIsRead, LoadedIsRead, Stored
<1>3. CASE Reaches(c, "done") /\ TakeLoaded(c) /\ UNCHANGED latest
  BY <1>1, <1>3, TakenMovesOn
<1> QED  BY <1>2, <1>3 DEF Compare

LEMMA LookKeeps ==
  ASSUME EvidenceInv, NEW c \in Calls, Look(c) \/ Explain(c) PROVE EvidenceInv'
BY TakenMovesOn DEF Look, Explain

LEMMA PersistKeeps ==
  ASSUME EvidenceInv, NEW c \in Calls, Persist(c) PROVE EvidenceInv'
<1>1. call[c].held \in Holding /\ Read(call[c].held, fetched) /\ call[c] # Nil
  BY DEF Persist, EvidenceInv, CallsInv, CallOK, CallRecord
<1>2. rows' \in Holding /\ Read(rows', fetched)
  BY <1>1, OverIsRead DEF Persist, EvidenceInv, ResearchTypeOK, MemoryInv
<1>3. MemoryInv' /\ LatestInv'
  BY <1>2 DEF Persist, EvidenceInv, MemoryInv, LatestInv
<1> QED  BY <1>1, <1>2, <1>3, MovesOn DEF Persist, EvidenceInv, ResearchTypeOK

LEMMA PersistFailsKeeps ==
  ASSUME EvidenceInv, NEW c \in Calls, PersistFails(c) PROVE EvidenceInv'
<1>1. call[c].held \in Holding /\ Read(call[c].held, fetched) /\ call[c] # Nil
  BY DEF PersistFails, EvidenceInv, CallsInv, CallOK, CallRecord
<1>2. MemoryInv' /\ LatestInv'
  BY <1>1 DEF PersistFails, EvidenceInv, MemoryInv, LatestInv
<1>3. bundle' \in Holding \cup {Nil} /\ failed' \in BOOLEAN
  BY <1>1 DEF PersistFails
<1> QED
  BY <1>1, <1>2, <1>3, MovesOn DEF PersistFails, EvidenceInv, ResearchTypeOK

-----------------------------------------------------------------------------
(* Drafts. *)

LEMMA AcceptKeeps ==
  ASSUME EvidenceInv, NEW c \in Calls, Ready(c), call[c].op \in Writers, TakeLoaded(c),
         NEW claim \in Claim \cup {Nil}, Accept(c, claim),
         UNCHANGED <<rows, artifact, fetched, latest, failed>>
  PROVE  EvidenceInv'
<1> DEFINE k == [call[c] EXCEPT !.stage = "write", !.held = Empty, !.claim = claim]
<1>1. call[c] # Nil /\ work # Nil /\ CallOK(call[c], fetched)
  BY DEF Ready, EvidenceInv, CallsInv
<1>2. call' = [call EXCEPT ![c] = k]
  BY DEF Accept, EvidenceInv, ResearchTypeOK
<1>3. CallOK(k, fetched)  BY <1>1, EmptyIsRead DEF CallOK, CallRecord
<1> HIDE DEF k
<1>4. CallsInv' /\ call' \in [Calls -> CallRecord \cup {Nil}]
  BY <1>1, <1>2, <1>3, CallMoves DEF Accept, EvidenceInv
<1>5. /\ known' \in Holding /\ bundle' \in Holding \cup {Nil}
      /\ MemoryInv' /\ LatestInv'
  BY Taken
<1>6. ResearchTypeOK'
  BY <1>4, <1>5 DEF Accept, EvidenceInv, ResearchTypeOK
<1> QED  BY <1>4, <1>5, <1>6 DEF EvidenceInv

\* The claim that a checked draft is written with.
LEMMA Checked ==
  ASSUME EvidenceInv, NEW c \in Calls, NEW submitted \in Submissions \cup {Nil},
         CheckDraft(c, submitted)
  PROVE  \/ Refuse(c)
         \/ \E claim \in Claim \cup {Nil} :
              /\ Accept(c, claim)
              /\ claim # Nil /\ claim.verified =>
                   BundleOf(c) # Nil /\ BundleOf(c)[claim.source] = claim.text
<1> DEFINE evidence == BundleOf(c)
           mapped == /\ submitted # Nil /\ evidence # Nil
                     /\ evidence[submitted.source] # Nil
           factual == IF submitted = Nil THEN call[c].claim
                      ELSE IF mapped THEN submitted ELSE Nil
<1>1. call[c].claim \in Claim \cup {Nil}
  BY DEF CheckDraft, Ready, EvidenceInv, CallsInv, CallOK, CallRecord
<1>2. submitted # Nil => submitted \in Claim /\ submitted.verified = FALSE
  BY DEF Submissions, Claim
<1>3. factual \in Claim \cup {Nil}  BY <1>1, <1>2
<1>4. \/ Accept(c, IF mapped THEN submitted ELSE Nil)
      \/ /\ factual # Nil /\ Confirmed(evidence, factual)
         /\ Accept(c, [factual EXCEPT !.verified = TRUE])
      \/ Refuse(c)
      \/ Accept(c, Nil)
  BY DEF CheckDraft
<1> HIDE DEF factual
<1>5. CASE Accept(c, IF mapped THEN submitted ELSE Nil)
  BY <1>2, <1>5
<1>6. CASE /\ factual # Nil /\ Confirmed(evidence, factual)
           /\ Accept(c, [factual EXCEPT !.verified = TRUE])
  <2> DEFINE claim == [factual EXCEPT !.verified = TRUE]
  <2>1. claim \in Claim /\ claim.source = factual.source /\ claim.text = factual.text
    BY <1>3, <1>6 DEF Claim
  <2>2. evidence # Nil /\ evidence[factual.source] = factual.text
    BY <1>6 DEF Confirmed, Supports
  <2> QED  BY <1>6, <2>1, <2>2
<1> QED  BY <1>4, <1>5, <1>6

LEMMA CheckDraftKeeps ==
  ASSUME EvidenceInv, NEW c \in Calls, NEW submitted \in Submissions \cup {Nil},
         CheckDraft(c, submitted)
  PROVE  EvidenceInv'
<1>1. /\ Ready(c) /\ call[c].op \in Writers /\ TakeLoaded(c) /\ call[c] # Nil
      /\ UNCHANGED <<rows, artifact, fetched, latest, failed>>
  BY DEF CheckDraft, Ready
<1>2. CASE Refuse(c)  BY <1>1, <1>2, Taken, RefuseKeeps
<1>3. ASSUME NEW claim \in Claim \cup {Nil}, Accept(c, claim) PROVE EvidenceInv'
  BY <1>1, <1>3, AcceptKeeps
<1> QED  BY <1>2, <1>3, Checked

LEMMA WriteDraftKeeps ==
  ASSUME EvidenceInv, NEW c \in Calls, WriteDraft(c) PROVE EvidenceInv'
<1> DEFINE k == [call[c] EXCEPT !.stage = "done", !.claim = Nil]
<1>1. call[c] # Nil /\ work # Nil /\ CallOK(call[c], fetched)
  BY DEF WriteDraft, EvidenceInv, CallsInv
<1>2. call' = [call EXCEPT ![c] = k]
  BY DEF WriteDraft, EvidenceInv, ResearchTypeOK
<1>3. CallOK(k, fetched)  BY <1>1 DEF CallOK, CallRecord
<1> HIDE DEF k
<1>4. CallsInv' /\ call' \in [Calls -> CallRecord \cup {Nil}]
  BY <1>1, <1>2, <1>3, CallMoves DEF WriteDraft, EvidenceInv
<1>5. artifact' \in Artifact
  BY <1>1 DEF WriteDraft, Artifact, CallOK, CallRecord
<1>6. MemoryInv' /\ LatestInv'  BY MemorySame DEF WriteDraft, EvidenceInv
<1>7. ResearchTypeOK'
  BY <1>4, <1>5 DEF WriteDraft, EvidenceInv, ResearchTypeOK
<1> QED  BY <1>4, <1>6, <1>7 DEF EvidenceInv

LEMMA WriteRefusedKeeps ==
  ASSUME EvidenceInv, NEW c \in Calls, WriteRefused(c) PROVE EvidenceInv'
<1>1. call[c] # Nil /\ call[c].op \in Writers
  BY DEF WriteRefused, EvidenceInv, CallsInv, CallOK
<1>2. MemoryInv' /\ LatestInv'  BY MemorySame DEF WriteRefused, EvidenceInv
<1> QED  BY <1>1, <1>2, RefuseKeeps DEF WriteRefused, EvidenceInv, ResearchTypeOK

\* What the owner saves: a claim stays verified only if nothing changes.
LEMMA EditedClaim ==
  ASSUME ResearchTypeOK, artifact # Nil, NEW claim \in Claim \cup {Nil},
         NEW edited \in BOOLEAN, artifact' = [claim |-> Preserved(claim, edited)]
  PROVE  /\ artifact' \in Artifact
         /\ artifact'.claim # Nil /\ artifact'.claim.verified => artifact' = artifact
<1>1. artifact \in Artifact  BY DEF ResearchTypeOK
<1>2. CASE claim = Nil  BY <1>2 DEF Preserved, Artifact
<1>3. CASE claim # Nil
  <2> DEFINE b == ~edited /\ artifact.claim = [claim EXCEPT !.verified = TRUE]
  <2>1. claim \in Claim /\ b \in BOOLEAN  BY <1>3
  <2>2. artifact' = [claim |-> [claim EXCEPT !.verified = b]]
    BY <1>3 DEF Preserved
  <2>3. b => [claim EXCEPT !.verified = b] = artifact.claim
    <3>1. CASE b
      <4>1. b = TRUE  BY <3>1
      <4>2. [claim EXCEPT !.verified = b] = [claim EXCEPT !.verified = TRUE]  BY <4>1
      <4> QED  BY <3>1, <4>2
    <3> QED  BY <3>1
  <2> HIDE DEF b
  <2> DEFINE kept == [claim EXCEPT !.verified = b]
  <2>4. kept \in Claim /\ kept.verified = b
    BY <2>1 DEF Claim
  <2>5. artifact = [claim |-> artifact.claim]  BY <1>1 DEF Artifact
  <2>6. artifact' = [claim |-> kept] /\ (b => kept = artifact.claim)
    BY <2>2, <2>3
  <2> HIDE DEF kept
  <2>7. artifact'.claim = kept  BY <2>6
  <2>8. artifact' \in Artifact  BY <2>4, <2>6 DEF Artifact
  <2>9. b => artifact' = artifact  BY <2>5, <2>6
  <2> QED  BY <2>4, <2>7, <2>8, <2>9
<1> QED  BY <1>2, <1>3

LEMMA EditDraftKeeps ==
  ASSUME EvidenceInv, NEW claim \in Claim \cup {Nil}, NEW edited \in BOOLEAN,
         EditDraft(claim, edited)
  PROVE  EvidenceInv'
<1>1. artifact' \in Artifact  BY EditedClaim DEF EditDraft, EvidenceInv
<1>2. MemoryInv' /\ LatestInv'  BY MemorySame DEF EditDraft, EvidenceInv
<1>3. CallsInv'  BY CallsSame DEF EditDraft, EvidenceInv
<1>4. ResearchTypeOK'  BY <1>1 DEF EditDraft, EvidenceInv, ResearchTypeOK
<1> QED  BY <1>2, <1>3, <1>4 DEF EvidenceInv

LEMMA ForgetKeeps ==
  ASSUME EvidenceInv, Forget, UNCHANGED <<rows, artifact, fetched>>,
         \/ UNCHANGED <<call, work>>
         \/ call' = NoCalls /\ work' = Nil
  PROVE  EvidenceInv'
<1>1. MemoryInv' /\ LatestInv'
  <2>1. \A s \in Sources : Empty[s] = Nil  BY DEF Empty
  <2> QED  BY <2>1, EmptyIsRead DEF Forget, EvidenceInv, MemoryInv, LatestInv
<1>2. CallsInv'  BY DEF EvidenceInv, CallsInv, NoCalls
<1>3. ResearchTypeOK'
  BY EmptyIsRead DEF Forget, EvidenceInv, ResearchTypeOK, NoCalls
<1> QED  BY <1>1, <1>2, <1>3 DEF EvidenceInv

-----------------------------------------------------------------------------
LEMMA EvidenceInit == ResearchInit => EvidenceInv
<1> SUFFICES ASSUME ResearchInit PROVE EvidenceInv  OBVIOUS
<1>1. \A s \in Sources : Empty[s] = Nil  BY DEF Empty
<1> QED
  BY <1>1, EmptyIsRead DEF ResearchInit, EvidenceInv, ResearchTypeOK, MemoryInv,
     LatestInv, CallsInv, NoCalls

LEMMA EvidenceStep == EvidenceInv /\ [ResearchNext]_researchVars => EvidenceInv'
<1> SUFFICES ASSUME EvidenceInv, [ResearchNext]_researchVars PROVE EvidenceInv'
  OBVIOUS
<1>1. CASE UNCHANGED researchVars
  BY <1>1 DEF researchVars, EvidenceInv, ResearchTypeOK, MemoryInv, LatestInv, CallsInv
<1>2. ASSUME NEW c \in Calls,
             \/ Break(c) \/ Complete(c) \/ BeginSearch(c) \/ BeginRevision(c)
             \/ BeginOther(c) \/ GetDraft(c)
             \/ \E found \in Answers : SearchAnswers(c, found) \/ NovelAnswers(c, found)
             \/ \E docs \in [Sources -> Documents \cup {Nil}] : PagesRead(c, docs)
             \/ LoadRows(c) \/ StorePages(c) \/ Compare(c) \/ Look(c) \/ Explain(c)
             \/ Persist(c) \/ PersistFails(c)
      PROVE  EvidenceInv'
  BY <1>2, BreakKeeps, CompleteKeeps, BeginSearchKeeps, BeginRevisionKeeps,
     BeginOtherKeeps, AnswersKeep, PagesReadKeeps, LoadRowsKeeps, StorePagesKeeps,
     CompareKeeps, LookKeeps, PersistKeeps, PersistFailsKeeps
<1>3. ASSUME NEW c \in Calls,
             \/ \E claim \in Submissions \cup {Nil} : CheckDraft(c, claim)
             \/ WriteDraft(c) \/ WriteRefused(c)
      PROVE  EvidenceInv'
  BY <1>3, CheckDraftKeeps, WriteDraftKeeps, WriteRefusedKeeps
<1>4. CASE \/ \E research, compare, writing, revision \in BOOLEAN :
                StartWork(research, compare, writing, revision)
           \/ \E batch \in [Calls -> Tools \cup {Nil}] : Turn(batch)
           \/ Finish \/ Stop
  BY <1>4, StartKeeps, TurnKeeps, FinishKeeps, StopKeeps
<1>5. CASE \/ \E claim \in Claim \cup {Nil}, edited \in BOOLEAN : EditDraft(claim, edited)
           \/ Evict \/ RestartService
  BY <1>5, EditDraftKeeps, ForgetKeeps DEF Evict, RestartService
<1> QED  BY <1>1, <1>2, <1>3, <1>4, <1>5 DEF ResearchNext

(* Whatever a source is known by, in the rows, in memory or in a call under *)
(* way, was read from it, and the bundle is what was stored last unless a   *)
(* write of rows failed (ResearchService, persist_research_bundle).         *)
THEOREM EvidenceIsRead == ResearchSpec => []EvidenceInv
BY EvidenceInit, EvidenceStep, PTL DEF ResearchSpec

(* The rows, the memory, the calls and the contract keep their types. *)
THEOREM ResearchIsTyped == ResearchSpec => []ResearchTypeOK
<1>1. EvidenceInv => ResearchTypeOK  BY DEF EvidenceInv
<1> QED  BY <1>1, EvidenceIsRead, PTL

-----------------------------------------------------------------------------
(* Claims that are verified. *)

\* A call comes to hold a verified claim only by the check of its draft.
LEMMA VouchedByCheck ==
  ASSUME EvidenceInv, [ResearchNext]_researchVars, NEW c \in Calls, Vouched(c)', ~Vouched(c)
  PROVE  \E submitted \in Submissions \cup {Nil} : CheckDraft(c, submitted) /\ ~Refuse(c)
<1>1. call \in [Calls -> CallRecord \cup {Nil}]  BY DEF EvidenceInv, ResearchTypeOK
<1>2. /\ call'[c] # Nil /\ call'[c].stage = "write"
      /\ call'[c] # call[c]
  BY DEF Vouched
<1>3. ASSUME NEW d \in Calls, NEW stage, stage # "write", Reaches(d, stage) PROVE FALSE
  BY <1>1, <1>2, <1>3 DEF Reaches, CallRecord
<1>4. ASSUME NEW d \in Calls, End(d) PROVE FALSE
  BY <1>1, <1>2, <1>4 DEF End
<1>5. ASSUME NEW d \in Calls, Refuse(d) PROVE FALSE
  BY <1>4, <1>5 DEF Refuse
<1>6. ASSUME NEW d \in Calls, NEW base, NEW found, Store(d, base, found) PROVE FALSE
  BY <1>1, <1>2, <1>6 DEF Store, CallRecord
<1>7. ASSUME NEW d \in Calls, BeginRevision(d) PROVE FALSE
  BY <1>1, <1>2, <1>5, <1>7 DEF BeginRevision, CallRecord
<1>8. ASSUME NEW d \in Calls, NEW docs, PagesRead(d, docs) PROVE FALSE
  BY <1>1, <1>2, <1>8 DEF PagesRead, CallRecord
<1>9. ASSUME NEW d \in Calls, LoadRows(d) PROVE FALSE
  BY <1>1, <1>2, <1>9 DEF LoadRows, CallRecord
<1>10. ASSUME NEW d \in Calls, WriteDraft(d) PROVE FALSE
  BY <1>1, <1>2, <1>10 DEF WriteDraft, CallRecord
<1>11. ASSUME NEW batch, Turn(batch) PROVE FALSE
  BY <1>2, <1>11 DEF Turn
<1>12. call' # call /\ call' # NoCalls
  BY <1>2 DEF NoCalls
<1>13. ASSUME NEW d \in Calls,
              \/ Break(d) \/ Complete(d) \/ BeginSearch(d) \/ BeginOther(d) \/ GetDraft(d)
              \/ \E found \in Answers : SearchAnswers(d, found) \/ NovelAnswers(d, found)
              \/ StorePages(d) \/ Compare(d) \/ Look(d) \/ Explain(d)
              \/ Persist(d) \/ PersistFails(d) \/ WriteRefused(d)
       PROVE  FALSE
  BY <1>3, <1>4, <1>5, <1>6, <1>13
     DEF Break, Complete, BeginSearch, BeginOther, GetDraft, SearchAnswers, NovelAnswers,
         StorePages, Compare, Look, Explain, Persist, PersistFails, WriteRefused
<1>14. ASSUME \/ \E research, compare, writing, revision \in BOOLEAN :
                   StartWork(research, compare, writing, revision)
              \/ Finish \/ Stop \/ Evict \/ RestartService
              \/ \E claim \in Claim \cup {Nil}, edited \in BOOLEAN : EditDraft(claim, edited)
              \/ UNCHANGED researchVars
       PROVE  FALSE
  BY <1>12, <1>14
     DEF StartWork, Finish, Stop, Evict, RestartService, EditDraft, researchVars
<1>15. PICK d \in Calls, submitted \in Submissions \cup {Nil} : CheckDraft(d, submitted)
  BY <1>7, <1>8, <1>9, <1>10, <1>11, <1>13, <1>14 DEF ResearchNext
<1>16. PICK claim : Accept(d, claim)
  BY <1>5, <1>15 DEF CheckDraft
<1>17. d = c
  BY <1>1, <1>2, <1>16 DEF Accept
<1> QED  BY <1>5, <1>15, <1>17

\* What the check of a draft vouches for was read.
LEMMA CheckedWasRead ==
  ASSUME EvidenceInv, NEW c \in Calls, NEW submitted \in Submissions \cup {Nil},
         CheckDraft(c, submitted), ~Refuse(c), Vouched(c)'
  PROVE  LET claim == call'[c].claim
         IN  /\ claim.text \in fetched[claim.source]
             /\ failed \/ latest[claim.source] \in {claim.text, Nil}
<1>1. PICK claim \in Claim \cup {Nil} :
        /\ Accept(c, claim)
        /\ claim # Nil /\ claim.verified =>
             BundleOf(c) # Nil /\ BundleOf(c)[claim.source] = claim.text
  BY Checked
<1>2. call'[c].claim = claim
  BY <1>1 DEF Accept, CheckDraft, Ready, EvidenceInv, ResearchTypeOK, CallRecord
<1>3. claim # Nil /\ claim.verified /\ claim \in Claim  BY <1>1, <1>2 DEF Vouched
<1>4. claim.source \in Sources /\ claim.text \in Articles  BY <1>3 DEF Claim
<1>5. Ready(c)  BY DEF CheckDraft
<1>6. claim.text \in fetched[claim.source]
  BY <1>1, <1>3, <1>4, <1>5, LoadedIsRead DEF Read
<1>7. failed \/ latest[claim.source] \in {claim.text, Nil}
  BY <1>1, <1>3, <1>4, <1>5, LoadedIsRead DEF EvidenceInv, LatestInv
<1> QED  BY <1>2, <1>6, <1>7

\* A draft comes to call a claim verified only by the write of a checked draft.
LEMMA VerifiedByWrite ==
  ASSUME EvidenceInv, [ResearchNext]_researchVars, artifact' \notin {artifact, Nil},
         artifact'.claim # Nil, artifact'.claim.verified
  PROVE  \E c \in Calls : Vouched(c) /\ call[c].claim = artifact'.claim
<1>1. ASSUME NEW claim \in Claim \cup {Nil}, NEW edited \in BOOLEAN,
             EditDraft(claim, edited)
      PROVE  FALSE
  BY <1>1, EditedClaim DEF EditDraft, EvidenceInv
<1>2. PICK c \in Calls : WriteDraft(c)
  BY <1>1
     DEF ResearchNext, researchVars, StartWork, Turn, Finish, Stop, Break, Complete,
         BeginSearch, BeginRevision, BeginOther, GetDraft, SearchAnswers, NovelAnswers,
         PagesRead, LoadRows, StorePages, Compare, Look, Explain, Persist, PersistFails,
         CheckDraft, WriteRefused, Evict, RestartService
<1>3. artifact' = [claim |-> call[c].claim]  BY <1>2 DEF WriteDraft
<1> QED  BY <1>2, <1>3 DEF WriteDraft, Vouched

(* A claim that a draft calls verified was checked against an article that *)
(* was read from its source, and the one stored last, however the calls of *)
(* a turn overlap (normalize_draft_evidence, verify_claim_support).        *)
THEOREM VerifiedWasRead == ResearchSpec => ClaimsWereRead
<1> DEFINE Faithful ==
      /\ \A c \in Calls : Vouched(c)' /\ ~Vouched(c) =>
           LET claim == call'[c].claim IN
           /\ claim.text \in fetched[claim.source]
           /\ failed \/ latest[claim.source] \in {claim.text, Nil}
      /\ artifact' \notin {artifact, Nil} =>
           LET claim == artifact'.claim IN
           claim # Nil /\ claim.verified =>
             \E c \in Calls : Vouched(c) /\ call[c].claim = claim
<1>1. EvidenceInv /\ [ResearchNext]_researchVars => [Faithful]_researchVars
  <2> SUFFICES ASSUME EvidenceInv, [ResearchNext]_researchVars PROVE Faithful
    OBVIOUS
  <2>1. ASSUME NEW c \in Calls, Vouched(c)', ~Vouched(c)
        PROVE  LET claim == call'[c].claim IN
               /\ claim.text \in fetched[claim.source]
               /\ failed \/ latest[claim.source] \in {claim.text, Nil}
    BY <2>1, VouchedByCheck, CheckedWasRead
  <2>2. ASSUME artifact' \notin {artifact, Nil},
               artifact'.claim # Nil, artifact'.claim.verified
        PROVE  \E c \in Calls : Vouched(c) /\ call[c].claim = artifact'.claim
    BY <2>2, VerifiedByWrite
  <2> QED  BY <2>1, <2>2
<1>2. ResearchSpec => [][Faithful]_researchVars
  BY <1>1, EvidenceIsRead, PTL DEF ResearchSpec
<1> QED  BY <1>2 DEF ClaimsWereRead
=============================================================================
