------------------------------ MODULE Research ------------------------------
(***************************************************************************)
(* The evidence of one conversation and the tools of the agent that gather *)
(* it and write drafts from it.                                            *)
(*                                                                         *)
(* A turn of the model calls several tools, which run at the same time and *)
(* share the evidence in memory (ResearchState); the table studio_sources  *)
(* outlives the process.  The lock of the service is held only where       *)
(* nothing is awaited, so what happens under it is one step, and every     *)
(* search, read of a page, load and write of rows lies between two steps.  *)
(* Ranking, clusters, warnings and the texts of queries are left out.      *)
(***************************************************************************)
EXTENDS Naturals, FiniteSets, FiniteSetsExt

CONSTANTS Sources,      \* sources: records of an address
          Articles,     \* texts that the page of a source can have
          Calls,        \* tool calls of one turn of the model
          Nil,
          MaxSources,   \* sources kept per conversation (300)
          MaxSearches   \* search_web calls of one run (4)

ASSUME ResearchAssumption ==
  /\ {MaxSources, MaxSearches} \subseteq Nat \ {0}
  /\ {"blocked", "bare", "empty", "snippet"} \cap Articles = {}
  /\ Nil \notin Articles \cup {"blocked", "bare", "empty", "snippet"}

\* What is stored of a source: an article that was read, a page that could not
\* be read, or no text at all (a search result, a page without text).
Evidence == Articles \cup {"blocked", "bare"}

\* SourceDocument: what the reader makes of a page.
Documents == Articles \cup {"blocked", "empty"}
\* A text is kept as it was read; neither a page without one nor a search
\* result, of which there is a snippet, has text that a claim can be held to.
SourceOf(value) == IF value \in {"empty", "snippet"} THEN "bare" ELSE value

Holding  == [Sources -> Evidence \cup {Nil}]
Empty    == [s \in Sources |-> Nil]
Claim    == [source : Sources, text : Articles, verified : BOOLEAN]

Tools == {"context", "get", "explain", "search", "novel", "read", "compare",
          "create", "revise"}
Writers == {"create", "revise"}

VARIABLES rows,      \* studio_sources of the conversation
          known,     \* ResearchState.sources
          bundle,    \* the sources of ResearchState.bundle, Nil without one
          call,      \* tool calls in flight
          work,      \* the run: StudioDeps
          artifact,  \* claim_support of the current draft
          fetched,   \* the articles that were ever read, per source
          latest,    \* what was last stored of a source in this process
          failed     \* a write of rows failed in this process

researchVars == <<rows, known, bundle, call, work, artifact, fetched, latest,
                  failed>>

Artifact == [claim : Claim \cup {Nil}]

\* `held' is what a call has read of the rows, or what it is to write there.
CallRecord ==
  [op : Tools, page : Holding, held : Holding, claim : Claim \cup {Nil},
   stage : {"new", "asked", "load", "loaded", "persist", "write", "done"}]
Work == [wanted : SUBSET Tools, ended : SUBSET Tools, searches : 0..MaxSearches,
         refused : [Writers -> 0..2]]

ASSUME NilAssumption == Nil \notin Work

ResearchTypeOK ==
  /\ rows \in Holding /\ known \in Holding
  /\ bundle \in Holding \cup {Nil}
  /\ call \in [Calls -> CallRecord \cup {Nil}]
  /\ work \in Work \cup {Nil}
  /\ artifact \in Artifact \cup {Nil}
  /\ fetched \in [Sources -> SUBSET Articles]
  /\ latest \in Holding
  /\ failed \in BOOLEAN

NoCalls == [c \in Calls |-> Nil]

ResearchInit ==
  /\ rows = Empty /\ known = Empty /\ bundle = Nil
  /\ call = NoCalls /\ work = Nil /\ artifact = Nil
  /\ fetched = [s \in Sources |-> {}]
  /\ latest = Empty /\ failed = FALSE

-----------------------------------------------------------------------------
(* The evidence in memory. *)

Held(h) == {s \in Sources : h[s] # Nil}
Over(upper, lower) ==
  [s \in Sources |-> IF upper[s] # Nil THEN upper[s] ELSE lower[s]]

\* Variant: the rows replace what is in memory
Merged_RowsFirst(got) == Over(got, known)
\* What is in memory is newer than the rows that were read.
Merged(got) == Over(known, got)

\* _ensure_loaded: a bundle in memory will do, otherwise rows are read, which
\* may fail or find none.
Ready(c) ==
  /\ call[c] # Nil
  /\ call[c].stage = "loaded" \/ (call[c].stage = "load" /\ bundle # Nil)
KnownTo(c)  == IF call[c].held = Empty THEN known ELSE Merged(call[c].held)
BundleOf(c) == IF call[c].held = Empty THEN bundle ELSE KnownTo(c)
TakeLoaded(c) == known' = KnownTo(c) /\ bundle' = BundleOf(c)

Reaches(c, stage) ==
  call' = [call EXCEPT ![c].stage = stage, ![c].page = Empty, ![c].held = Empty]
End(c) == call' = [call EXCEPT ![c] = Nil]

\* build_research_bundle: every source it is given, none merged with another,
\* whatever clusters and selections are made of them.
Bundle(sources) == [s \in Sources |-> SourceOf(sources[s])]

\* _store: what was found replaces what was known of the same source; beyond
\* the limit the sources that were found first are dropped.
Store(c, base, found) ==
  LET all == Over(found, base)
      room == Min({MaxSources, Cardinality(Held(all))})
  IN  \E kept \in kSubset(room, Held(all)) :
        /\ known' = [s \in Sources |-> IF s \in kept THEN all[s] ELSE Nil]
        /\ bundle' = Bundle(known')
        /\ latest' = [s \in Sources |->
                        IF s \in kept THEN Over(found, latest)[s] ELSE Nil]
        /\ call' = [call EXCEPT ![c].stage = "persist", ![c].page = Empty,
                                ![c].held = known']

-----------------------------------------------------------------------------
(* The run and its turns. *)

\* workflow_tool_sequence: the tools that the owner's words call for.
Wanted(research, compare, writing) ==
  (IF research \/ writing THEN {"context"} ELSE {})
  \cup (IF research THEN {"search"} ELSE {})
  \cup (IF research /\ compare THEN {"compare"} ELSE {})
  \cup (IF writing THEN {"create"} ELSE {})

\* A conversation that has a draft gets a revision of it.
Contract(base, revision) ==
  IF artifact = Nil THEN base
  ELSE IF "create" \in base THEN (base \ {"create"}) \cup {"revise"}
  ELSE IF revision THEN base \cup {"get", "revise"} ELSE base

\* For a draft without new research the service looks at the evidence first.
StartWork(research, compare, writing, revision) ==
  /\ work = Nil
  /\ LET base == Wanted(research, compare, writing) IN
     /\ work' = [wanted |-> Contract(base, revision), ended |-> {},
                 searches |-> 0, refused |-> [w \in Writers |-> 0]]
     /\ \/ UNCHANGED <<known, bundle>>
        \/ /\ writing /\ ~research /\ bundle = Nil /\ rows # Empty
           /\ known' = Merged(rows) /\ bundle' = known'
  /\ UNCHANGED <<rows, call, artifact, fetched, latest, failed>>

Missing == work.wanted \ work.ended

\* After the draft that was asked for no tool is offered any more.
Turn(batch) ==
  /\ work # Nil /\ call = NoCalls
  /\ Missing # {} \/ work.ended \cap Writers = {}
  /\ batch # NoCalls
  /\ call' = [c \in Calls |-> IF batch[c] = Nil THEN Nil ELSE
                [op |-> batch[c], stage |-> "new", page |-> Empty,
                 held |-> Empty, claim |-> Nil]]
  /\ UNCHANGED <<rows, known, bundle, work, artifact, fetched, latest, failed>>

\* enforce_required_workflow: an earlier answer is sent back to the model.
Finish ==
  /\ work # Nil /\ call = NoCalls /\ Missing = {}
  /\ work' = Nil
  /\ UNCHANGED <<rows, known, bundle, call, artifact, fetched, latest, failed>>

\* A cancelled, failed or timed out run takes its calls with it.
Stop ==
  /\ work # Nil
  /\ work' = Nil /\ call' = NoCalls
  /\ UNCHANGED <<rows, known, bundle, artifact, fetched, latest, failed>>

\* A call that runs out of time or raises, wherever it is.
Break(c) ==
  /\ call[c] # Nil
  /\ End(c)
  /\ UNCHANGED <<rows, known, bundle, work, artifact, fetched, latest, failed>>

\* completed_tools, of which only these are ever looked at.
Complete(c) ==
  /\ call[c] # Nil /\ call[c].stage = "done"
  /\ work' = [work EXCEPT !.ended =
                @ \cup ({call[c].op} \cap (work.wanted \cup Writers))]
  /\ End(c)
  /\ UNCHANGED <<rows, known, bundle, artifact, fetched, latest, failed>>

\* _record_blocked_tool: what is refused twice counts as ended.
Refuse(c) ==
  LET op == call[c].op
      n == Min({2, work.refused[op] + 1})
  IN  /\ work' = [work EXCEPT !.refused[op] = n,
                    !.ended = IF n = 2 THEN @ \cup {op} ELSE @]
      /\ End(c)

-----------------------------------------------------------------------------
(* Searches, pages and rows. *)

\* The count is checked and raised before anything is awaited.
BeginSearch(c) ==
  /\ call[c] # Nil /\ call[c].stage = "new" /\ call[c].op = "search"
  /\ IF work.searches = MaxSearches THEN End(c) /\ UNCHANGED work
     ELSE /\ Reaches(c, "asked")
          /\ work' = [work EXCEPT !.searches = @ + 1]
  /\ UNCHANGED <<rows, known, bundle, artifact, fetched, latest, failed>>

\* revise_draft takes the claims of the draft along.
BeginRevision(c) ==
  /\ call[c] # Nil /\ call[c].stage = "new" /\ call[c].op = "revise"
  /\ IF artifact = Nil THEN Refuse(c)
     ELSE /\ call' = [call EXCEPT ![c].stage = "load",
                                  ![c].claim = artifact.claim]
          /\ UNCHANGED work
  /\ UNCHANGED <<rows, known, bundle, artifact, fetched, latest, failed>>

BeginOther(c) ==
  /\ call[c] # Nil /\ call[c].stage = "new"
  /\ call[c].op \notin {"search", "revise", "get"}
  /\ Reaches(c, IF call[c].op \in {"novel", "read"} THEN "asked" ELSE "load")
  /\ UNCHANGED <<rows, known, bundle, work, artifact, fetched, latest, failed>>

\* get_draft reads the draft, of which the model is told nothing new.
GetDraft(c) ==
  /\ call[c] # Nil /\ call[c].stage = "new" /\ call[c].op = "get"
  /\ Reaches(c, "done")
  /\ UNCHANGED <<rows, known, bundle, work, artifact, fetched, latest, failed>>

\* What the queries of a call find, nothing if every engine failed.
Answers == SUBSET Sources
\* A search result has a title and a snippet, and no text of its page.
Results(found) ==
  [s \in Sources |-> IF s \in found THEN SourceOf("snippet") ELSE Nil]

SearchAnswers(c, found) ==
  /\ call[c] # Nil /\ call[c].stage = "asked" /\ call[c].op = "search"
  /\ Store(c, known, Results(found))
  /\ UNCHANGED <<rows, work, artifact, fetched, failed>>

\* find_novel_topics searches for the topics of the channel.
NovelAnswers(c, found) ==
  /\ call[c] # Nil /\ call[c].stage = "asked" /\ call[c].op = "novel"
  /\ Store(c, known, Results(found))
  /\ UNCHANGED <<rows, work, artifact, fetched, failed>>

\* SafeSourceReader.read, for each address of the call.
PagesRead(c, documents) ==
  /\ call[c] # Nil /\ call[c].stage = "asked" /\ call[c].op = "read"
  /\ documents # Empty
  /\ fetched' =
       [s \in Sources |-> fetched[s] \cup ({documents[s]} \cap Articles)]
  /\ call' = [call EXCEPT ![c].stage = "load",
                ![c].page = [s \in Sources |-> SourceOf(documents[s])]]
  /\ UNCHANGED <<rows, known, bundle, work, artifact, latest, failed>>

LoadRows(c) ==
  /\ call[c] # Nil /\ call[c].stage = "load" /\ bundle = Nil
  /\ \E got \in {rows, Empty} :
       call' = [call EXCEPT ![c].stage = "loaded", ![c].held = got]
  /\ UNCHANGED <<rows, known, bundle, work, artifact, fetched, latest, failed>>

\* A page takes the identity of the known source of its address.
StorePages(c) ==
  /\ Ready(c) /\ call[c].op = "read"
  /\ Store(c, KnownTo(c), call[c].page)
  /\ UNCHANGED <<rows, work, artifact, fetched, failed>>

\* compare_sources stores what it selects again.
Compare(c) ==
  /\ Ready(c) /\ call[c].op = "compare"
  /\ \/ Held(KnownTo(c)) # {} /\ Store(c, KnownTo(c), Empty)
     \/ Reaches(c, "done") /\ TakeLoaded(c) /\ UNCHANGED latest
  /\ UNCHANGED <<rows, work, artifact, fetched, failed>>

\* get_channel_context
Look(c) ==
  /\ Ready(c) /\ call[c].op = "context"
  /\ TakeLoaded(c) /\ Reaches(c, "done")
  /\ UNCHANGED <<rows, work, artifact, fetched, latest, failed>>

\* explain_recommendation
Explain(c) ==
  /\ Ready(c) /\ call[c].op = "explain"
  /\ TakeLoaded(c) /\ Reaches(c, "done")
  /\ UNCHANGED <<rows, work, artifact, fetched, latest, failed>>

\* persist_research_bundle writes what this call stored, whatever is known now.
Persist(c) ==
  /\ call[c] # Nil /\ call[c].stage = "persist"
  /\ rows' = Over(call[c].held, rows)
  /\ Reaches(c, "done")
  /\ UNCHANGED <<known, bundle, work, artifact, fetched, latest, failed>>

\* The call's own bundle, with a warning, becomes the one in memory.
PersistFails(c) ==
  /\ call[c] # Nil /\ call[c].stage = "persist"
  /\ bundle' = call[c].held /\ failed' = TRUE
  /\ Reaches(c, "done")
  /\ UNCHANGED <<rows, known, work, artifact, fetched, latest>>

-----------------------------------------------------------------------------
(* Drafts. *)

\* verify_claim_support: the passage occurs in the article that is stored.
Supports(evidence, claim) == evidence = claim.text

Confirmed(evidence, claim) ==
  evidence # Nil /\ Supports(evidence[claim.source], claim)

Accept(c, claim) ==
  /\ call' = [call EXCEPT ![c].stage = "write", ![c].held = Empty,
                          ![c].claim = claim]
  /\ UNCHANGED work

\* normalize_draft_evidence, for one claim or none: what is not creative is
\* confirmed, the claims of the revised draft when none is submitted.  A claim
\* with an unknown source is left out when the draft has other sources.
CheckDraft(c, submitted) ==
  /\ Ready(c) /\ call[c].op \in Writers
  /\ TakeLoaded(c)
  /\ LET evidence == BundleOf(c)
         mapped == /\ submitted # Nil /\ evidence # Nil
                   /\ evidence[submitted.source] # Nil
         factual == IF submitted = Nil THEN call[c].claim
                    ELSE IF mapped THEN submitted ELSE Nil
     IN  \/ Accept(c, IF mapped THEN submitted ELSE Nil)
         \/ /\ factual # Nil /\ Confirmed(evidence, factual)
            /\ Accept(c, [factual EXCEPT !.verified = TRUE])
         \/ factual # Nil /\ ~Confirmed(evidence, factual) /\ Refuse(c)
         \/ /\ factual = Nil
            /\ IF evidence = Nil THEN submitted = Nil ELSE Held(evidence) # {}
            /\ Accept(c, Nil)
         \/ factual = Nil /\ Refuse(c)
  /\ UNCHANGED <<rows, artifact, fetched, latest, failed>>

\* validate_draft_input: a source that a draft names has a row by now.
Referable(claim) == claim # Nil => rows[claim.source] # Nil

WriteDraft(c) ==
  /\ call[c] # Nil /\ call[c].stage = "write"
  /\ Referable(call[c].claim)
  /\ artifact' = [claim |-> call[c].claim]
  /\ call' = [call EXCEPT ![c].stage = "done", ![c].claim = Nil]
  /\ UNCHANGED <<rows, known, bundle, work, fetched, latest, failed>>

\* The repository finds the draft invalid or its conversation closed.
WriteRefused(c) ==
  /\ call[c] # Nil /\ call[c].stage = "write"
  /\ Refuse(c)
  /\ UNCHANGED <<rows, known, bundle, artifact, fetched, latest, failed>>

\* _preserve_server_verification_on_user_edit: verified is what was, unless
\* the text or the claim changes.
Preserved(claim, edited) ==
  IF claim = Nil THEN Nil
  ELSE [claim EXCEPT !.verified =
          ~edited /\ artifact.claim = [claim EXCEPT !.verified = TRUE]]

\* The owner saves the draft, its text edited or not, with a claim.
EditDraft(claim, edited) ==
  /\ artifact # Nil /\ Referable(claim)
  /\ artifact' = [claim |-> Preserved(claim, edited)]
  /\ UNCHANGED <<rows, known, bundle, call, work, fetched, latest, failed>>

-----------------------------------------------------------------------------
Forget ==
  /\ known' = Empty /\ bundle' = Nil /\ latest' = Empty /\ failed' = FALSE

\* More than 64 other conversations have been at work since this one.
Evict ==
  /\ bundle # Nil
  /\ \A c \in Calls : call[c] # Nil => call[c].stage # "loaded"
  /\ Forget
  /\ UNCHANGED <<rows, call, work, artifact, fetched>>

RestartService ==
  /\ bundle # Nil \/ work # Nil
  /\ Forget /\ work' = Nil /\ call' = NoCalls
  /\ UNCHANGED <<rows, artifact, fetched>>

-----------------------------------------------------------------------------
Submissions == [source : Sources, text : Articles, verified : {FALSE}]

ResearchNext ==
  \/ \E research, compare, writing, revision \in BOOLEAN :
       StartWork(research, compare, writing, revision)
  \/ \E batch \in [Calls -> Tools \cup {Nil}] : Turn(batch)
  \/ Finish
  \/ Stop
  \/ \E c \in Calls : Break(c)
  \/ \E c \in Calls : Complete(c)
  \/ \E c \in Calls : BeginSearch(c)
  \/ \E c \in Calls : BeginRevision(c)
  \/ \E c \in Calls : BeginOther(c)
  \/ \E c \in Calls : GetDraft(c)
  \/ \E c \in Calls, found \in Answers : SearchAnswers(c, found)
  \/ \E c \in Calls, found \in Answers : NovelAnswers(c, found)
  \/ \E c \in Calls, documents \in [Sources -> Documents \cup {Nil}] :
       PagesRead(c, documents)
  \/ \E c \in Calls : LoadRows(c)
  \/ \E c \in Calls : StorePages(c)
  \/ \E c \in Calls : Compare(c)
  \/ \E c \in Calls : Look(c)
  \/ \E c \in Calls : Explain(c)
  \/ \E c \in Calls : Persist(c)
  \/ \E c \in Calls : PersistFails(c)
  \/ \E c \in Calls, claim \in Submissions \cup {Nil} : CheckDraft(c, claim)
  \/ \E c \in Calls : WriteDraft(c)
  \/ \E c \in Calls : WriteRefused(c)
  \/ \E claim \in Claim \cup {Nil}, edited \in BOOLEAN : EditDraft(claim, edited)
  \/ Evict
  \/ RestartService

ResearchSpec == ResearchInit /\ [][ResearchNext]_researchVars

-----------------------------------------------------------------------------
Vouched(c) ==
  call[c] # Nil /\ call[c].stage = "write" /\ call[c].claim # Nil
    /\ call[c].claim.verified

(* A claim that a draft calls verified was checked against an article that *)
(* was read from its source: the one that was stored last, although the    *)
(* calls of a turn read, search and load at the same time.  Rows from an   *)
(* earlier process and a write of rows that failed are the exceptions to   *)
(* the second part.  No other claim becomes a verified one of the draft,   *)
(* whatever the owner's browser sends with an edit.                        *)
ClaimsWereRead ==
  [][/\ \A c \in Calls : Vouched(c)' /\ ~Vouched(c) =>
          LET claim == call'[c].claim IN
          /\ claim.text \in fetched[claim.source]
          /\ failed \/ latest[claim.source] \in {claim.text, Nil}
     /\ artifact' \notin {artifact, Nil} =>
          LET claim == artifact'.claim IN
          claim # Nil /\ claim.verified =>
            \E c \in Calls : Vouched(c) /\ call[c].claim = claim]_researchVars
=============================================================================
