---------------------------- MODULE MCWorkspace -----------------------------
(* The parts of a workspace that work on tables of their own, each on small *)
(* instances: `part' names the scenario that a behaviour is of, Within what *)
(* it leaves out.                                                           *)
EXTENDS Drafts, References, Research, Profiles, ScheduleTime

CONSTANTS d1, t2, i1, x,       \* elements of Drafts, Tabs, Images and Texts
          s1, s2, r1, u1,      \* elements of Attempts, AgentRuns, Accounts
          b2, g2,              \* elements of Panels, RefChannels
          w1, w2, a1, c2,      \* elements of Sources, Articles, Calls
          v1, v2, e1, e2, p1, raw   \* elements of Windows, Saves, Words

VARIABLE part

DraftParts == {"edit", "schedule", "space"}
ConnectionParts == {"signin", "consent", "refresh"}
ReferenceParts == {"reference"}
ResearchParts == {"evidence", "contract", "limit"}
WordsParts == {"profile", "prompt"}
TimeParts == {"time"}
Parts == DraftParts \cup ConnectionParts \cup ReferenceParts
           \cup ResearchParts \cup WordsParts \cup TimeParts

vars == <<part, draftVars, connectionVars, referenceVars, researchVars,
          wordsVars, timeVars>>

Only(d, limit) ==
  \A e \in Drafts : draft'[e] # None => e = d /\ draft'[e].rev <= limit

DraftsWithin ==
  \/ /\ part = "edit"
     /\ dialog' = dialog /\ stored' \subseteq {i1} /\ Only(d1, MaxRevision)
  \/ /\ part = "schedule"
     /\ tab'[t2] = None /\ stored' \subseteq {i1}
     /\ \A k \in Keys :
          post'[k] # None /\ post'[k].retried => Only(d1, 2) /\ tab' = tab
     /\ Only(d1, IF stored' = {} THEN 3 ELSE 2)
  \/ /\ part = "space"
     /\ dialog' = dialog
     /\ \A d \in Drafts : draft'[d] # None =>
          draft'[d].rev = 1 /\ draft'[d].body = x

ConnectionsWithin ==
  \/ /\ part = "signin"
     /\ old' = {} /\ saved'.provider # "ollama"
     /\ agent' = agent /\ page' = page
  \/ /\ part = "consent"
     /\ loading' = Nothing \/ (old' = {} /\ attempt'[s2].stage = "new")
     /\ old' \subseteq {1}
     /\ issued' <= 2 /\ Cardinality(listed') <= 1
     /\ \A r \in AgentRuns \ {r1} : agent'[r] = agent[r]
     /\ \A a \in Attempts \ {s1, s2} : attempt'[a] = attempt[a]
     /\ attempt'[s1].account \in {Nothing, u1}
     /\ attempt'[s2].stage # "new" => attempt'[s1].stage = "over"
     /\ \A a \in {s1, s2} :
          attempt'[a].stage = "over" => attempt'[a].account # Nothing
     /\ saved'.provider = "ollama" => since' = {} /\ loading' = Nothing
     /\ \A f \in confirmed' : f[1] # "ollama"
     /\ Cardinality(consent') >= Cardinality(consent)
  \/ /\ part = "refresh"
     /\ loading' = Nothing /\ saved'.provider # "ollama"
     /\ Cardinality(consent') >= Cardinality(consent)
     /\ \A a \in Attempts \ {s1} : attempt'[a] = attempt[a]
     /\ attempt'[s1].account \in {Nothing, u1}

\* One run of the conversation that reads, and no account.
ReferencesWithin ==
  /\ part = "reference"
  /\ saved'.provider # "openai" /\ since' = {}
  /\ \A r \in AgentRuns \ {r1} : agent'[r] = agent[r]
  /\ \A f \in confirmed' : f[1] # "ollama"
  /\ page' # Nothing => page'[1] # "ollama"
  /\ choosing'[b2] # Nothing => choosing'[b2].of = g2
  /\ shown'[b2] = {}
  /\ loading' # Nothing => choosing' = NoChoices /\ raced' = {}

Operations == {call'[c].op : c \in {d \in Calls : call'[d] # Nil}}
Unwanted == work' # Nil =>
  work'.wanted = {} /\ \A w \in Writers : work'.refused[w] = 0

ResearchWithin ==
  \/ /\ part = "evidence"
     /\ fetched'[w2] = {} /\ known'[w2] = Nil
     /\ Operations \subseteq {"read", "search", "create"}
     /\ \A c \in Calls : call'[c] # Nil => call'[c].page[w1] # "blocked"
     /\ Unwanted /\ artifact' = Nil
     /\ work' # Nil /\ work = Nil => bundle = Nil
  \/ /\ part = "contract"
     /\ fetched'[w2] = {} /\ fetched'[w1] \subseteq {a1}
     /\ known'[w2] = Nil /\ known'[w1] # "blocked"
     /\ call'[c2] = Nil /\ failed' = FALSE
     /\ \A c \in Calls : call'[c] # Nil =>
          /\ call'[c].page[w1] # "blocked" /\ call'[c].page[w2] = Nil
          /\ call'[c].claim # Nil =>
               call'[c].claim.source = w1 /\ call'[c].claim.text = a1
     /\ Operations \cap {"novel", "explain"} = {}
     /\ known # Empty /\ known' = Empty => work' = Nil /\ artifact' = Nil
     /\ rows # Empty /\ known = Empty => work' = Nil \/ bundle' # Nil
     /\ work' # Nil =>
          /\ work'.refused["create"] = 0
          /\ work'.wanted \in
               {{"context", "search", "create"}, {"context", "search", "compare"},
                {"context", "create"}, {"context", "revise"},
                {"get", "revise"}, {}}
  \/ /\ part = "limit"
     /\ \A s \in Sources : fetched'[s] \subseteq {a1}
     /\ Operations \subseteq {"read", "search", "novel", "compare", "explain",
                           "create"}
     /\ Unwanted /\ artifact' = Nil /\ call'[c2] = Nil
     /\ work' # Nil /\ work = Nil => bundle = Nil

\* Blank lines and spaces around a text are the only ones there are.
Tidied == [t \in {Blank, p1, raw} |-> IF t = Blank THEN Blank ELSE p1]

WordsWithin ==
  \/ /\ part = "profile"
     /\ promptVars' = promptVars
     /\ analyses' <= 1
     /\ analyses' = 1 => save'[e2] = Void /\ editor'[v2] = Void
     /\ save'[e1] # Void => save'[e1].window # v2
     /\ editor'[v1] # Void =>
          /\ editor'[v1].text = raw => editor'[v2] = Void
          /\ editor'[v1].building =>
               editor'[v1].other = Void /\ save'[e2] = Void /\ analyses' = 0
     /\ editor'[v2] # Void =>
          /\ ~editor'[v2].building
          /\ editor'[v2].text \in {p1, editor'[v2].base.text}
  \/ part = "prompt" /\ profileVars' = profileVars

\* The clocks of one zone go back at instant 4, those of the other go forward at 3.
Clocks ==
  [z \in Zones |-> [t \in Instants |-> IF z = "fall" THEN IF t < 4 THEN t ELSE t - 1
                                                   ELSE IF t < 3 THEN t ELSE t + 1]]

\* A time that the clocks skip is taken for an instant after the change.
Resolved ==
  LET When(z, w) == {t \in Instants : Clocks[z][t] = w} \cup
                     {t \in {4} : \A u \in Instants : Clocks[z][u] # w}
  IN  [z \in Zones |-> [w \in Walls |->
         [f \in Folds |-> CHOOSE t \in When(z, w) : \A u \in When(z, w) :
                            IF f = "first" THEN t <= u ELSE u <= t]]]

TimeWithin ==
  /\ part = "time"
  /\ form'.date \in {3, 4}

Init ==
  /\ part \in Parts
  /\ DraftsInit
  /\ ConnectionsInit
  /\ ReferencesInit
  /\ ResearchInit
  /\ WordsInit
  /\ TimeInit /\ form.date = 3 /\ form.zone = "fall"

Next ==
  \/ /\ part \in DraftParts
     /\ DraftsNext /\ DraftsWithin
     /\ UNCHANGED <<part, connectionVars, referenceVars, researchVars, wordsVars, timeVars>>
  \/ /\ part \in ConnectionParts
     /\ ConnectionsNext /\ ConnectionsWithin
     /\ UNCHANGED <<part, draftVars, referenceVars, researchVars, wordsVars, timeVars>>
  \/ /\ part \in ReferenceParts
     /\ ReferencesNext /\ ReferencesWithin
     /\ UNCHANGED <<part, draftVars, researchVars, wordsVars, timeVars>>
  \/ /\ part \in ResearchParts
     /\ ResearchNext /\ ResearchWithin
     /\ UNCHANGED <<part, draftVars, connectionVars, referenceVars, wordsVars, timeVars>>
  \/ /\ part \in WordsParts
     /\ WordsNext /\ WordsWithin
     /\ UNCHANGED <<part, draftVars, connectionVars, referenceVars, researchVars,
                   timeVars>>
  \/ /\ part \in TimeParts
     /\ TimeNext /\ TimeWithin
     /\ UNCHANGED <<part, draftVars, connectionVars, referenceVars, researchVars,
                   wordsVars>>

Spec == Init /\ [][Next]_vars

(* The rows and the state in memory of every part have their types.        *)
WorkspaceTypeOK ==
  /\ DraftsTypeOK /\ ConnectionsTypeOK /\ ReferencesTypeOK
  /\ ResearchTypeOK /\ WordsTypeOK /\ TimeTypeOK
=============================================================================
