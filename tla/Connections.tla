---------------------------- MODULE Connections -----------------------------
(***************************************************************************)
(* The model connection of a workspace: the owner's choice of provider,    *)
(* the ChatGPT account that is signed in, the owner's consent, and the     *)
(* copy of all that an agent run works with.                               *)
(*                                                                         *)
(* `saved' is the table workspace_settings; `cached' is the store's copy   *)
(* of it in the web process, which everything but the table's own reads    *)
(* and writes goes by.  Both sign-in and refresh work under one lock per   *)
(* workspace, which reads the table before it is given (connection_lock);  *)
(* what happens under it without an outside call is one step.  Collection  *)
(* reads the table without the lock, so its copy may be old when it is     *)
(* put in place.  A record of an account is its subject and the number of  *)
(* its refresh token; `old' holds the tokens whose access has run out.     *)
(***************************************************************************)
EXTENDS Naturals, FiniteSets

CONSTANTS Attempts,   \* sign-in attempts, each with a state value of its own
          Accounts,   \* ChatGPT accounts
          AgentRuns,  \* runs
          Nothing,
          MaxToken    \* bound on the refresh tokens that are ever issued

ASSUME ConnectionsAssumption ==
  MaxToken \in Nat /\ Nothing \notin Accounts \cup AgentRuns

VARIABLES saved, cached,  \* provider and account: the table, the store's copy
          loading,        \* what collection has read and not yet put in place
          attempt,        \* sign-in attempts and the callbacks that end them
          listed,         \* those that _PENDING holds
          since,          \* attempts begun since the last disconnection
          lock,           \* the run that waits for a token under the lock
          page,           \* the fingerprint the disclosure on the page is of
          consent,        \* rows of provider_consents, one per provider
          confirmed,      \* fingerprints whose disclosure the owner confirmed
          agent,          \* runs: the consent they passed, the copy they use
          issued,         \* number of refresh tokens issued
          old,            \* tokens with fewer than five minutes of access left
          spent,          \* refresh tokens that were exchanged for another
          lost            \* an exchanged token's successor was not stored

connectionVars == <<saved, cached, loading, attempt, listed, since, lock, page,
                    consent, confirmed, agent, issued, old, spent, lost>>

Providers == {"ollama", "openrouter", "openai"}
Account   == [subject : Accounts, token : 1..MaxToken]
Settings  == [provider : Providers, oauth : Account \cup {Nothing}]

ASSUME NothingAssumption == Nothing \notin Account

\* Variant: a refreshed token is another configuration
Fingerprint_WithToken(s) ==
  <<s.provider, IF s.provider = "openai" THEN s.oauth ELSE Nothing>>
\* configuration_fingerprint: the account counts only for its own provider.
\* The provider stands for the whole of what the owner types in: the hash also
\* covers the model name and the base URL, which change like it.
Fingerprint(s) ==
  <<s.provider, IF s.provider = "openai" /\ s.oauth # Nothing
                  THEN s.oauth.subject ELSE Nothing>>
Fingerprints == Providers \X (Accounts \cup {Nothing})

ConnectionsTypeOK ==
  /\ saved \in Settings /\ cached \in Settings
  /\ loading \in Settings \cup {Nothing}
  /\ attempt \in [Attempts ->
       [stage : {"new", "pending", "claimed", "exchanged", "over"},
        subject : Accounts \cup {Nothing}, account : Accounts \cup {Nothing}]]
  /\ listed \subseteq since /\ since \subseteq Attempts
  /\ lock \in AgentRuns \cup {Nothing}
  /\ page \in Fingerprints \cup {Nothing}
  /\ consent \subseteq Fingerprints
  /\ confirmed \subseteq Fingerprints
  /\ agent \in [AgentRuns ->
       [stage : {"new", "checked", "copied", "ready", "ended"},
        checked : Fingerprints \cup {Nothing}, copy : Settings \cup {Nothing},
        moved : BOOLEAN]]
  /\ issued \in 0..MaxToken
  /\ old \subseteq 1..MaxToken /\ spent \subseteq 1..MaxToken
  /\ lost \in BOOLEAN

NewRun == [stage |-> "new", checked |-> Nothing, copy |-> Nothing,
           moved |-> FALSE]

ConnectionsInit ==
  /\ saved = [provider |-> "openrouter", oauth |-> Nothing]
  /\ cached = saved
  /\ loading = Nothing
  /\ attempt = [a \in Attempts |->
       [stage |-> "new", subject |-> Nothing, account |-> Nothing]]
  /\ listed = {} /\ since = {}
  /\ lock = Nothing
  /\ page = Nothing /\ consent = {} /\ confirmed = {}
  /\ agent = [r \in AgentRuns |-> NewRun]
  /\ issued = 0 /\ old = {} /\ spent = {} /\ lost = FALSE

-----------------------------------------------------------------------------
(* The store. *)

\* set_many: one transaction, then the store's copy of the keys it wrote.
Put(key, value) ==
  /\ saved' = [saved EXCEPT ![key] = value]
  /\ cached' = [cached EXCEPT ![key] = value]

SaveProvider(p) ==
  /\ p # saved.provider
  /\ Put("provider", p)
  /\ UNCHANGED <<loading, attempt, listed, since, lock, page, consent,
                 confirmed, agent, issued, old, spent, lost>>

\* load, as collection calls it before a poll: read, and later put in place.
BeginLoad ==
  /\ loading = Nothing /\ loading' = saved
  /\ UNCHANGED <<saved, cached, attempt, listed, since, lock, page, consent,
                 confirmed, agent, issued, old, spent, lost>>
EndLoad ==
  /\ loading # Nothing
  /\ cached' = loading /\ loading' = Nothing
  /\ UNCHANGED <<saved, attempt, listed, since, lock, page, consent,
                 confirmed, agent, issued, old, spent, lost>>

\* connection_lock: whoever gets it has the table in the store.
TakesLock == lock = Nothing /\ cached' = saved

-----------------------------------------------------------------------------
(* Signing in and out. *)

SubjectOf(oauth) == IF oauth = Nothing THEN Nothing ELSE oauth.subject

\* start_sign_in reads the account after it has left the lock: what collection
\* read earlier may be in place by then.  Attempts that ran out are dropped.
StartSignIn(a, dropped) ==
  /\ TakesLock
  /\ attempt[a].stage = "new"
  /\ \E seen \in {saved, loading} \ {Nothing} :
       attempt' = [attempt EXCEPT ![a].stage = "pending",
                                  ![a].subject = SubjectOf(seen.oauth)]
  /\ listed' = (listed \ dropped) \cup {a}
  /\ since' = since \cup {a}
  /\ UNCHANGED <<saved, loading, lock, page, consent, confirmed, agent,
                 issued, old, spent, lost>>

\* complete_sign_in: one callback claims an attempt.
ClaimSignIn(a) ==
  /\ a \in listed /\ attempt[a].stage = "pending"
  /\ attempt' = [attempt EXCEPT ![a].stage = "claimed"]
  /\ UNCHANGED <<saved, cached, loading, listed, since, lock, page, consent,
                 confirmed, agent, issued, old, spent, lost>>

\* validate_identity: the account that an attempt began with, if it had one.
Identified(a, account) == attempt[a].subject \in {Nothing, account}

\* The code is exchanged and the identity validated outside the lock.
ExchangeCode(a, account) ==
  /\ attempt[a].stage = "claimed"
  /\ Identified(a, account)
  /\ attempt' = [attempt EXCEPT ![a].stage = "exchanged",
                                ![a].account = account]
  /\ UNCHANGED <<saved, cached, loading, listed, since, lock, page, consent,
                 confirmed, agent, issued, old, spent, lost>>
FailSignIn(a) ==
  /\ attempt[a].stage = "claimed"
  /\ attempt' = [attempt EXCEPT ![a].stage = "over"]
  /\ listed' = listed \ {a}
  /\ UNCHANGED <<saved, cached, loading, since, lock, page, consent,
                 confirmed, agent, issued, old, spent, lost>>

\* Variant: a disconnection cancels nothing
MayReplace_Cancelled(a) ==
  SubjectOf(saved.oauth) \in {Nothing, attempt[a].account}
\* A disconnection cancels it, and an account that is saved is not replaced
\* by another one.
MayReplace(a) ==
  a \in listed /\ SubjectOf(saved.oauth) \in {Nothing, attempt[a].account}

CompleteSignIn(a) ==
  /\ lock = Nothing
  /\ attempt[a].stage = "exchanged"
  /\ IF MayReplace(a)
       THEN /\ issued < MaxToken /\ issued' = issued + 1
            /\ LET record == [subject |-> attempt[a].account,
                              token |-> issued + 1]
               IN  /\ saved' = [saved EXCEPT !.oauth = record]
                   /\ cached' = [saved EXCEPT !.oauth = record]
       ELSE cached' = saved /\ UNCHANGED <<saved, issued>>
  /\ attempt' = [attempt EXCEPT ![a].stage = "over"]
  /\ listed' = listed \ {a}
  /\ UNCHANGED <<loading, since, lock, page, consent, confirmed, agent, old,
                 spent, lost>>

Disconnect ==
  /\ lock = Nothing /\ saved.oauth # Nothing
  /\ saved' = [saved EXCEPT !.oauth = Nothing]
  /\ cached' = saved'
  /\ listed' = {} /\ since' = {}
  /\ UNCHANGED <<loading, attempt, lock, page, consent, confirmed, agent,
                 issued, old, spent, lost>>

-----------------------------------------------------------------------------
(* Consent and runs. *)

\* The page shows what it is asked to consent to: the settings as they are.
Disclosed == Fingerprint(cached)

ShowDisclosure ==
  /\ page # Disclosed /\ page' = Disclosed
  /\ UNCHANGED <<saved, cached, loading, attempt, listed, since, lock,
                 consent, confirmed, agent, issued, old, spent, lost>>

\* grant_consent refuses the fingerprint of an older configuration. A request
\* without one would not be compared; the page always sends it.
PageIsCurrent == page = Fingerprint(cached)

\* One row per provider, which a new consent takes over.
Without(provider) == {f \in consent : f[1] # provider}
WithConsent(f) == Without(f[1]) \cup {f}

GrantConsent ==
  /\ page # Nothing /\ PageIsCurrent
  /\ consent' = WithConsent(Fingerprint(cached))
  /\ confirmed' = confirmed \cup {page}
  /\ UNCHANGED <<saved, cached, loading, attempt, listed, since, lock, page,
                 agent, issued, old, spent, lost>>

RevokeConsent ==
  /\ consent' = Without(cached.provider)
  /\ consent' # consent
  /\ UNCHANGED <<saved, cached, loading, attempt, listed, since, lock, page,
                 confirmed, agent, issued, old, spent, lost>>

\* Variant: consent is per provider
Granted_ByProvider(s) ==
  s.provider = "ollama" \/ \E f \in consent : f[1] = s.provider
\* get_provider_consent: the row counts for the very configuration.
Recorded(f) == f \in consent
\* consent_state: a local model needs none.
Granted(s) == s.provider = "ollama" \/ Recorded(Fingerprint(s))

\* The request for a run passes the check, then its body is read.
CheckConsent(r) ==
  /\ agent[r].stage = "new" /\ Granted(cached)
  /\ agent' = [agent EXCEPT ![r].stage = "checked",
                            ![r].checked = Fingerprint(cached)]
  /\ UNCHANGED <<saved, cached, loading, attempt, listed, since, lock, page,
                 consent, confirmed, issued, old, spent, lost>>

\* ModelRunSettings: the run keeps the values that hold now.
CopySettings(r) ==
  /\ agent[r].stage = "checked"
  /\ agent' = [agent EXCEPT ![r].stage = "copied", ![r].copy = cached,
                 ![r].moved = Fingerprint(cached) # agent[r].checked]
  /\ UNCHANGED <<saved, cached, loading, attempt, listed, since, lock, page,
                 consent, confirmed, issued, old, spent, lost>>

Goes(r, stage) == agent' = [agent EXCEPT ![r].stage = stage]

\* prepare_model: nothing to refresh, or no model to run on.
Usable(copy) ==
  copy.provider = "openai" => /\ copy.oauth # Nothing
                              /\ copy.oauth.token \notin old
PrepareModel(r) ==
  /\ agent[r].stage = "copied"
  /\ \/ Usable(agent[r].copy) /\ Goes(r, "ready")
     \/ /\ agent[r].copy.provider # "openai" \/ agent[r].copy.oauth = Nothing
        /\ Goes(r, "ended")
  /\ UNCHANGED <<saved, cached, loading, attempt, listed, since, lock, page,
                 consent, confirmed, issued, old, spent, lost>>

\* refresh_openai takes the lock with a token that has run out and looks at
\* the account again: it may be gone, another, or refreshed by another run.
SameAccount(r) == SubjectOf(saved.oauth) = agent[r].copy.oauth.subject

\* Variant: the run's own copy
RecordToRefresh_Own(r) == agent[r].copy.oauth
RecordToRefresh(r) == saved.oauth

Refresh(r) ==
  /\ TakesLock
  /\ agent[r].stage = "copied"
  /\ agent[r].copy.provider = "openai" /\ agent[r].copy.oauth # Nothing
  /\ agent[r].copy.oauth.token \in old
  /\ IF SameAccount(r)
       THEN LET record == RecordToRefresh(r) IN
            /\ agent' = [agent EXCEPT ![r].copy.oauth = record,
                 ![r].stage = IF record.token \in old THEN @ ELSE "ready"]
            /\ lock' = IF record.token \in old THEN r ELSE Nothing
       ELSE Goes(r, "ended") /\ UNCHANGED lock
  /\ UNCHANGED <<saved, loading, attempt, listed, since, page, consent,
                 confirmed, issued, old, spent, lost>>

\* The provider's answer, still under the lock: a new token, or the old one
\* with new access (issued as a new number of the same account all the same).
TokenRefreshed ==
  /\ lock # Nothing /\ issued < MaxToken
  /\ LET copy == agent[lock].copy
         record == [copy.oauth EXCEPT !.token = issued + 1]
     IN  /\ Put("oauth", record)
         /\ agent' = [agent EXCEPT ![lock].copy.oauth = record,
                                   ![lock].stage = "ready"]
         /\ spent' = spent \cup {copy.oauth.token}
  /\ issued' = issued + 1
  /\ lock' = Nothing
  /\ UNCHANGED <<loading, attempt, listed, since, page, consent, confirmed,
                 old, lost>>

\* The call fails, or the provider exchanged the token and the answer or the
\* write of its successor is lost.
RefreshFails(exchanged) ==
  /\ lock # Nothing
  /\ Goes(lock, "ended")
  /\ IF exchanged
       THEN lost' = TRUE /\ spent' = spent \cup {agent[lock].copy.oauth.token}
       ELSE UNCHANGED <<lost, spent>>
  /\ lock' = Nothing
  /\ UNCHANGED <<saved, cached, loading, attempt, listed, since, page,
                 consent, confirmed, issued, old>>

\* A run that works comes to its end, however it ends.
EndRun(r) ==
  /\ agent[r].stage = "ready"
  /\ Goes(r, "ended")
  /\ UNCHANGED <<saved, cached, loading, attempt, listed, since, lock, page,
                 consent, confirmed, issued, old, spent, lost>>

\* Access runs out.
Expire(token) ==
  /\ token \in 1..issued \ old
  /\ old' = old \cup {token}
  /\ UNCHANGED <<saved, cached, loading, attempt, listed, since, lock, page,
                 consent, confirmed, agent, issued, spent, lost>>

\* The process starts again: what it kept in memory is gone.
Restart ==
  /\ lock = Nothing
  /\ listed # {} \/ cached # saved
  /\ cached' = saved /\ loading' = Nothing
  /\ attempt' = [a \in Attempts |-> IF attempt[a].stage = "new" THEN attempt[a]
                                    ELSE [attempt[a] EXCEPT !.stage = "over"]]
  /\ listed' = {}
  /\ agent' = [r \in AgentRuns |-> IF agent[r].stage = "new" THEN agent[r]
                                   ELSE [agent[r] EXCEPT !.stage = "ended"]]
  /\ UNCHANGED <<saved, since, lock, page, consent, confirmed, issued, old,
                 spent, lost>>

-----------------------------------------------------------------------------
ConnectionStep ==
  \/ \E p \in Providers : SaveProvider(p)
  \/ BeginLoad
  \/ EndLoad
  \/ \E a \in Attempts, dropped \in SUBSET listed : StartSignIn(a, dropped)
  \/ \E a \in Attempts : ClaimSignIn(a)
  \/ \E a \in Attempts, account \in Accounts : ExchangeCode(a, account)
  \/ \E a \in Attempts : FailSignIn(a)
  \/ \E a \in Attempts : CompleteSignIn(a)
  \/ Disconnect
  \/ ShowDisclosure
  \/ GrantConsent
  \/ RevokeConsent
  \/ \E r \in AgentRuns : CheckConsent(r)
  \/ \E r \in AgentRuns : CopySettings(r)
  \/ \E r \in AgentRuns : PrepareModel(r)
  \/ \E r \in AgentRuns : Refresh(r)
  \/ TokenRefreshed
  \/ \E exchanged \in BOOLEAN : RefreshFails(exchanged)
  \/ \E token \in 1..MaxToken : Expire(token)
  \/ \E r \in AgentRuns : EndRun(r)

ConnectionsNext == ConnectionStep \/ Restart

ConnectionsSpec == ConnectionsInit /\ [][ConnectionsNext]_connectionVars

-----------------------------------------------------------------------------
(* The stored account changes only as the owner asked: where there is none *)
(* one appears only from a sign-in begun after the last disconnection, and *)
(* while there is one a sign-in or a refresh may renew it but never puts   *)
(* another account in its place.                                           *)
AccountIsTheOwners ==
  [][saved'.oauth \notin {saved.oauth, Nothing} =>
       IF saved.oauth = Nothing
         THEN \E a \in since : /\ attempt[a].stage = "exchanged"
                               /\ attempt'[a].stage = "over"
                               /\ saved'.oauth.subject = attempt[a].account
         ELSE saved'.oauth.subject = saved.oauth.subject]_connectionVars

(* Runs that refresh one account at the same time never send a token that  *)
(* another of them has exchanged already, unless an exchanged token's      *)
(* successor was lost.                                                     *)
TokenIsSentOnce ==
  lock # Nothing /\ ~lost => agent[lock].copy.oauth.token \notin spent
=============================================================================
