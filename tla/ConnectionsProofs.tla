-------------------------- MODULE ConnectionsProofs --------------------------
(***************************************************************************)
(* Proofs about the model connection, for all sign-ins, accounts, runs and *)
(* reference channels: types, that no refresh token is sent twice, that    *)
(* the account is the owner's choice, and that runs use and read only what *)
(* the owner agreed to.                                                    *)
(*                                                                         *)
(* The invariant has a part for each group of variables.  LockInv says     *)
(* that a run which refreshes has the account that the table has, which    *)
(* nobody changes while the lock is held; TokensInv that the stored token  *)
(* is one that was not exchanged; RunsInv that a run passed the consent    *)
(* it relies on.                                                           *)
(***************************************************************************)
EXTENDS References, TLAPS

AttemptRecord ==
  [stage : {"new", "pending", "claimed", "exchanged", "over"},
   subject : Accounts \cup {Nothing}, account : Accounts \cup {Nothing}]
RunRecord ==
  [stage : {"new", "checked", "copied", "ready", "ended"},
   checked : Fingerprints \cup {Nothing}, copy : Settings \cup {Nothing},
   moved : BOOLEAN]

StoreInv ==
  /\ saved \in Settings /\ cached \in Settings
  /\ loading \in Settings \cup {Nothing}

SignInInv ==
  /\ attempt \in [Attempts -> AttemptRecord]
  /\ listed \subseteq since /\ since \subseteq Attempts
  /\ \A a \in Attempts :
       attempt[a].stage = "exchanged" => attempt[a].account \in Accounts

ConsentInv ==
  /\ page \in Fingerprints \cup {Nothing}
  /\ confirmed \subseteq Fingerprints /\ consent \subseteq confirmed

\* The owner agreed to it, or it needs no consent.
Agreed(f) == f[1] = "ollama" \/ f \in confirmed

\* A run has passed the check, or has a copy of what was checked.
RunOK(x) ==
  /\ x.stage = "checked" => Agreed(x.checked)
  /\ x.stage \in {"copied", "ready"} =>
       x.copy \in Settings /\ (x.moved \/ Agreed(Fingerprint(x.copy)))

RunsInv ==
  /\ agent \in [AgentRuns -> RunRecord]
  /\ \A r \in AgentRuns : RunOK(agent[r])

\* Whoever refreshes works with the account of the table.
LockInv ==
  /\ lock \in AgentRuns \cup {Nothing}
  /\ lock # Nothing =>
       /\ agent[lock].stage = "copied"
       /\ agent[lock].copy.provider = "openai"
       /\ saved.oauth # Nothing
       /\ agent[lock].copy.oauth = saved.oauth
       /\ saved.oauth.token \in old

\* The stored token was issued, and not exchanged.
TokensInv ==
  /\ issued \in 0..MaxToken
  /\ old \subseteq 1..MaxToken /\ spent \subseteq 1..issued
  /\ lost \in BOOLEAN
  /\ saved.oauth # Nothing =>
       /\ saved.oauth.token <= issued
       /\ ~lost => saved.oauth.token \notin spent

ConnInv ==
  /\ StoreInv /\ SignInInv /\ ConsentInv /\ RunsInv /\ LockInv /\ TokensInv

LEMMA TypesFollow == ConnInv => ConnectionsTypeOK
<1> SUFFICES ASSUME ConnInv PROVE ConnectionsTypeOK
  OBVIOUS
<1>1. spent \subseteq 1..MaxToken
  BY ConnectionsAssumption DEF ConnInv, TokensInv
<1>2. consent \subseteq Fingerprints
  BY DEF ConnInv, ConsentInv
<1> QED
  BY <1>1, <1>2 DEF ConnInv, StoreInv, SignInInv, ConsentInv, RunsInv, LockInv,
     TokensInv, ConnectionsTypeOK, AttemptRecord, RunRecord

-----------------------------------------------------------------------------
(* What is left alone stays true. *)

LEMMA StoreKept ==
  ASSUME ConnInv, UNCHANGED <<saved, cached, loading>>
  PROVE  StoreInv'
BY DEF ConnInv, StoreInv

LEMMA SignInKept ==
  ASSUME ConnInv, UNCHANGED <<attempt, listed, since>>
  PROVE  SignInInv'
BY DEF ConnInv, SignInInv

LEMMA ConsentKept ==
  ASSUME ConnInv, UNCHANGED <<page, consent, confirmed>>
  PROVE  ConsentInv'
BY DEF ConnInv, ConsentInv

LEMMA RunsKept ==
  ASSUME ConnInv, UNCHANGED agent, confirmed \subseteq confirmed'
  PROVE  RunsInv'
BY DEF ConnInv, RunsInv, RunOK, Agreed, Fingerprint

LEMMA LockKept ==
  ASSUME ConnInv, UNCHANGED <<agent, lock>>, saved'.oauth = saved.oauth,
         old \subseteq old'
  PROVE  LockInv'
BY DEF ConnInv, LockInv

LEMMA TokensKept ==
  ASSUME ConnInv, UNCHANGED <<issued, spent, lost>>, saved'.oauth = saved.oauth,
         old' \subseteq 1..MaxToken
  PROVE  TokensInv'
BY DEF ConnInv, TokensInv

\* One run changes.
LEMMA RunPut ==
  ASSUME ConnInv, NEW r \in AgentRuns, NEW x \in RunRecord, RunOK(x),
         agent' = [agent EXCEPT ![r] = x], UNCHANGED confirmed
  PROVE  RunsInv'
<1>1. agent' \in [AgentRuns -> RunRecord]
  BY DEF ConnInv, RunsInv
<1>2. \A s \in AgentRuns : agent'[s] = x \/ agent'[s] = agent[s]
  BY DEF ConnInv, RunsInv
<1>3. \A s \in AgentRuns : RunOK(agent'[s])
  BY <1>2 DEF ConnInv, RunsInv
<1> QED
  BY <1>1, <1>3 DEF RunsInv, RunOK, Agreed, Fingerprint

\* Another run than the one that refreshes changes.
LEMMA LockOther ==
  ASSUME ConnInv, NEW r \in AgentRuns, r # lock, NEW x,
         agent' = [agent EXCEPT ![r] = x], UNCHANGED <<saved, lock, old>>
  PROVE  LockInv'
<1>1. lock # Nothing => agent'[lock] = agent[lock]
  BY DEF ConnInv, LockInv, RunsInv
<1> QED
  BY <1>1 DEF ConnInv, LockInv

LEMMA LockFree ==
  ASSUME lock' = Nothing
  PROVE  LockInv'
BY DEF LockInv

\* A fingerprint says the provider first.
LEMMA FingerprintType ==
  ASSUME NEW s \in Settings
  PROVE  Fingerprint(s) \in Fingerprints /\ Fingerprint(s)[1] = s.provider
BY DEF Fingerprint, Fingerprints, Settings, Account, Providers

\* What is granted was agreed to.
LEMMA GrantedIsAgreed ==
  ASSUME ConnInv, NEW s \in Settings, Granted(s)
  PROVE  Agreed(Fingerprint(s))
BY FingerprintType DEF Granted, Recorded, Agreed, ConnInv, ConsentInv

-----------------------------------------------------------------------------
(* The store and sign-in. *)

LEMMA StoreSteps ==
  ASSUME ConnInv,
         \/ \E p \in Providers : SaveProvider(p)
         \/ BeginLoad \/ EndLoad
  PROVE  ConnInv'
<1>1. /\ saved' \in Settings /\ cached' \in Settings
      /\ loading' \in Settings \cup {Nothing} /\ saved'.oauth = saved.oauth
  BY DEF ConnInv, StoreInv, SaveProvider, Put, BeginLoad, EndLoad, Settings
<1>2. UNCHANGED <<attempt, listed, since, lock, page, consent, confirmed, agent,
                  issued, old, spent, lost>>
  BY DEF SaveProvider, BeginLoad, EndLoad
<1>3. old' \subseteq 1..MaxToken
  BY <1>2 DEF ConnInv, TokensInv
<1> QED
  BY <1>1, <1>2, <1>3, SignInKept, ConsentKept, RunsKept, LockKept, TokensKept
     DEF ConnInv, StoreInv

LEMMA StartStep ==
  ASSUME ConnInv, NEW a \in Attempts, NEW dropped \in SUBSET listed,
         StartSignIn(a, dropped)
  PROVE  ConnInv'
<1>1. UNCHANGED <<saved, loading, lock, page, consent, confirmed, agent, issued,
                  old, spent, lost>>
  BY DEF StartSignIn
<1>2. StoreInv'
  BY <1>1 DEF StartSignIn, TakesLock, ConnInv, StoreInv
<1>3. SignInInv'
  <2>1. PICK seen \in {saved, loading} \ {Nothing} :
          attempt' = [attempt EXCEPT ![a].stage = "pending",
                                     ![a].subject = SubjectOf(seen.oauth)]
    BY DEF StartSignIn
  <2>2. seen \in Settings
    BY DEF ConnInv, StoreInv
  <2>3. SubjectOf(seen.oauth) \in Accounts \cup {Nothing}
    BY <2>2 DEF SubjectOf, Settings, Account
  <2>4. attempt' \in [Attempts -> AttemptRecord]
    BY <2>1, <2>3 DEF ConnInv, SignInInv, AttemptRecord
  <2>5. \A b \in Attempts : attempt'[b].stage = "exchanged" =>
                              attempt'[b] = attempt[b]
    BY <2>1 DEF ConnInv, SignInInv, AttemptRecord
  <2> QED
    BY <2>4, <2>5 DEF StartSignIn, ConnInv, SignInInv
<1>4. old' \subseteq 1..MaxToken
  BY <1>1 DEF ConnInv, TokensInv
<1> QED
  BY <1>1, <1>2, <1>3, <1>4, ConsentKept, RunsKept, LockKept, TokensKept
     DEF ConnInv

LEMMA CallbackSteps ==
  ASSUME ConnInv, NEW a \in Attempts,
         \/ ClaimSignIn(a) \/ FailSignIn(a)
         \/ \E account \in Accounts : ExchangeCode(a, account)
  PROVE  ConnInv'
<1>1. UNCHANGED <<saved, cached, loading, since, lock, page, consent, confirmed,
                  agent, issued, old, spent, lost>>
  BY DEF ClaimSignIn, FailSignIn, ExchangeCode
<1>2. SignInInv'
  <2>1. CASE ClaimSignIn(a)
    BY <2>1 DEF ClaimSignIn, ConnInv, SignInInv, AttemptRecord
  <2>2. CASE FailSignIn(a)
    BY <2>2 DEF FailSignIn, ConnInv, SignInInv, AttemptRecord
  <2>3. ASSUME NEW account \in Accounts, ExchangeCode(a, account)
        PROVE  SignInInv'
    <3> DEFINE x == [attempt[a] EXCEPT !.stage = "exchanged",
                                       !.account = account]
    <3>1. attempt' = [attempt EXCEPT ![a] = x]
      BY <2>3 DEF ExchangeCode
    <3>2. x \in AttemptRecord /\ x.account \in Accounts
      BY DEF ConnInv, SignInInv, AttemptRecord
    <3>3. \A b \in Attempts : attempt'[b] = x \/ attempt'[b] = attempt[b]
      BY <3>1 DEF ConnInv, SignInInv
    <3>4. attempt' \in [Attempts -> AttemptRecord]
      BY <3>1, <3>2 DEF ConnInv, SignInInv
    <3> QED
      BY <1>1, <2>3, <3>2, <3>3, <3>4 DEF ExchangeCode, ConnInv, SignInInv
  <2> QED
    BY <2>1, <2>2, <2>3
<1>3. old' \subseteq 1..MaxToken
  BY <1>1 DEF ConnInv, TokensInv
<1> QED
  BY <1>1, <1>2, <1>3, StoreKept, ConsentKept, RunsKept, LockKept, TokensKept
     DEF ConnInv

LEMMA CompleteStep ==
  ASSUME ConnInv, NEW a \in Attempts, CompleteSignIn(a)
  PROVE  ConnInv'
<1> DEFINE record == [subject |-> attempt[a].account, token |-> issued + 1]
<1>1. UNCHANGED <<loading, since, lock, page, consent, confirmed, agent, old,
                  spent, lost>>
  BY DEF CompleteSignIn
<1>2. SignInInv'
  BY DEF CompleteSignIn, ConnInv, SignInInv, AttemptRecord
<1>3. LockInv'
  BY <1>1, LockFree DEF CompleteSignIn
<1>4. StoreInv' /\ TokensInv'
  <2>1. CASE MayReplace(a)
    <3>1. attempt[a].account \in Accounts
      BY DEF CompleteSignIn, ConnInv, SignInInv
    <3>2. issued + 1 \in 1..MaxToken /\ issued \in Nat
      BY <2>1, ConnectionsAssumption DEF CompleteSignIn, ConnInv, TokensInv
    <3>3. record \in Account
      BY <3>1, <3>2 DEF Account
    <3>4. /\ saved' = [saved EXCEPT !.oauth = record]
          /\ cached' = [saved EXCEPT !.oauth = record] /\ issued' = issued + 1
      BY <2>1 DEF CompleteSignIn
    <3>5. saved' \in Settings /\ cached' \in Settings /\ saved'.oauth = record
      BY <3>3, <3>4 DEF ConnInv, StoreInv, Settings
    <3>6. StoreInv'
      BY <1>1, <3>5 DEF ConnInv, StoreInv
    <3>7. record.token = issued + 1 /\ record.token \notin spent
      BY <3>2 DEF ConnInv, TokensInv
    <3>8. TokensInv'
      BY <1>1, <3>2, <3>4, <3>5, <3>7 DEF ConnInv, TokensInv
    <3> QED
      BY <3>6, <3>8
  <2>2. CASE ~MayReplace(a)
    BY <1>1, <2>2 DEF CompleteSignIn, ConnInv, StoreInv, TokensInv
  <2> QED
    BY <2>1, <2>2
<1> QED
  BY <1>1, <1>2, <1>3, <1>4, ConsentKept, RunsKept DEF ConnInv

LEMMA DisconnectStep ==
  ASSUME ConnInv, Disconnect
  PROVE  ConnInv'
<1>1. UNCHANGED <<loading, attempt, lock, page, consent, confirmed, agent,
                  issued, old, spent, lost>>
  BY DEF Disconnect
<1>2. saved' \in Settings /\ cached' = saved' /\ saved'.oauth = Nothing
  BY DEF Disconnect, ConnInv, StoreInv, Settings
<1>3. StoreInv' /\ TokensInv'
  BY <1>1, <1>2 DEF ConnInv, StoreInv, TokensInv
<1>4. SignInInv'
  BY <1>1 DEF Disconnect, ConnInv, SignInInv
<1>5. LockInv'
  BY <1>1, LockFree DEF Disconnect
<1> QED
  BY <1>1, <1>3, <1>4, <1>5, ConsentKept, RunsKept DEF ConnInv

-----------------------------------------------------------------------------
(* Consent. *)

LEMMA ConsentSteps ==
  ASSUME ConnInv, ShowDisclosure \/ GrantConsent \/ RevokeConsent
  PROVE  ConnInv'
<1>1. UNCHANGED <<saved, cached, loading, attempt, listed, since, lock, agent,
                  issued, old, spent, lost>>
  BY DEF ShowDisclosure, GrantConsent, RevokeConsent
<1>2. Fingerprint(cached) \in Fingerprints
  BY FingerprintType DEF ConnInv, StoreInv
<1>3. ConsentInv' /\ confirmed \subseteq confirmed'
  BY <1>2 DEF ShowDisclosure, Disclosed, GrantConsent, PageIsCurrent,
     WithConsent, RevokeConsent, Without, ConnInv, ConsentInv
<1>4. old' \subseteq 1..MaxToken
  BY <1>1 DEF ConnInv, TokensInv
<1> QED
  BY <1>1, <1>3, <1>4, StoreKept, SignInKept, RunsKept, LockKept, TokensKept
     DEF ConnInv

-----------------------------------------------------------------------------
(* Runs. *)

\* A run that does not refresh takes a step of its own.
LEMMA RunSteps ==
  ASSUME ConnInv, NEW r \in AgentRuns,
         CheckConsent(r) \/ CopySettings(r) \/ PrepareModel(r) \/ EndRun(r)
  PROVE  ConnInv'
<1>1. UNCHANGED <<saved, cached, loading, attempt, listed, since, lock, page,
                  consent, confirmed, issued, old, spent, lost>>
  BY DEF CheckConsent, CopySettings, PrepareModel, EndRun
<1>2. agent[r] \in RunRecord /\ RunOK(agent[r]) /\ cached \in Settings
  BY DEF ConnInv, RunsInv, StoreInv
<1>3. r # lock
  <2>1. CASE lock = r
    BY <2>1, ConnectionsAssumption DEF ConnInv, LockInv, CheckConsent,
       CopySettings, PrepareModel, Usable, EndRun
  <2> QED
    BY <2>1
<1>4. PICK x \in RunRecord : RunOK(x) /\ agent' = [agent EXCEPT ![r] = x]
  <2>1. CASE CheckConsent(r)
    <3> DEFINE x == [agent[r] EXCEPT !.stage = "checked",
                                     !.checked = Fingerprint(cached)]
    <3>1. /\ x \in RunRecord
          /\ x.stage = "checked" /\ x.checked = Fingerprint(cached)
      BY <1>2, FingerprintType DEF RunRecord
    <3>2. Agreed(Fingerprint(cached))
      BY <1>2, <2>1, GrantedIsAgreed DEF CheckConsent
    <3> QED
      BY <2>1, <3>1, <3>2 DEF CheckConsent, RunOK
  <2>2. CASE CopySettings(r)
    <3> DEFINE moved == Fingerprint(cached) # agent[r].checked
               x == [agent[r] EXCEPT !.stage = "copied", !.copy = cached,
                                     !.moved = moved]
    <3>1. /\ x \in RunRecord
          /\ x.stage = "copied" /\ x.copy = cached /\ x.moved = moved
      BY <1>2 DEF RunRecord
    <3>2. moved \/ Agreed(Fingerprint(cached))
      BY <1>2, <2>2 DEF CopySettings, RunOK
    <3>3. RunOK(x)
      BY <1>2, <3>1, <3>2 DEF RunOK
    <3> QED
      BY <2>2, <3>1, <3>3 DEF CopySettings
  <2>3. CASE PrepareModel(r) \/ EndRun(r)
    <3>1. PICK stage \in {"ready", "ended"} :
            agent' = [agent EXCEPT ![r].stage = stage]
      BY <2>3 DEF PrepareModel, EndRun, Goes
    <3> DEFINE x == [agent[r] EXCEPT !.stage = stage]
    <3>2. /\ x \in RunRecord /\ x.stage = stage
          /\ x.copy = agent[r].copy /\ x.moved = agent[r].moved
      BY <1>2 DEF RunRecord
    <3>3. agent[r].stage \in {"copied", "ready"}
      BY <2>3 DEF PrepareModel, EndRun
    <3>4. RunOK(x)
      BY <1>2, <3>2, <3>3 DEF RunOK
    <3> QED
      BY <3>1, <3>2, <3>4
  <2> QED
    BY <2>1, <2>2, <2>3
<1>5. RunsInv' /\ LockInv'
  BY <1>1, <1>3, <1>4, RunPut, LockOther
<1>6. old' \subseteq 1..MaxToken
  BY <1>1 DEF ConnInv, TokensInv
<1> QED
  BY <1>1, <1>5, <1>6, StoreKept, SignInKept, ConsentKept, TokensKept
     DEF ConnInv

\* The lock is free and the account the run's own: the run takes the record of
\* the table, and the lock if that has run out too.
LEMMA RefreshStep ==
  ASSUME ConnInv, NEW r \in AgentRuns, Refresh(r)
  PROVE  ConnInv'
<1>1. UNCHANGED <<saved, loading, attempt, listed, since, page, consent,
                  confirmed, issued, old, spent, lost>> /\ cached' = saved
  BY DEF Refresh, TakesLock
<1>2. /\ agent[r] \in RunRecord /\ RunOK(agent[r]) /\ saved \in Settings
      /\ agent[r].stage = "copied" /\ agent[r].copy \in Settings
      /\ agent[r].copy.provider = "openai" /\ agent[r].copy.oauth \in Account
  BY DEF ConnInv, RunsInv, RunOK, StoreInv, Refresh, Settings
<1>3. StoreInv'
  BY <1>1 DEF ConnInv, StoreInv
<1>4. CASE SameAccount(r)
  <2> DEFINE record == saved.oauth
             stage == IF record.token \in old THEN "copied" ELSE "ready"
             x == [agent[r] EXCEPT !.copy.oauth = record, !.stage = stage]
  <2>1. record \in Account /\ record # Nothing
        /\ record.subject = agent[r].copy.oauth.subject
    BY <1>2, <1>4, ConnectionsAssumption
       DEF SameAccount, SubjectOf, Settings, Account
  <2>2. /\ agent' = [agent EXCEPT ![r] = x]
        /\ lock' = IF record.token \in old THEN r ELSE Nothing
    BY <1>2, <1>4 DEF Refresh, RecordToRefresh
  <2>3. [agent[r].copy EXCEPT !.oauth = record] \in Settings
    BY <1>2, <2>1 DEF Settings
  <2>4. /\ x \in RunRecord /\ x.stage = stage /\ x.moved = agent[r].moved
        /\ x.copy \in Settings
        /\ x.copy.provider = "openai" /\ x.copy.oauth = record
    BY <1>2, <2>3 DEF RunRecord, Settings
  <2>5. Fingerprint(x.copy) = Fingerprint(agent[r].copy)
    BY <1>2, <2>1, <2>4, ConnectionsAssumption DEF Fingerprint, Refresh
  <2>6. RunOK(x)
    BY <1>2, <2>4, <2>5 DEF RunOK
  <2>7. RunsInv'
    BY <1>1, <2>2, <2>4, <2>6, RunPut
  <2>8. LockInv'
    <3>1. CASE record.token \in old
      <4>1. lock' = r /\ agent'[r] = x
        BY <2>2, <3>1 DEF ConnInv, RunsInv
      <4> QED
        BY <1>1, <2>1, <2>4, <3>1, <4>1 DEF LockInv
    <3>2. CASE record.token \notin old
      BY <2>2, <3>2, LockFree
    <3> QED
      BY <3>1, <3>2
  <2> QED
    BY <1>1, <1>3, <2>7, <2>8, SignInKept, ConsentKept, TokensKept
       DEF ConnInv, TokensInv
<1>5. CASE ~SameAccount(r)
  <2> DEFINE x == [agent[r] EXCEPT !.stage = "ended"]
  <2>1. agent' = [agent EXCEPT ![r] = x] /\ lock' = Nothing
    BY <1>5 DEF Refresh, TakesLock, Goes
  <2>2. x \in RunRecord /\ x.stage = "ended"
    BY <1>2 DEF RunRecord
  <2>3. RunOK(x)
    BY <2>2 DEF RunOK
  <2>4. RunsInv' /\ LockInv'
    BY <1>1, <2>1, <2>2, <2>3, RunPut, LockFree
  <2> QED
    BY <1>1, <1>3, <2>4, SignInKept, ConsentKept, TokensKept
       DEF ConnInv, TokensInv
<1> QED
  BY <1>4, <1>5

LEMMA RefreshedStep ==
  ASSUME ConnInv, TokenRefreshed
  PROVE  ConnInv'
<1> DEFINE record == [agent[lock].copy.oauth EXCEPT !.token = issued + 1]
           x == [agent[lock] EXCEPT !.copy.oauth = record, !.stage = "ready"]
<1>1. UNCHANGED <<loading, attempt, listed, since, page, consent, confirmed, old,
                  lost>> /\ lock' = Nothing
  BY DEF TokenRefreshed
<1>2. /\ lock \in AgentRuns /\ agent[lock] \in RunRecord /\ RunOK(agent[lock])
      /\ agent[lock].stage = "copied" /\ agent[lock].copy \in Settings
      /\ agent[lock].copy.provider = "openai"
      /\ saved.oauth # Nothing /\ agent[lock].copy.oauth = saved.oauth
      /\ saved.oauth \in Account /\ saved \in Settings /\ cached \in Settings
  BY DEF ConnInv, StoreInv, RunsInv, RunOK, LockInv, TokenRefreshed, Settings
<1>3. issued + 1 \in 1..MaxToken /\ issued \in Nat
  BY ConnectionsAssumption DEF TokenRefreshed, ConnInv, TokensInv
<1>4. /\ record \in Account /\ record.subject = saved.oauth.subject
      /\ record.token = issued + 1
  BY <1>2, <1>3 DEF Account
<1>5. /\ saved' = [saved EXCEPT !["oauth"] = record]
      /\ cached' = [cached EXCEPT !["oauth"] = record]
      /\ agent' = [agent EXCEPT ![lock] = x]
      /\ spent' = spent \cup {saved.oauth.token} /\ issued' = issued + 1
  BY <1>2 DEF TokenRefreshed, Put
<1>6. saved' \in Settings /\ cached' \in Settings /\ saved'.oauth = record
  BY <1>2, <1>4, <1>5 DEF Settings
<1>7. StoreInv'
  BY <1>1, <1>6 DEF ConnInv, StoreInv
<1>8. TokensInv'
  <2>1. saved.oauth.token \in 1..issued
    BY <1>2, <1>3 DEF ConnInv, TokensInv, Account
  <2>2. spent' \subseteq 1..issued /\ issued' \in 0..MaxToken
    BY <1>3, <1>5, <2>1 DEF ConnInv, TokensInv
  <2>3. spent' \subseteq 1..issued'
    BY <1>3, <1>5, <2>2
  <2>4. saved'.oauth.token = issued' /\ saved'.oauth.token \notin spent'
    <3> HIDE DEF record
    <3>1. saved'.oauth.token = issued + 1
      BY <1>4, <1>6
    <3>2. issued + 1 \notin spent' /\ issued' = issued + 1
      BY <1>3, <1>5, <2>2
    <3> QED
      BY <3>1, <3>2
  <2>5. saved'.oauth.token <= issued'
    BY <2>2, <2>4
  <2>6. old' \subseteq 1..MaxToken /\ lost' \in BOOLEAN
    BY <1>1 DEF ConnInv, TokensInv
  <2> QED
    BY <2>2, <2>3, <2>4, <2>5, <2>6 DEF TokensInv
<1>9. RunsInv'
  <2>1. [agent[lock].copy EXCEPT !.oauth = record] \in Settings
    BY <1>2, <1>4 DEF Settings
  <2>2. /\ x \in RunRecord /\ x.stage = "ready" /\ x.moved = agent[lock].moved
        /\ x.copy \in Settings
        /\ x.copy.provider = "openai" /\ x.copy.oauth = record
    BY <1>2, <2>1 DEF RunRecord, Settings
  <2>3. Fingerprint(x.copy) = Fingerprint(agent[lock].copy) \/ record = Nothing
    BY <1>2, <1>4, <2>2 DEF Fingerprint
  <2>4. record # Nothing
    BY <1>4, NothingAssumption
  <2>5. RunOK(x)
    BY <1>2, <2>2, <2>3, <2>4 DEF RunOK
  <2> QED
    BY <1>1, <1>2, <1>5, <2>2, <2>5, RunPut
<1> QED
  BY <1>1, <1>7, <1>8, <1>9, SignInKept, ConsentKept, LockFree DEF ConnInv

LEMMA RefreshFailsStep ==
  ASSUME ConnInv, NEW exchanged \in BOOLEAN, RefreshFails(exchanged)
  PROVE  ConnInv'
<1> DEFINE x == [agent[lock] EXCEPT !.stage = "ended"]
<1>1. UNCHANGED <<saved, cached, loading, attempt, listed, since, page, consent,
                  confirmed, issued, old>> /\ lock' = Nothing
  BY DEF RefreshFails
<1>2. /\ lock \in AgentRuns /\ agent[lock] \in RunRecord
      /\ agent[lock].copy.oauth = saved.oauth /\ saved.oauth # Nothing
      /\ saved.oauth \in Account
  BY DEF ConnInv, StoreInv, RunsInv, LockInv, RefreshFails, Settings
<1>3. RunsInv'
  <2>1. x \in RunRecord /\ x.stage = "ended"
    BY <1>2 DEF RunRecord
  <2>2. RunOK(x)
    BY <2>1 DEF RunOK
  <2>3. agent' = [agent EXCEPT ![lock] = x]
    BY DEF RefreshFails, Goes
  <2> QED
    BY <1>1, <1>2, <2>1, <2>2, <2>3, RunPut
<1>4. TokensInv'
  <2>1. saved.oauth.token \in 1..issued /\ issued \in Nat
    BY <1>2 DEF ConnInv, TokensInv, Account
  <2>2. CASE exchanged
    BY <1>1, <1>2, <2>1, <2>2 DEF RefreshFails, ConnInv, TokensInv
  <2>3. CASE ~exchanged
    BY <1>1, <2>3, TokensKept DEF RefreshFails, ConnInv, TokensInv
  <2> QED
    BY <2>2, <2>3
<1> QED
  BY <1>1, <1>3, <1>4, StoreKept, SignInKept, ConsentKept, LockFree DEF ConnInv

LEMMA ExpireStep ==
  ASSUME ConnInv, NEW token \in 1..MaxToken, Expire(token)
  PROVE  ConnInv'
<1>1. UNCHANGED <<saved, cached, loading, attempt, listed, since, lock, page,
                  consent, confirmed, agent, issued, spent, lost>>
  BY DEF Expire
<1>2. old' \subseteq 1..MaxToken /\ old \subseteq old'
  BY DEF Expire, ConnInv, TokensInv
<1> QED
  BY <1>1, <1>2, StoreKept, SignInKept, ConsentKept, RunsKept, LockKept,
     TokensKept DEF ConnInv

LEMMA RestartStep ==
  ASSUME ConnInv, Restart
  PROVE  ConnInv'
<1>1. UNCHANGED <<saved, since, lock, page, consent, confirmed, issued, old,
                  spent, lost>>
  BY DEF Restart
<1>2. StoreInv'
  BY <1>1 DEF Restart, ConnInv, StoreInv
<1>3. SignInInv'
  <2>1. \A a \in Attempts :
          /\ attempt'[a] \in AttemptRecord
          /\ attempt'[a].stage = "exchanged" => attempt'[a] = attempt[a]
    BY DEF Restart, ConnInv, SignInInv, AttemptRecord
  <2> QED
    BY <1>1, <2>1 DEF Restart, ConnInv, SignInInv
<1>4. RunsInv'
  <2>1. \A r \in AgentRuns :
          /\ agent'[r] \in RunRecord
          /\ agent'[r] = agent[r] \/ agent'[r].stage = "ended"
    BY DEF Restart, ConnInv, RunsInv, RunRecord
  <2>2. \A r \in AgentRuns : RunOK(agent'[r])
    BY <2>1 DEF ConnInv, RunsInv, RunOK
  <2>3. agent' \in [AgentRuns -> RunRecord]
    BY <2>1 DEF Restart
  <2> QED
    BY <1>1, <2>2, <2>3 DEF RunsInv, RunOK, Agreed, Fingerprint
<1> QED
  BY <1>1, <1>2, <1>3, <1>4, ConsentKept, TokensKept, LockFree
     DEF Restart, ConnInv, TokensInv

-----------------------------------------------------------------------------
(* Theorems about the connection. *)

LEMMA ConnInitOK == ConnectionsInit => ConnInv
<1> SUFFICES ASSUME ConnectionsInit PROVE ConnInv
  OBVIOUS
<1>1. StoreInv
  BY DEF ConnectionsInit, StoreInv, Settings, Providers
<1>2. SignInInv
  BY DEF ConnectionsInit, SignInInv, AttemptRecord
<1>3. ConsentInv /\ LockInv
  BY DEF ConnectionsInit, ConsentInv, LockInv
<1>4. RunsInv
  BY DEF ConnectionsInit, NewRun, RunsInv, RunRecord, RunOK
<1>5. TokensInv
  <2>1. saved.oauth = Nothing
    BY DEF ConnectionsInit
  <2>2. issued \in 0..MaxToken
    BY ConnectionsAssumption DEF ConnectionsInit
  <2>3. spent = {} /\ old = {} /\ lost = FALSE
    BY DEF ConnectionsInit
  <2> QED
    BY <2>1, <2>2, <2>3 DEF TokensInv
<1> QED
  BY <1>1, <1>2, <1>3, <1>4, <1>5 DEF ConnInv

LEMMA ConnNextOK ==
  ASSUME ConnInv, ConnectionsNext
  PROVE  ConnInv'
BY StoreSteps, StartStep, CallbackSteps, CompleteStep, DisconnectStep,
   ConsentSteps, RunSteps, RefreshStep, RefreshedStep, RefreshFailsStep,
   ExpireStep, RestartStep DEF ConnectionsNext, ConnectionStep

LEMMA ConnStutterOK ==
  ASSUME ConnInv, UNCHANGED connectionVars
  PROVE  ConnInv'
<1>1. old' \subseteq 1..MaxToken
  BY DEF connectionVars, ConnInv, TokensInv
<1> QED
  BY <1>1, StoreKept, SignInKept, ConsentKept, RunsKept, LockKept, TokensKept
     DEF connectionVars, ConnInv

LEMMA ConnStepOK == ConnInv /\ [ConnectionsNext]_connectionVars => ConnInv'
BY ConnNextOK, ConnStutterOK

\* The settings, sign-ins, consents and runs have their types, always.
THEOREM ConnectionsAreTyped == ConnectionsSpec => []ConnectionsTypeOK
BY TypesFollow, ConnInitOK, ConnStepOK, PTL DEF ConnectionsSpec

\* A refresh under the lock never sends a token that was exchanged already, as
\* long as no exchanged token's successor was lost: refresh_openai looks at the
\* table again once it has the lock, and nobody else writes the account then.
THEOREM NoTokenTwice == ConnectionsSpec => []TokenIsSentOnce
<1>1. ConnInv => TokenIsSentOnce
  BY DEF ConnInv, LockInv, TokensInv, TokenIsSentOnce
<1> QED
  BY <1>1, ConnInitOK, ConnStepOK, PTL DEF ConnectionsSpec

LEMMA AccountStep ==
  ASSUME ConnInv, ConnectionsNext, saved'.oauth \notin {saved.oauth, Nothing}
  PROVE  IF saved.oauth = Nothing
           THEN \E a \in since : /\ attempt[a].stage = "exchanged"
                                 /\ attempt'[a].stage = "over"
                                 /\ saved'.oauth.subject = attempt[a].account
           ELSE saved'.oauth.subject = saved.oauth.subject
<1>1. CASE TokenRefreshed
  <2>1. /\ saved.oauth # Nothing /\ agent[lock].copy.oauth = saved.oauth
        /\ saved.oauth \in Account /\ saved \in Settings
    BY <1>1 DEF TokenRefreshed, ConnInv, LockInv, StoreInv, Settings
  <2>2. saved'.oauth = [saved.oauth EXCEPT !.token = issued + 1]
    BY <1>1, <2>1 DEF TokenRefreshed, Put, Settings
  <2> QED
    BY <2>1, <2>2 DEF Account
<1>2. ASSUME NEW a \in Attempts, CompleteSignIn(a)
      PROVE  IF saved.oauth = Nothing
               THEN \E b \in since : /\ attempt[b].stage = "exchanged"
                                     /\ attempt'[b].stage = "over"
                                     /\ saved'.oauth.subject = attempt[b].account
               ELSE saved'.oauth.subject = saved.oauth.subject
  <2> DEFINE record == [subject |-> attempt[a].account, token |-> issued + 1]
  <2>1. MayReplace(a) /\ attempt[a].stage = "exchanged"
    BY <1>2 DEF CompleteSignIn
  <2>2. saved' = [saved EXCEPT !.oauth = record]
    BY <1>2, <2>1 DEF CompleteSignIn
  <2>3. saved'.oauth.subject = attempt[a].account
    BY <2>2 DEF ConnInv, StoreInv, Settings
  <2>4. a \in since /\ attempt'[a].stage = "over"
    BY <1>2, <2>1 DEF CompleteSignIn, MayReplace, ConnInv, SignInInv,
       AttemptRecord
  <2>5. CASE saved.oauth # Nothing
    <3>1. saved.oauth.subject \in {Nothing, attempt[a].account}
      BY <2>1, <2>5 DEF MayReplace, SubjectOf
    <3>2. saved.oauth.subject # Nothing
      BY <2>5, ConnectionsAssumption DEF ConnInv, StoreInv, Settings, Account
    <3> QED
      BY <2>3, <2>5, <3>1, <3>2
  <2> QED
    BY <2>1, <2>3, <2>4, <2>5
<1>3. CASE saved'.oauth \in {saved.oauth, Nothing}
  BY <1>3
<1>4. \/ TokenRefreshed \/ \E a \in Attempts : CompleteSignIn(a)
      \/ saved'.oauth \in {saved.oauth, Nothing}
  <2>1. \A p \in Providers : SaveProvider(p) => saved'.oauth = saved.oauth
    BY DEF SaveProvider, Put, ConnInv, StoreInv, Settings
  <2>2. Disconnect => saved'.oauth = Nothing
    BY DEF Disconnect, ConnInv, StoreInv, Settings
  <2> QED
    BY <2>1, <2>2 DEF ConnectionsNext, ConnectionStep, BeginLoad, EndLoad,
       StartSignIn, ClaimSignIn, ExchangeCode, FailSignIn, ShowDisclosure,
       GrantConsent, RevokeConsent, CheckConsent, CopySettings, PrepareModel,
       Refresh, RefreshFails, Expire, EndRun, Restart
<1> QED
  BY <1>1, <1>2, <1>3, <1>4

\* The stored account changes only as the owner asked: a sign-in from before a
\* disconnection, or of another account, and a refresh never put one there.
THEOREM OnlyTheOwnersAccount == ConnectionsSpec => AccountIsTheOwners
<1> DEFINE Step ==
      saved'.oauth \notin {saved.oauth, Nothing} =>
        IF saved.oauth = Nothing
          THEN \E a \in since : /\ attempt[a].stage = "exchanged"
                                /\ attempt'[a].stage = "over"
                                /\ saved'.oauth.subject = attempt[a].account
          ELSE saved'.oauth.subject = saved.oauth.subject
<1>1. ConnInv /\ [ConnectionsNext]_connectionVars => [Step]_connectionVars
  BY AccountStep
<1> QED
  BY <1>1, ConnInitOK, ConnStepOK, PTL DEF ConnectionsSpec, AccountIsTheOwners

-----------------------------------------------------------------------------
(* Reference channels. *)

\* A reading run is at work, and what it reads is permitted to its settings.
ReadingInv ==
  \A r \in AgentRuns : reading[r] # Nothing =>
    /\ agent[r].stage = "ready"
    /\ \/ r \in raced
       \/ /\ Enabled(reading[r])
          /\ reference[reading[r]].of = Fingerprint(agent[r].copy)

\* After its look for an active run a request takes every run that goes on for
\* one that began since.
UnseenInv ==
  \A b \in Panels : choosing[b] # Nothing /\ choosing[b].stage = "checked" =>
    \A r \in AgentRuns : agent[r].stage # "ended" => r \in choosing[b].unseen

RefInv == ConnInv /\ ReferencesTypeOK /\ ReadingInv /\ UnseenInv

\* No run starts again once it ended, and a run at work keeps its settings.
LEMMA RunsGoOn ==
  ASSUME ConnInv, ConnectionsNext, NEW r \in AgentRuns
  PROVE  /\ agent[r].stage = "ended" => agent'[r].stage = "ended"
         /\ agent[r].stage = "ready" => agent'[r].copy = agent[r].copy
<1>1. agent \in [AgentRuns -> RunRecord]
  BY DEF ConnInv, RunsInv
<1>2. CASE UNCHANGED agent
  BY <1>2
<1>3. ASSUME NEW s \in AgentRuns, NEW x, agent' = [agent EXCEPT ![s] = x],
             agent[s].stage \in {"new", "checked", "copied"}
      PROVE  /\ agent[r].stage = "ended" => agent'[r].stage = "ended"
             /\ agent[r].stage = "ready" => agent'[r].copy = agent[r].copy
  BY <1>1, <1>3
<1>4. ASSUME NEW s \in AgentRuns, Refresh(s) \/ CheckConsent(s)
                                   \/ CopySettings(s) \/ PrepareModel(s)
      PROVE  \E x : agent' = [agent EXCEPT ![s] = x]
  BY <1>4 DEF Refresh, CheckConsent, CopySettings, PrepareModel, Goes
<1>5. ASSUME NEW s \in AgentRuns, Refresh(s) \/ CheckConsent(s)
                                   \/ CopySettings(s) \/ PrepareModel(s)
      PROVE  agent[s].stage \in {"new", "checked", "copied"}
  BY <1>5 DEF Refresh, CheckConsent, CopySettings, PrepareModel
<1>6. ASSUME TokenRefreshed \/ \E exchanged \in BOOLEAN : RefreshFails(exchanged)
      PROVE  /\ lock \in AgentRuns /\ agent[lock].stage = "copied"
             /\ \E x : agent' = [agent EXCEPT ![lock] = x]
  BY <1>6 DEF TokenRefreshed, RefreshFails, Goes, ConnInv, LockInv
<1>7. ASSUME NEW s \in AgentRuns, EndRun(s)
      PROVE  /\ agent[r].stage = "ended" => agent'[r].stage = "ended"
             /\ agent'[r].copy = agent[r].copy
  BY <1>1, <1>7 DEF EndRun, Goes, RunRecord
<1>8. ASSUME Restart
      PROVE  /\ agent[r].stage = "ended" => agent'[r].stage = "ended"
             /\ agent'[r].copy = agent[r].copy
  BY <1>1, <1>8 DEF Restart, RunRecord
<1>9. \/ UNCHANGED agent \/ TokenRefreshed \/ Restart
      \/ \E exchanged \in BOOLEAN : RefreshFails(exchanged)
      \/ \E s \in AgentRuns : \/ Refresh(s) \/ CheckConsent(s)
                              \/ CopySettings(s) \/ PrepareModel(s) \/ EndRun(s)
  BY DEF ConnectionsNext, ConnectionStep, SaveProvider, BeginLoad, EndLoad,
     StartSignIn, ClaimSignIn, ExchangeCode, FailSignIn, CompleteSignIn,
     Disconnect, ShowDisclosure, GrantConsent, RevokeConsent, Expire
<1> QED
  BY <1>2, <1>3, <1>4, <1>5, <1>6, <1>7, <1>8, <1>9

\* A step of the connection, or a restart, takes the requests or leaves them.
LEMMA RefConnStep ==
  ASSUME RefInv, ConnectionsNext, EndsReading,
         UNCHANGED <<reference, shown, raced>>,
         choosing' = choosing \/ choosing' = NoChoices
  PROVE  RefInv'
<1>1. ConnInv'
  BY ConnNextOK DEF RefInv
<1>2. ReferencesTypeOK'
  BY DEF RefInv, ReferencesTypeOK, EndsReading, NoChoices
<1>3. ReadingInv'
  <2> SUFFICES ASSUME NEW r \in AgentRuns, reading'[r] # Nothing
               PROVE  /\ agent'[r].stage = "ready"
                      /\ \/ r \in raced
                         \/ /\ Enabled(reading'[r])
                            /\ reference[reading'[r]].of
                                 = Fingerprint(agent'[r].copy)
    BY DEF ReadingInv, Enabled, Fingerprint
  <2>1. agent'[r].stage = "ready" /\ reading'[r] = reading[r]
    BY DEF EndsReading
  <2>2. /\ agent[r].stage = "ready"
        /\ \/ r \in raced
           \/ /\ Enabled(reading[r])
              /\ reference[reading[r]].of = Fingerprint(agent[r].copy)
    BY <2>1 DEF RefInv, ReadingInv
  <2>3. agent'[r].copy = agent[r].copy
    BY <2>2, RunsGoOn DEF RefInv
  <2> QED
    BY <2>1, <2>2, <2>3
<1>4. UnseenInv'
  BY RunsGoOn DEF RefInv, UnseenInv, NoChoices
<1> QED
  BY <1>1, <1>2, <1>3, <1>4 DEF RefInv

\* What the requests have to do with runs: nothing that is checked changes.
LEMMA PanelSteps ==
  ASSUME RefInv, UNCHANGED connectionVars, NEW b \in Panels,
         \/ ShowReferences(b) \/ CheckReference(b) \/ RefuseReference(b)
         \/ \E g \in RefChannels : AskReference(b, g)
  PROVE  RefInv'
<1>1. UNCHANGED <<reference, reading, raced>>
  BY DEF ShowReferences, CheckReference, RefuseReference, AskReference
<1>2. UNCHANGED <<agent, cached, lock>> /\ ConnInv'
  BY ConnStutterOK DEF RefInv, connectionVars
<1>3. ReadingInv'
  BY <1>1, <1>2 DEF RefInv, ReadingInv, Enabled, Fingerprint
<1>4. CASE ShowReferences(b)
  <2>1. ReferencesTypeOK'
    BY <1>4 DEF RefInv, ReferencesTypeOK, ShowReferences, Listing
  <2>2. UnseenInv'
    BY <1>2, <1>4 DEF RefInv, UnseenInv, ShowReferences
  <2> QED
    BY <1>2, <1>3, <2>1, <2>2 DEF RefInv
<1>5. CASE RefuseReference(b)
  <2>1. ReferencesTypeOK'
    BY <1>5 DEF RefInv, ReferencesTypeOK, RefuseReference
  <2>2. \A c \in Panels : choosing'[c] = Nothing \/ choosing'[c] = choosing[c]
    BY <1>5 DEF RefInv, ReferencesTypeOK, RefuseReference
  <2>3. UnseenInv'
    BY <1>2, <2>2 DEF RefInv, UnseenInv
  <2> QED
    BY <1>2, <1>3, <2>1, <2>3 DEF RefInv
<1>6. ASSUME NEW g \in RefChannels, AskReference(b, g)
      PROVE  RefInv'
  <2> DEFINE c == [of |-> g, enabled |-> Offer(b, g), stage |-> "asked",
                   unseen |-> {}]
  <2>1. c \in Choice /\ c.stage = "asked"
    BY DEF Choice, Offer
  <2>2. choosing' = [choosing EXCEPT ![b] = c] /\ shown' = shown
    BY <1>6 DEF AskReference
  <2>3. ReferencesTypeOK'
    BY <1>1, <2>1, <2>2 DEF RefInv, ReferencesTypeOK
  <2>4. \A p \in Panels : choosing'[p] = c \/ choosing'[p] = choosing[p]
    BY <2>2 DEF RefInv, ReferencesTypeOK
  <2>5. UnseenInv'
    BY <1>2, <2>1, <2>4 DEF RefInv, UnseenInv
  <2> QED
    BY <1>2, <1>3, <2>3, <2>5 DEF RefInv
<1>7. CASE CheckReference(b)
  <2> DEFINE unseen == MayBegin \ Visible
             c == [choosing[b] EXCEPT !.stage = "checked", !.unseen = unseen]
  <2>1. choosing[b] \in Choice
    BY <1>7 DEF CheckReference, RefInv, ReferencesTypeOK
  <2>2. c \in Choice /\ c.stage = "checked" /\ c.unseen = unseen
    BY <2>1 DEF Choice, MayBegin
  <2>3. choosing' = [choosing EXCEPT ![b] = c] /\ shown' = shown
    BY <1>7 DEF CheckReference
  <2>4. ReferencesTypeOK'
    BY <1>1, <2>2, <2>3 DEF RefInv, ReferencesTypeOK
  <2>5. \A r \in AgentRuns : agent[r].stage # "ended" => r \in unseen
    BY <1>7 DEF CheckReference, NoActiveRun, Visible, MayBegin, RefInv, ConnInv,
       RunsInv, RunRecord
  <2>6. \A p \in Panels :
          (p = b /\ choosing'[p] = c) \/ choosing'[p] = choosing[p]
    BY <2>3 DEF RefInv, ReferencesTypeOK
  <2>7. UnseenInv'
    BY <1>2, <2>2, <2>5, <2>6 DEF RefInv, UnseenInv
  <2> QED
    BY <1>2, <1>3, <2>4, <2>7 DEF RefInv
<1> QED
  BY <1>4, <1>5, <1>6, <1>7

\* The write: whoever reads now began after the look, and is counted.
LEMMA WriteReferenceStep ==
  ASSUME RefInv, UNCHANGED connectionVars, NEW b \in Panels, WriteReference(b)
  PROVE  RefInv'
<1>1. UNCHANGED <<agent, cached>> /\ ConnInv'
  BY ConnStutterOK DEF RefInv, connectionVars
<1>2. choosing[b] \in Choice /\ choosing[b].stage = "checked"
  BY DEF WriteReference, RefInv, ReferencesTypeOK
<1>3. Fingerprint(cached) \in Fingerprints
  BY FingerprintType DEF RefInv, ConnInv, StoreInv
<1>4. ReferencesTypeOK'
  <2>1. [enabled |-> choosing[b].enabled, of |-> Fingerprint(cached)] \in Reference
    BY <1>2, <1>3 DEF Reference, Choice
  <2>2. reference' \in [RefChannels -> Reference \cup {Nothing}]
    BY <1>2, <2>1 DEF WriteReference, RefInv, ReferencesTypeOK, Choice
  <2>3. raced' \subseteq AgentRuns
    BY DEF WriteReference, Begun, RefInv, ReferencesTypeOK
  <2>4. Listing' \subseteq RefChannels
    BY DEF Listing
  <2> QED
    BY <2>2, <2>3, <2>4 DEF WriteReference, RefInv, ReferencesTypeOK
<1>5. ReadingInv'
  <2> SUFFICES ASSUME NEW r \in AgentRuns, reading[r] # Nothing
               PROVE  agent[r].stage = "ready" /\ r \in raced'
    BY <1>1 DEF ReadingInv, WriteReference
  <2>1. agent[r].stage = "ready"
    BY DEF RefInv, ReadingInv
  <2>2. r \in choosing[b].unseen
    BY <1>2, <2>1 DEF WriteReference, RefInv, UnseenInv
  <2> QED
    BY <2>1, <2>2 DEF WriteReference, Begun
<1>6. UnseenInv'
  <2>1. \A c \in Panels : choosing'[c] = Nothing \/ choosing'[c] = choosing[c]
    BY DEF WriteReference, RefInv, ReferencesTypeOK
  <2> QED
    BY <1>1, <2>1 DEF RefInv, UnseenInv
<1> QED
  BY <1>1, <1>4, <1>5, <1>6 DEF RefInv

LEMMA ReadingSteps ==
  ASSUME RefInv, UNCHANGED connectionVars, NEW r \in AgentRuns,
         EndReading(r) \/ \E g \in RefChannels : BeginReading(r, g)
  PROVE  RefInv'
<1>1. UNCHANGED <<agent, cached>> /\ ConnInv'
  BY ConnStutterOK DEF RefInv, connectionVars
<1>2. UNCHANGED <<reference, shown, choosing, raced>>
  BY DEF EndReading, BeginReading
<1>3. UnseenInv'
  BY <1>1, <1>2 DEF RefInv, UnseenInv
<1>4. CASE EndReading(r)
  <2>1. ReferencesTypeOK'
    BY <1>2, <1>4 DEF EndReading, RefInv, ReferencesTypeOK
  <2>2. \A s \in AgentRuns : reading'[s] = Nothing \/ reading'[s] = reading[s]
    BY <1>4 DEF EndReading, RefInv, ReferencesTypeOK
  <2>3. ReadingInv'
    BY <1>1, <1>2, <2>2 DEF RefInv, ReadingInv, Enabled, Fingerprint
  <2> QED
    BY <1>1, <1>3, <2>1, <2>3 DEF RefInv
<1>5. ASSUME NEW g \in RefChannels, BeginReading(r, g)
      PROVE  RefInv'
  <2>1. ReferencesTypeOK'
    BY <1>2, <1>5 DEF BeginReading, RefInv, ReferencesTypeOK
  <2>2. \A s \in AgentRuns :
          (s = r /\ reading'[s] = g) \/ reading'[s] = reading[s]
    BY <1>5 DEF BeginReading, RefInv, ReferencesTypeOK
  <2>3. /\ agent[r].stage = "ready" /\ Enabled(g)
        /\ reference[g].of = Fingerprint(agent[r].copy)
    BY <1>5 DEF BeginReading, Selected
  <2>4. ReadingInv'
    BY <1>1, <1>2, <2>2, <2>3 DEF RefInv, ReadingInv, Enabled, Fingerprint
  <2> QED
    BY <1>1, <1>3, <2>1, <2>4 DEF RefInv
<1> QED
  BY <1>4, <1>5

LEMMA RefInitOK == ConnectionsInit /\ ReferencesInit => RefInv
<1> SUFFICES ASSUME ConnectionsInit, ReferencesInit PROVE RefInv
  OBVIOUS
<1>1. ReferencesTypeOK
  BY DEF ReferencesInit, ReferencesTypeOK, NoChoices
<1>2. ReadingInv /\ UnseenInv
  BY DEF ReferencesInit, ReadingInv, UnseenInv, NoChoices
<1> QED
  BY <1>1, <1>2, ConnInitOK DEF RefInv

LEMMA RefStepOK ==
  RefInv /\ [ReferencesNext]_<<connectionVars, referenceVars>> => RefInv'
<1> SUFFICES ASSUME RefInv, [ReferencesNext]_<<connectionVars, referenceVars>>
             PROVE  RefInv'
  OBVIOUS
<1>1. CASE UNCHANGED connectionVars /\ ReferenceStep
  BY <1>1, PanelSteps, WriteReferenceStep, ReadingSteps DEF ReferenceStep
<1>2. CASE /\ ConnectionStep /\ EndsReading
           /\ UNCHANGED <<reference, shown, choosing, raced>>
  BY <1>2, RefConnStep DEF ConnectionsNext
<1>3. CASE /\ Restart /\ EndsReading /\ choosing' = NoChoices
           /\ UNCHANGED <<reference, shown, raced>>
  BY <1>3, RefConnStep DEF ConnectionsNext
<1>4. CASE UNCHANGED <<connectionVars, referenceVars>>
  <2>1. ConnInv' /\ UNCHANGED <<agent, cached>>
    BY <1>4, ConnStutterOK DEF RefInv, connectionVars
  <2>2. ReferencesTypeOK' /\ UnseenInv' /\ ReadingInv'
    BY <1>4, <2>1 DEF referenceVars, RefInv, ReferencesTypeOK, UnseenInv,
       ReadingInv, Enabled, Fingerprint
  <2> QED
    BY <2>1, <2>2 DEF RefInv
<1> QED
  BY <1>1, <1>2, <1>3, <1>4 DEF ReferencesNext

\* The panels, the permissions and what the runs read keep their types.
THEOREM ReferencesAreTyped == ReferencesSpec => []ReferencesTypeOK
<1>1. RefInv => ReferencesTypeOK  BY DEF RefInv
<1> QED  BY <1>1, RefInitOK, RefStepOK, PTL DEF ReferencesSpec

\* A run works with a configuration that the owner agreed to, and reads only the
\* reference channels that are permitted to exactly this configuration; settings
\* that change under the request, and runs that begin under a reference request,
\* are the exceptions (consent_state, ReferenceChannels.require).
THEOREM RunsAreConsented == ReferencesSpec => []RunIsConsented
<1>1. RefInv => RunIsConsented
  <2> SUFFICES ASSUME RefInv, NEW r \in AgentRuns
               PROVE  /\ agent[r].stage \in {"copied", "ready"} =>
                           \/ agent[r].moved
                           \/ agent[r].copy.provider = "ollama"
                           \/ Fingerprint(agent[r].copy) \in confirmed
                      /\ reading[r] # Nothing =>
                           \/ r \in raced
                           \/ /\ Enabled(reading[r])
                              /\ reference[reading[r]].of
                                   = Fingerprint(agent[r].copy)
    BY DEF RunIsConsented
  <2>1. ASSUME agent[r].stage \in {"copied", "ready"}
        PROVE  \/ agent[r].moved
               \/ agent[r].copy.provider = "ollama"
               \/ Fingerprint(agent[r].copy) \in confirmed
    BY <2>1, FingerprintType DEF RefInv, ConnInv, RunsInv, RunOK, Agreed
  <2> QED
    BY <2>1 DEF RefInv, ReadingInv
<1> QED
  BY <1>1, RefInitOK, RefStepOK, PTL DEF ReferencesSpec
=============================================================================
