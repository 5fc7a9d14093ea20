------------------------ MODULE ToolPermissionProofs ------------------------
(***************************************************************************)
(* Proofs about ToolPermission, for any Agents, any finite set of the      *)
(* user's messages and any limits: grants and authorizations are not       *)
(* overdrawn, what needs the user's confirmation has it, denials hold, and *)
(* the revision counts the changes of the authorizations.                  *)
(*                                                                         *)
(* The decision on a call and the start of its tool are two transactions.  *)
(* What a decision found (CallsSound) may be gone when the tool starts; so *)
(* the limits rest on the checks of startToolExecution, and the            *)
(* confirmation on fields of a grant that never change.                    *)
(***************************************************************************)
EXTENDS ToolPermission, FiniteSetTheorems, TLAPS

\* Most steps are first-order logic: Zenon is tried first, then SMT, then Zenon for longer.
USE ZenonT(5), SMTT(20), ZenonT(60)

-----------------------------------------------------------------------------
(* The inductive invariant                                                 *)

CallPhases == {"idle", "authorize", "review", "ask", "allowed"}
Vias == {None, Reviewer} \cup GrantIds \cup Messages
CallType == [phase : CallPhases, intent : Intents \cup {None}, todo : SUBSET Messages,
             via : Vias, asked : BOOLEAN]
StartType == [agent : Agents, attempt : Attempts, intent : Intents, via : Vias, nth : Nat]

Types ==
  /\ attempt \in [Agents -> Attempts]
  /\ sources \in [Messages -> {None, "pending", "compiled", "failed"}]
  /\ auths \in [Messages -> {None} \cup Authorizations]
  /\ revision \in Nat
  /\ grants \in [GrantIds -> {None} \cup Grants]
  /\ call \in [Agents -> CallType]
  /\ started \subseteq StartType /\ IsFiniteSet(started)

\* What the decision on a call that is past the kernel was based on.
AllowedBy(a, via) ==
  /\ via \in GrantIds =>
       /\ grants[via] # None /\ grants[via].intent = call[a].intent
       /\ call[a].intent = "confirm" =>
            /\ grants[via].lifetime = "once"
            /\ grants[via].agent = a /\ grants[via].attempt = attempt[a]
  /\ via \in Messages => auths[via] # None
  /\ via \notin GrantIds \cup Messages => call[a].intent = "process"

\* A call past the kernel was not denied before, and has what allows it.
CallSound(a) ==
  /\ call[a].phase # "idle" => call[a].intent \in Intents
  /\ call[a].phase = "review" => call[a].intent = "process"
  /\ call[a].phase \in {"review", "allowed"} => <<a, attempt[a], call[a].intent>> \notin denied
  /\ call[a].phase = "allowed" => AllowedBy(a, call[a].via)

CallsSound == \A a \in Agents : CallSound(a)

\* An authorization belongs to a compiled message.
AuthsSound == \A m \in Messages : auths[m] # None => sources[m] = "compiled"

\* Uses are covered: an active grant for one use has none, a spent one at most
\* one, and an authorization counts its own.
UsesCovered ==
  /\ \A g \in GrantIds :
       /\ grants[g] = None => Uses(g) = {}
       /\ (grants[g] # None /\ grants[g].lifetime = "once") =>
            /\ grants[g].state = "active" => Uses(g) = {}
            /\ \A s, t \in Uses(g) : s = t
  /\ \A m \in Messages :
       /\ auths[m] = None => Uses(m) = {}
       /\ auths[m] # None => Cardinality(Uses(m)) <= auths[m].used

PermissionInv ==
  /\ Types /\ CallsSound /\ AuthsSound /\ UsesCovered /\ ConfirmedByUser /\ RevisionCounts

-----------------------------------------------------------------------------
(* Updates of a call, a grant and an authorization                         *)

\* A call in another phase, with another reason, asked or compiled further.
LEMMA CallFields ==
  ASSUME NEW c \in CallType, NEW p \in CallPhases, NEW v \in Vias, NEW T \in SUBSET Messages
  PROVE  /\ [c EXCEPT !.phase = p] \in CallType
         /\ [c EXCEPT !.phase = p].phase = p /\ [c EXCEPT !.phase = p].intent = c.intent
         /\ [c EXCEPT !.phase = p, !.via = v] \in CallType
         /\ [c EXCEPT !.phase = p, !.via = v].phase = p
         /\ [c EXCEPT !.phase = p, !.via = v].via = v
         /\ [c EXCEPT !.phase = p, !.via = v].intent = c.intent
         /\ [c EXCEPT !.phase = p, !.asked = TRUE] \in CallType
         /\ [c EXCEPT !.phase = p, !.asked = TRUE].phase = p
         /\ [c EXCEPT !.phase = p, !.asked = TRUE].intent = c.intent
         /\ [c EXCEPT !.todo = T] \in CallType
         /\ [c EXCEPT !.todo = T].phase = c.phase /\ [c EXCEPT !.todo = T].via = c.via
         /\ [c EXCEPT !.todo = T].intent = c.intent
BY DEF CallType

\* No call, and the first step of one.
LEMMA FirstCalls ==
  /\ NoCall \in CallType /\ NoCall.phase = "idle"
  /\ \A i \in Intents, T \in SUBSET Messages :
       LET c == [NoCall EXCEPT !.phase = "authorize", !.intent = i, !.todo = T]
       IN c \in CallType /\ c.phase = "authorize" /\ c.intent = i
BY DEF NoCall, CallType, CallPhases, Vias, Intents

\* A step that replaces the call of one Agent leaves those of the others.
LEMMA CallReplaced ==
  ASSUME Types, NEW a \in Agents, NEW c \in CallType, call' = [call EXCEPT ![a] = c]
  PROVE  /\ call' \in [Agents -> CallType] /\ call'[a] = c
         /\ \A b \in Agents : b # a => call'[b] = call[b]
BY DEF Types

\* The state of a grant changes, nothing else of it.
LEMMA GrantState ==
  ASSUME Types, NEW g \in GrantIds, grants[g] # None,
         NEW s \in States,
         grants' = [grants EXCEPT ![g].state = s]
  PROVE  /\ grants' \in [GrantIds -> {None} \cup Grants]
         /\ grants'[g] \in Grants /\ grants'[g].state = s
         /\ grants'[g].intent = grants[g].intent /\ grants'[g].lifetime = grants[g].lifetime
         /\ grants'[g].agent = grants[g].agent /\ grants'[g].attempt = grants[g].attempt
         /\ \A h \in GrantIds : h # g => grants'[h] = grants[h]
<1> DEFINE n == [grants[g] EXCEPT !.state = s]
<1>1. grants[g] \in Grants
  BY DEF Types
<1>2. /\ n \in Grants /\ n.state = s /\ n.intent = grants[g].intent
      /\ n.lifetime = grants[g].lifetime /\ n.agent = grants[g].agent
      /\ n.attempt = grants[g].attempt
  BY <1>1 DEF Grants
<1>3. grants' = [grants EXCEPT ![g] = n]
  BY DEF Types
<1> HIDE DEF n
<1> QED BY <1>2, <1>3 DEF Types

\* An authorization is a record, not None.
LEMMA AuthRecord ==
  ASSUME Types, NEW m \in Messages, auths[m] # None
  PROVE  auths[m] \in Authorizations
BY DEF Types

\* An authorization is used or ends, nothing else changes.
LEMMA AuthUpdate ==
  ASSUME Types, NEW m \in Messages, auths[m] # None,
         NEW u \in 0..MaxUses, NEW s \in States,
         auths' = [auths EXCEPT ![m].used = u, ![m].state = s]
  PROVE  /\ auths' \in [Messages -> {None} \cup Authorizations]
         /\ auths'[m] \in Authorizations /\ auths'[m].state = s /\ auths'[m].used = u
         /\ \A k \in Messages : k # m => auths'[k] = auths[k]
<1> DEFINE n == [auths[m] EXCEPT !.used = u, !.state = s]
<1>1. n \in Authorizations /\ n.state = s /\ n.used = u
  BY AuthRecord DEF Authorizations
<1>2. auths' = [auths EXCEPT ![m] = n]
  BY DEF Types
<1> HIDE DEF n
<1> QED BY ZenonT(60), <1>1, <1>2 DEF Types

-----------------------------------------------------------------------------
(* What steps leave in place                                               *)

\* A grant is never taken back, and only its state is ever written.
GrantsKept ==
  \A g \in GrantIds : grants[g] # None =>
    /\ grants'[g] # None
    /\ grants'[g].intent = grants[g].intent /\ grants'[g].lifetime = grants[g].lifetime
    /\ grants'[g].agent = grants[g].agent /\ grants'[g].attempt = grants[g].attempt

AuthsKept == \A m \in Messages : auths[m] # None => auths'[m] # None

\* A call that a step does not touch stays sound, unless it is denied.
LEMMA CallKept ==
  ASSUME PermissionInv, GrantsKept, AuthsKept, NEW b \in Agents,
         call'[b] = call[b], attempt'[b] = attempt[b],
         <<b, attempt[b], call[b].intent>> \in denied' => <<b, attempt[b], call[b].intent>> \in denied
  PROVE  CallSound(b)'
<1>1. CallSound(b)
  BY DEF PermissionInv, CallsSound
<1>2. call[b].phase = "allowed" => AllowedBy(b, call[b].via)'
  BY <1>1 DEF CallSound, AllowedBy, GrantsKept, AuthsKept
<1> QED BY <1>1, <1>2 DEF CallSound

\* Started tools keep their confirmation.
LEMMA ConfirmationKept ==
  ASSUME PermissionInv, GrantsKept, started' = started,
         \A m \in Messages : sources[m] = "compiled" => sources'[m] = "compiled"
  PROVE  ConfirmedByUser'
<1> SUFFICES ASSUME NEW s \in started, s.intent = "confirm"
             PROVE  \/ /\ s.via \in GrantIds
                       /\ grants'[s.via].lifetime = "once" /\ grants'[s.via].intent = "confirm"
                       /\ grants'[s.via].agent = s.agent /\ grants'[s.via].attempt = s.attempt
                    \/ s.via \in Messages /\ sources'[s.via] = "compiled"
  BY DEF ConfirmedByUser
<1>1. s.via \in GrantIds => grants[s.via] # None
  BY DEF PermissionInv, UsesCovered, Uses
<1> QED BY <1>1 DEF PermissionInv, ConfirmedByUser, GrantsKept

\* Steps that only move the call of one Agent.
LEMMA CallStepKeeps ==
  ASSUME PermissionInv, NEW a \in Agents, NEW c \in CallType,
         call' = [call EXCEPT ![a] = c],
         UNCHANGED <<attempt, sources, auths, revision, grants, denied, started>>,
         CallSound(a)'
  PROVE  PermissionInv'
<1>1. /\ call' \in [Agents -> CallType]
      /\ \A b \in Agents : b # a => call'[b] = call[b]
  BY CallReplaced DEF PermissionInv
<1>2. GrantsKept /\ AuthsKept
  BY DEF GrantsKept, AuthsKept
<1>3. CallsSound'
  BY <1>1, <1>2, CallKept DEF CallsSound
<1>4. Types'
  BY <1>1 DEF PermissionInv, Types
<1>5. AuthsSound' /\ UsesCovered' /\ RevisionCounts'
  BY DEF PermissionInv, AuthsSound, UsesCovered, RevisionCounts, Uses
<1>6. ConfirmedByUser'
  BY <1>2, ConfirmationKept
<1> QED BY <1>3, <1>4, <1>5, <1>6 DEF PermissionInv

\* before_tool, a review, an answer that blocks the call, a refused start.
LEMMA CallSteps ==
  ASSUME PermissionInv, NEW a \in Agents,
         \/ \E i \in Intents : BeginCall(a, i)
         \/ Authorize(a) \/ Review(a) \/ RefuseTool(a) \/ Block(a)
  PROVE  PermissionInv'
<1>1. call[a] \in CallType /\ NoCall \in CallType /\ NoCall.phase = "idle"
  BY FirstCalls DEF PermissionInv, Types
<1>2. CASE Ended(a) /\ UNCHANGED <<attempt, sources, auths, revision, grants, denied, started>>
  <2>1. CallSound(a)'
    BY <1>1, <1>2, CallReplaced DEF Ended, CallSound, PermissionInv
  <2> QED BY <1>1, <1>2, <2>1, CallStepKeeps DEF Ended
<1>3. ASSUME NEW p \in {"review", "ask"},
             call' = [call EXCEPT ![a].phase = p],
             UNCHANGED <<attempt, sources, auths, revision, grants, denied, started>>,
             call[a].intent \in Intents,
             p = "review" => (call[a].intent = "process" /\ ~WasDenied(a, call[a].intent))
      PROVE  PermissionInv'
  <2> DEFINE c == [call[a] EXCEPT !.phase = p]
  <2>1. c \in CallType /\ c.phase = p /\ c.intent = call[a].intent
    <3>1. p \in CallPhases /\ None \in Vias /\ {} \in SUBSET Messages
      BY DEF CallPhases, Vias
    <3> QED BY <1>1, <3>1, CallFields
  <2>2. call' = [call EXCEPT ![a] = c]
    BY <1>3 DEF PermissionInv, Types
  <2> HIDE DEF c
  <2>3. CallSound(a)'
    BY <1>3, <2>1, <2>2, CallReplaced DEF CallSound, PermissionInv, WasDenied
  <2> QED BY <1>3, <2>1, <2>2, <2>3, CallStepKeeps
<1>4. ASSUME NEW v \in Vias, Allowed(a, v),
             UNCHANGED <<attempt, sources, auths, revision, grants, denied, started>>,
             call[a].intent \in Intents, ~WasDenied(a, call[a].intent), AllowedBy(a, v)
      PROVE  PermissionInv'
  <2> DEFINE c == [call[a] EXCEPT !.phase = "allowed", !.via = v]
  <2>1. c \in CallType /\ c.phase = "allowed" /\ c.intent = call[a].intent /\ c.via = v
    <3>1. "allowed" \in CallPhases
      BY DEF CallPhases
    <3> QED BY <1>1, <1>4, <3>1 DEF CallType
  <2>2. call' = [call EXCEPT ![a] = c]
    BY <1>4 DEF Allowed, PermissionInv, Types
  <2> HIDE DEF c
  <2>3. call'[a] = c
    BY <2>1, <2>2, CallReplaced DEF PermissionInv
  <2>4. AllowedBy(a, v)'
    BY <1>4, <2>1, <2>3 DEF AllowedBy
  <2>5. CallSound(a)'
    BY <1>4, <2>1, <2>3, <2>4 DEF CallSound, WasDenied, AllowedBy
  <2> QED BY <1>4, <2>1, <2>2, <2>5, CallStepKeeps
<1>5. ASSUME NEW i \in Intents, BeginCall(a, i) PROVE PermissionInv'
  <2> DEFINE c == [NoCall EXCEPT !.phase = "authorize", !.intent = i, !.todo = Pending]
  <2>1. c \in CallType /\ c.phase = "authorize" /\ c.intent = i
    BY FirstCalls DEF Pending
  <2>2. call' = [call EXCEPT ![a] = c]
    BY <1>5 DEF BeginCall
  <2> HIDE DEF c
  <2>3. CallSound(a)'
    BY <2>1, <2>2, CallReplaced DEF CallSound, PermissionInv
  <2> QED BY <1>5, <2>1, <2>2, <2>3, CallStepKeeps DEF BeginCall
<1>6. CASE Authorize(a)
  <2> DEFINE i == call[a].intent
  <2>1. i \in Intents
    BY <1>6 DEF Authorize, PermissionInv, CallsSound, CallSound
  <2>2. ASSUME NEW m \in Authorizing(i), ~WasDenied(a, i), Allowed(a, m) PROVE PermissionInv'
    <3>1. m \in Vias /\ AllowedBy(a, m)
      BY MessagesAssumption DEF Authorizing, Vias, AllowedBy, GrantIds
    <3> QED BY <1>4, <1>6, <2>1, <2>2, <3>1 DEF Authorize
  <2>3. ASSUME NEW g \in Usable(a, i), ~WasDenied(a, i), Allowed(a, g) PROVE PermissionInv'
    <3>1. g \in Vias /\ AllowedBy(a, g)
      BY MessagesAssumption DEF Usable, Vias, AllowedBy, GrantIds, Lifetimes
    <3> QED BY <1>4, <1>6, <2>1, <2>3, <3>1 DEF Authorize
  <2>4. ASSUME ~WasDenied(a, i),
               call' = [call EXCEPT ![a].phase = IF i = "process" THEN "review" ELSE "ask"]
        PROVE  PermissionInv'
    BY <1>3, <1>6, <2>1, <2>4 DEF Authorize
  <2> QED BY <1>2, <1>6, <2>2, <2>3, <2>4 DEF Authorize
<1>7. CASE Review(a)
  <2>1. call[a].intent = "process" /\ call[a].intent \in Intents /\ ~WasDenied(a, call[a].intent)
    BY <1>7 DEF Review, PermissionInv, CallsSound, CallSound, WasDenied
  <2>2. Reviewer \in Vias /\ AllowedBy(a, Reviewer)
    BY <2>1, NamesAssumption DEF Vias, AllowedBy
  <2>3. CASE Allowed(a, Reviewer)
    BY <1>4, <1>7, <2>1, <2>2, <2>3 DEF Review
  <2> QED BY <1>2, <1>3, <1>7, <2>1, <2>3 DEF Review
<1> QED BY <1>2, <1>5, <1>6, <1>7 DEF RefuseTool, Block

-----------------------------------------------------------------------------
(* Steps of the user                                                       *)

\* The two numbers the revision adds up: compiled messages and revocations.
CompiledSet == {m \in Messages : sources[m] = "compiled"}
RevokedSet == {m \in Messages : auths[m] # None /\ auths[m].state = "revoked"}

LEMMA RevisionSets ==
  /\ RevisionCounts <=> revision = Cardinality(CompiledSet) + Cardinality(RevokedSet)
  /\ IsFiniteSet(CompiledSet) /\ IsFiniteSet(RevokedSet)
  /\ Cardinality(CompiledSet) \in Nat /\ Cardinality(RevokedSet) \in Nat
<1>1. CompiledSet \subseteq Messages /\ RevokedSet \subseteq Messages
  BY DEF CompiledSet, RevokedSet
<1>2. IsFiniteSet(CompiledSet) /\ IsFiniteSet(RevokedSet)
  BY <1>1, MessagesAssumption, FS_Subset
<1> QED BY <1>2, FS_CardinalityType DEF RevisionCounts, CompiledSet, RevokedSet

\* Steps of the user leave the calls alone.
LEMMA UserStepKeeps ==
  ASSUME PermissionInv, GrantsKept, AuthsKept, UNCHANGED <<call, attempt, denied, started>>,
         \A m \in Messages : sources[m] = "compiled" => sources'[m] = "compiled",
         sources' \in [Messages -> {None, "pending", "compiled", "failed"}],
         auths' \in [Messages -> {None} \cup Authorizations], revision' \in Nat,
         grants' \in [GrantIds -> {None} \cup Grants],
         AuthsSound', UsesCovered', RevisionCounts'
  PROVE  PermissionInv'
<1>1. Types'
  BY DEF PermissionInv, Types
<1>2. CallsSound'
  BY CallKept DEF CallsSound
<1> QED BY <1>1, <1>2, ConfirmationKept DEF PermissionInv

LEMMA SayKeeps ==
  ASSUME PermissionInv, NEW m \in Messages, Say(m)
  PROVE  PermissionInv'
<1>1. GrantsKept /\ AuthsKept /\ sources[m] # "compiled"
  BY NamesAssumption DEF Say, GrantsKept, AuthsKept
<1>2. \A k \in Messages : sources'[k] = "compiled" <=> sources[k] = "compiled"
  BY <1>1 DEF Say, PermissionInv, Types
<1>3. AuthsSound' /\ UsesCovered'
  BY <1>2 DEF Say, PermissionInv, AuthsSound, UsesCovered, Uses
<1>4. RevisionCounts'
  <2>1. CompiledSet' = CompiledSet /\ RevokedSet' = RevokedSet /\ revision' = revision
    BY <1>2 DEF CompiledSet, RevokedSet, Say
  <2> QED BY <2>1 DEF PermissionInv, RevisionCounts, CompiledSet, RevokedSet
<1> QED BY <1>1, <1>2, <1>3, <1>4, UserStepKeeps DEF Say, PermissionInv, Types

LEMMA RevokeGrantKeeps ==
  ASSUME PermissionInv, NEW g \in GrantIds, RevokeGrant(g)
  PROVE  PermissionInv'
<1>1. /\ grants' \in [GrantIds -> {None} \cup Grants]
      /\ grants'[g] \in Grants /\ grants'[g].state = "revoked"
      /\ grants'[g].intent = grants[g].intent /\ grants'[g].lifetime = grants[g].lifetime
      /\ grants'[g].agent = grants[g].agent /\ grants'[g].attempt = grants[g].attempt
      /\ \A h \in GrantIds : h # g => grants'[h] = grants[h]
  BY GrantState DEF RevokeGrant, PermissionInv, States
<1>2. GrantsKept /\ AuthsKept
  BY <1>1, NamesAssumption DEF RevokeGrant, GrantsKept, AuthsKept
<1>3. AuthsSound' /\ RevisionCounts'
  BY DEF RevokeGrant, PermissionInv, AuthsSound, RevisionCounts
<1>4. UsesCovered'
  BY <1>1, NamesAssumption DEF RevokeGrant, PermissionInv, UsesCovered, Uses
<1> QED BY <1>1, <1>2, <1>3, <1>4, UserStepKeeps DEF RevokeGrant, PermissionInv, Types

LEMMA RevokeAuthorizationKeeps ==
  ASSUME PermissionInv, NEW m \in Messages, RevokeAuthorization(m)
  PROVE  PermissionInv'
<1>1. /\ auths' \in [Messages -> {None} \cup Authorizations]
      /\ auths'[m] \in Authorizations /\ auths'[m].state = "revoked"
      /\ auths'[m].used = auths[m].used
      /\ \A k \in Messages : k # m => auths'[k] = auths[k]
  <2> DEFINE n == [auths[m] EXCEPT !.state = "revoked"]
  <2>1. n \in Authorizations /\ n.state = "revoked" /\ n.used = auths[m].used
    BY AuthRecord DEF RevokeAuthorization, PermissionInv, Authorizations, States
  <2>2. auths' = [auths EXCEPT ![m] = n]
    BY DEF RevokeAuthorization, PermissionInv, Types
  <2> HIDE DEF n
  <2> QED BY <2>1, <2>2 DEF PermissionInv, Types
<1>2. auths[m] # None /\ auths[m].state = "active" /\ auths'[m] # None
  BY <1>1, NamesAssumption DEF RevokeAuthorization
<1>3. GrantsKept /\ AuthsKept
  BY <1>1, <1>2 DEF RevokeAuthorization, GrantsKept, AuthsKept
<1>4. AuthsSound' /\ UsesCovered'
  BY ZenonT(60), <1>1, <1>2 DEF RevokeAuthorization, PermissionInv, AuthsSound, UsesCovered, Uses
<1>5. revision' \in Nat /\ RevisionCounts'
  <2>1. /\ CompiledSet' = CompiledSet /\ RevokedSet' = RevokedSet \cup {m} /\ m \notin RevokedSet
        /\ revision' = revision + 1
    BY <1>1, <1>2 DEF CompiledSet, RevokedSet, RevokeAuthorization
  <2>2. Cardinality(RevokedSet') = Cardinality(RevokedSet) + 1
    BY <2>1, RevisionSets, FS_AddElement
  <2>3. revision = Cardinality(CompiledSet) + Cardinality(RevokedSet)
    BY RevisionSets DEF PermissionInv
  <2>4. revision' = Cardinality(CompiledSet') + Cardinality(RevokedSet')
    BY <2>1, <2>2, <2>3, RevisionSets
  <2> QED BY <2>1, <2>3, <2>4, RevisionSets DEF RevisionCounts, CompiledSet, RevokedSet
<1> QED BY <1>1, <1>3, <1>4, <1>5, UserStepKeeps DEF RevokeAuthorization, PermissionInv, Types

-----------------------------------------------------------------------------
(* Steps that change a call and what it rests on                           *)

\* The calls after a step that replaces one of them.
LEMMA OneCall ==
  ASSUME PermissionInv, GrantsKept, AuthsKept, NEW a \in Agents, NEW c \in CallType,
         call' = [call EXCEPT ![a] = c],
         \A b \in Agents : b # a => attempt'[b] = attempt[b],
         \A b \in Agents : b # a =>
           (<<b, attempt[b], call[b].intent>> \in denied' => <<b, attempt[b], call[b].intent>> \in denied),
         CallSound(a)'
  PROVE  call' \in [Agents -> CallType] /\ CallsSound'
<1>1. /\ call' \in [Agents -> CallType]
      /\ \A b \in Agents : b # a => call'[b] = call[b]
  BY CallReplaced DEF PermissionInv
<1> QED BY <1>1, CallKept DEF CallsSound

\* A call that ends is sound.
LEMMA EndedSound ==
  ASSUME PermissionInv, NEW a \in Agents, Ended(a)
  PROVE  NoCall \in CallType /\ call' = [call EXCEPT ![a] = NoCall] /\ CallSound(a)'
<1>1. NoCall \in CallType /\ NoCall.phase = "idle"
  BY FirstCalls
<1>2. call'[a] = NoCall
  BY <1>1, CallReplaced DEF Ended, PermissionInv
<1> QED BY <1>1, <1>2 DEF Ended, CallSound

LEMMA DenyKeeps ==
  ASSUME PermissionInv, NEW a \in Agents, Deny(a)
  PROVE  PermissionInv'
<1>1. GrantsKept /\ AuthsKept
  BY DEF Deny, GrantsKept, AuthsKept
<1>2. call' \in [Agents -> CallType] /\ CallsSound'
  BY <1>1, EndedSound, OneCall DEF Deny
<1>3. Types' /\ AuthsSound' /\ UsesCovered' /\ RevisionCounts'
  BY <1>2 DEF Deny, PermissionInv, Types, AuthsSound, UsesCovered, RevisionCounts, Uses
<1> QED BY <1>1, <1>2, <1>3, ConfirmationKept DEF Deny, PermissionInv

LEMMA RestartKeeps ==
  ASSUME PermissionInv, NEW a \in Agents, Restart(a)
  PROVE  PermissionInv'
<1>1. GrantsKept /\ AuthsKept
  BY DEF Restart, GrantsKept, AuthsKept
<1>2. attempt' \in [Agents -> Attempts] /\ \A b \in Agents : b # a => attempt'[b] = attempt[b]
  BY BoundAssumption DEF Restart, PermissionInv, Types, Attempts
<1>3. call' \in [Agents -> CallType] /\ CallsSound'
  BY <1>1, <1>2, EndedSound, OneCall DEF Restart
<1>4. Types'
  BY <1>2, <1>3 DEF Restart, PermissionInv, Types
<1>5. AuthsSound' /\ UsesCovered' /\ RevisionCounts'
  BY DEF Restart, PermissionInv, AuthsSound, UsesCovered, RevisionCounts, Uses
<1> QED BY <1>1, <1>3, <1>4, <1>5, ConfirmationKept DEF Restart, PermissionInv

LEMMA ApproveKeeps ==
  ASSUME PermissionInv, NEW a \in Agents, NEW lifetime \in Lifetimes, Approve(a, lifetime)
  PROVE  PermissionInv'
<1> DEFINE n == [intent |-> call[a].intent, lifetime |-> lifetime, agent |-> a,
                 attempt |-> attempt[a], state |-> "active"]
           c == [call[a] EXCEPT !.phase = "authorize", !.asked = TRUE]
<1>1. PICK g \in GrantIds : grants[g] = None /\ grants' = [grants EXCEPT ![g] = n]
  BY DEF Approve
<1>2. call[a].intent \in Intents /\ call[a] \in CallType /\ attempt[a] \in Attempts
  BY DEF Approve, PermissionInv, CallsSound, CallSound, Types
<1>3. n \in Grants
  BY <1>2 DEF Grants, States
<1>4. c \in CallType /\ c.phase = "authorize" /\ c.intent = call[a].intent
  BY <1>2 DEF CallType, CallPhases
<1>5. call' = [call EXCEPT ![a] = c]
  BY DEF Approve, PermissionInv, Types
<1> HIDE DEF n, c
<1>6. /\ grants' \in [GrantIds -> {None} \cup Grants] /\ grants'[g] = n
      /\ \A h \in GrantIds : h # g => grants'[h] = grants[h]
  BY <1>1, <1>3 DEF PermissionInv, Types
<1>7. GrantsKept /\ AuthsKept
  BY <1>1, <1>6 DEF Approve, GrantsKept, AuthsKept
<1>8. CallSound(a)'
  <2>1. call'[a] = c
    BY <1>4, <1>5, CallReplaced DEF PermissionInv
  <2> QED BY <1>2, <1>4, <2>1 DEF CallSound
<1>9. call' \in [Agents -> CallType] /\ CallsSound'
  BY <1>4, <1>5, <1>7, <1>8, OneCall DEF Approve
<1>10. Types' /\ AuthsSound' /\ RevisionCounts'
  BY <1>6, <1>9 DEF Approve, PermissionInv, Types, AuthsSound, RevisionCounts
<1>11. UsesCovered'
  <2>1. grants[g] = None /\ Uses(g) = {} /\ started' = started /\ auths' = auths
    BY <1>1 DEF Approve, PermissionInv, UsesCovered
  <2> QED BY <1>6, <2>1 DEF PermissionInv, UsesCovered, Uses
<1> QED BY <1>7, <1>9, <1>10, <1>11, ConfirmationKept DEF Approve, PermissionInv

LEMMA CompileKeeps ==
  ASSUME PermissionInv, NEW a \in Agents, NEW m \in Messages, Compile(a, m)
  PROVE  PermissionInv'
<1> DEFINE c == [call[a] EXCEPT !.todo = @ \ {m}]
           n == [state |-> "active", used |-> 0]
<1>1. call[a] \in CallType
  BY DEF PermissionInv, Types
<1>2. /\ c \in CallType /\ c.phase = call[a].phase /\ c.intent = call[a].intent
      /\ c.via = call[a].via
  BY <1>1 DEF CallType
<1>3. call' = [call EXCEPT ![a] = c]
  BY DEF Compile, PermissionInv, Types
<1> HIDE DEF c
<1>4. n \in Authorizations /\ n.used = 0 /\ n.state = "active"
  BY BoundAssumption DEF Authorizations, States
<1> HIDE DEF n
<1>5. /\ GrantsKept
      /\ UNCHANGED <<attempt, denied, started, grants>>
  BY DEF Compile, GrantsKept
<1>6. \/ UNCHANGED <<sources, auths, revision>>
      \/ /\ sources[m] = "pending" /\ sources' = [sources EXCEPT ![m] = "compiled"]
         /\ revision' = revision + 1
         /\ auths' = auths \/ auths' = [auths EXCEPT ![m] = n]
      \/ /\ sources[m] = "pending" /\ sources' = [sources EXCEPT ![m] = "failed"]
         /\ UNCHANGED <<auths, revision>>
  BY DEF Compile, CompletePending, n
<1>7. sources[m] = "pending" => auths[m] = None
  BY DEF PermissionInv, AuthsSound
<1>8. /\ sources' \in [Messages -> {None, "pending", "compiled", "failed"}]
      /\ auths' \in [Messages -> {None} \cup Authorizations]
      /\ revision' \in Nat
      /\ AuthsKept /\ AuthsSound'
      /\ \A k \in Messages : sources[k] = "compiled" => sources'[k] = "compiled"
  BY <1>4, <1>6, <1>7, NamesAssumption DEF PermissionInv, Types, AuthsSound, AuthsKept
<1>9. CallSound(a)'
  <2>1. call'[a] = c
    BY <1>2, <1>3, CallReplaced DEF PermissionInv
  <2>2. CallSound(a)
    BY DEF PermissionInv, CallsSound
  <2> QED BY <1>2, <1>5, <1>8, <2>1, <2>2 DEF CallSound, AllowedBy, AuthsKept
<1>10. call' \in [Agents -> CallType] /\ CallsSound'
  BY <1>2, <1>3, <1>5, <1>8, <1>9, OneCall
<1>11. Types'
  BY <1>5, <1>8, <1>10 DEF PermissionInv, Types
<1>12. UsesCovered'
  <2>1. \A k \in Messages : auths'[k] # auths[k] => auths[k] = None /\ auths'[k] = n
    BY <1>6, <1>7 DEF PermissionInv, Types
  <2>2. \A k \in Messages : auths[k] = None => Cardinality(Uses(k)) = 0
    BY FS_EmptySet DEF PermissionInv, UsesCovered
  <2> QED BY <1>4, <1>5, <2>1, <2>2 DEF PermissionInv, UsesCovered, Uses
<1>13. RevisionCounts'
  <2>1. RevokedSet' = RevokedSet
    BY <1>4, <1>6, <1>7 DEF RevokedSet, PermissionInv, Types
  <2>2. CASE sources[m] = "pending" /\ sources' = [sources EXCEPT ![m] = "compiled"]
             /\ revision' = revision + 1
    <3>1. CompiledSet' = CompiledSet \cup {m} /\ m \notin CompiledSet
      BY <2>2 DEF CompiledSet, PermissionInv, Types
    <3>2. Cardinality(CompiledSet') = Cardinality(CompiledSet) + 1
      BY <3>1, RevisionSets, FS_AddElement
    <3>3. revision' = Cardinality(CompiledSet') + Cardinality(RevokedSet')
      BY <2>1, <2>2, <3>2, RevisionSets DEF PermissionInv
    <3> QED BY <3>3 DEF RevisionCounts, CompiledSet, RevokedSet
  <2>3. CASE CompiledSet' = CompiledSet /\ revision' = revision
    BY <2>1, <2>3 DEF RevisionCounts, CompiledSet, RevokedSet, PermissionInv
  <2>4. CASE sources[m] = "pending" /\ sources' = [sources EXCEPT ![m] = "failed"]
             /\ revision' = revision
    BY <2>3, <2>4 DEF CompiledSet, PermissionInv, Types
  <2>5. CASE sources' = sources /\ revision' = revision
    BY <2>3, <2>5 DEF CompiledSet
  <2> QED BY <1>6, <2>2, <2>4, <2>5
<1> QED BY <1>5, <1>8, <1>10, <1>11, <1>12, <1>13, ConfirmationKept DEF PermissionInv

\* startToolExecution looks again at what allows the call and uses it up.
LEMMA StartToolKeeps ==
  ASSUME PermissionInv, NEW a \in Agents, StartTool(a)
  PROVE  PermissionInv'
<1> DEFINE via == call[a].via
           s == [agent |-> a, attempt |-> attempt[a], intent |-> call[a].intent,
                 via |-> via, nth |-> Cardinality(Uses(via)) + 1]
<1>1. /\ via \in Vias /\ call[a].intent \in Intents /\ attempt[a] \in Attempts
      /\ AllowedBy(a, via) /\ StillAllowed(a, via)
  BY DEF StartTool, PermissionInv, Types, CallsSound, CallSound, CallType
<1>2. \A v : IsFiniteSet(Uses(v)) /\ Cardinality(Uses(v)) \in Nat
  <2>1. \A v : Uses(v) \subseteq started
    BY DEF Uses
  <2>2. \A v : IsFiniteSet(Uses(v))
    BY <2>1, FS_Subset DEF PermissionInv, Types
  <2> QED BY <2>2, FS_CardinalityType
<1>3. /\ s \in StartType /\ s.agent = a /\ s.attempt = attempt[a] /\ s.intent = call[a].intent
      /\ s.via = via
  BY <1>1, <1>2 DEF StartType
<1>4. started' = started \cup {s}
  BY DEF StartTool
<1> HIDE DEF s
<1>5. started' \subseteq StartType /\ IsFiniteSet(started')
  BY <1>3, <1>4, FS_AddElement DEF PermissionInv, Types
<1>6. \A v : Uses(v)' = IF v = via THEN Uses(v) \cup {s} ELSE Uses(v)
  BY <1>3, <1>4 DEF Uses
<1>7. ~(via \in GrantIds /\ via \in Messages)
  BY MessagesAssumption DEF GrantIds
<1>8. /\ grants' \in [GrantIds -> {None} \cup Grants] /\ GrantsKept
      /\ \A g \in GrantIds : g # via => grants'[g] = grants[g]
      /\ (via \in GrantIds /\ grants[via].lifetime = "once") => grants'[via].state = "consumed"
  <2>1. CASE via \in GrantIds /\ grants[via].lifetime = "once"
    <3>1. grants' = [grants EXCEPT ![via].state = "consumed"]
      BY <2>1 DEF StartTool
    <3>2. grants[via] # None /\ "consumed" \in States /\ via \in GrantIds
      BY <1>1, <2>1 DEF AllowedBy, States
    <3> HIDE DEF via
    <3>3. /\ grants' \in [GrantIds -> {None} \cup Grants]
          /\ grants'[via] \in Grants /\ grants'[via].state = "consumed"
          /\ grants'[via].intent = grants[via].intent
          /\ grants'[via].lifetime = grants[via].lifetime
          /\ grants'[via].agent = grants[via].agent /\ grants'[via].attempt = grants[via].attempt
          /\ \A h \in GrantIds : h # via => grants'[h] = grants[h]
      BY <3>1, <3>2, GrantState DEF PermissionInv
    <3> QED BY <3>3, NamesAssumption DEF GrantsKept
  <2>2. CASE ~(via \in GrantIds /\ grants[via].lifetime = "once")
    <3>1. grants' = grants
      BY <2>2 DEF StartTool
    <3> QED BY <2>2, <3>1 DEF GrantsKept, PermissionInv, Types
  <2> QED BY <2>1, <2>2
<1>9. /\ auths' \in [Messages -> {None} \cup Authorizations] /\ AuthsKept
      /\ \A m \in Messages : m # via => auths'[m] = auths[m]
      /\ via \in Messages =>
           (auths'[via].used = auths[via].used + 1 /\ auths'[via] # None
             /\ auths[via].used \in Nat /\ auths[via].state = "active"
             /\ auths'[via].state # "revoked")
  <2>1. CASE via \in Messages
    <3> DEFINE u == auths[via].used + 1
               t == IF auths[via].used + 1 >= MaxUses THEN "consumed" ELSE auths[via].state
    <3>1. /\ auths[via] # None /\ auths[via].state = "active" /\ auths[via].used < MaxUses
          /\ via \in Messages
      BY <1>1, <2>1 DEF AllowedBy, StillAllowed
    <3>2. auths[via] \in Authorizations
      BY <3>1, AuthRecord DEF PermissionInv
    <3>3. u \in 0..MaxUses /\ t \in States /\ t # "revoked" /\ auths[via].used \in Nat
      BY <3>1, <3>2, BoundAssumption DEF Authorizations, States
    <3>4. auths' = [auths EXCEPT ![via].used = u, ![via].state = t]
      BY <2>1, <3>1 DEF StartTool, PermissionInv, Types
    <3>5. u = auths[via].used + 1
      OBVIOUS
    <3> HIDE DEF via, u, t
    <3>6. /\ auths' \in [Messages -> {None} \cup Authorizations]
          /\ auths'[via] \in Authorizations /\ auths'[via].state = t /\ auths'[via].used = u
          /\ \A k \in Messages : k # via => auths'[k] = auths[k]
      BY <3>1, <3>3, <3>4, AuthUpdate DEF PermissionInv
    <3> QED BY <3>1, <3>3, <3>5, <3>6, NamesAssumption DEF AuthsKept
  <2>2. CASE via \notin Messages
    <3>1. auths' = auths
      BY <2>2 DEF StartTool
    <3> QED BY <2>2, <3>1 DEF AuthsKept, PermissionInv, Types
  <2> QED BY <2>1, <2>2
<1>10. UNCHANGED <<attempt, sources, revision, denied>> /\ Ended(a)
  BY DEF StartTool
<1>11. call' \in [Agents -> CallType] /\ CallsSound'
  BY <1>8, <1>9, <1>10, EndedSound, OneCall
<1>12. Types'
  BY <1>5, <1>8, <1>9, <1>10, <1>11 DEF PermissionInv, Types
<1>13. AuthsSound'
  BY <1>1, <1>9, <1>10 DEF PermissionInv, AuthsSound, AllowedBy
<1>14. RevisionCounts'
  <2>1. RevokedSet' = RevokedSet
    BY <1>9 DEF RevokedSet
  <2> QED BY <1>10, <2>1 DEF PermissionInv, RevisionCounts, RevokedSet
<1>15. ConfirmedByUser'
  <2>1. ASSUME NEW x \in started', x.intent = "confirm"
        PROVE  \/ /\ x.via \in GrantIds
                  /\ grants'[x.via].lifetime = "once" /\ grants'[x.via].intent = "confirm"
                  /\ grants'[x.via].agent = x.agent /\ grants'[x.via].attempt = x.attempt
               \/ x.via \in Messages /\ sources'[x.via] = "compiled"
    <3>1. CASE x \in started
      <4>1. x.via \in GrantIds => grants[x.via] # None
        BY <3>1 DEF PermissionInv, UsesCovered, Uses
      <4> QED BY <1>8, <1>10, <2>1, <3>1, <4>1 DEF PermissionInv, ConfirmedByUser, GrantsKept
    <3>2. CASE x = s
      BY <1>1, <1>3, <1>8, <1>10, <2>1, <3>2 DEF AllowedBy, PermissionInv, AuthsSound, GrantsKept
    <3> QED BY <1>4, <3>1, <3>2
  <2> QED BY <2>1 DEF ConfirmedByUser
<1>16. UsesCovered'
  <2>1. ASSUME NEW g \in GrantIds
        PROVE  /\ grants'[g] = None => Uses(g)' = {}
               /\ (grants'[g] # None /\ grants'[g].lifetime = "once") =>
                    /\ grants'[g].state = "active" => Uses(g)' = {}
                    /\ \A x, y \in Uses(g)' : x = y
    <3>1. CASE g # via
      BY <1>6, <1>8, <3>1 DEF PermissionInv, UsesCovered
    <3>2. CASE g = via
      <4>1. grants[g] # None /\ grants[g].state = "active"
        BY <1>1, <3>2 DEF AllowedBy, StillAllowed
      <4>2. grants'[g] # None /\ grants'[g].lifetime = grants[g].lifetime
        BY <1>8, <4>1 DEF GrantsKept
      <4>3. grants[g].lifetime = "once" => (Uses(g) = {} /\ grants'[g].state = "consumed")
        BY <1>8, <3>2, <4>1 DEF PermissionInv, UsesCovered
      <4> QED BY <1>6, <3>2, <4>2, <4>3
    <3> QED BY <3>1, <3>2
  <2>2. ASSUME NEW m \in Messages
        PROVE  /\ auths'[m] = None => Uses(m)' = {}
               /\ auths'[m] # None => Cardinality(Uses(m)') <= auths'[m].used
    <3>1. CASE m # via
      BY <1>6, <1>9, <3>1 DEF PermissionInv, UsesCovered
    <3>2. CASE m = via
      <4>1. auths[m] # None /\ Cardinality(Uses(m)) <= auths[m].used
        BY <1>1, <3>2 DEF AllowedBy, PermissionInv, UsesCovered
      <4>2. Cardinality(Uses(m)') <= Cardinality(Uses(m)) + 1
        <5>1. Uses(m)' = Uses(m) \cup {s} /\ IsFiniteSet(Uses(m)) /\ Cardinality(Uses(m)) \in Nat
          BY <1>2, <1>6, <3>2
        <5>2. CASE s \in Uses(m)
          <6>1. Uses(m)' = Uses(m)
            BY <5>1, <5>2
          <6>2. Cardinality(Uses(m)') = Cardinality(Uses(m))
            BY <6>1, Zenon
          <6> QED BY <5>1, <6>2
        <5>3. CASE s \notin Uses(m)
          <6>1. Cardinality(Uses(m) \cup {s}) = Cardinality(Uses(m)) + 1
            BY <5>1, <5>3, FS_AddElement
          <6> QED BY <5>1, <6>1
        <5> QED BY <5>2, <5>3
      <4>3. Cardinality(Uses(m)') \in Nat
        BY <1>2, <1>6, <3>2, FS_AddElement, FS_CardinalityType
      <4>4. auths'[m].used = auths[m].used + 1 /\ auths'[m] # None /\ auths[m].used \in Nat
        BY <1>9, <3>2
      <4> QED BY <1>2, <4>1, <4>2, <4>3, <4>4
    <3> QED BY <3>1, <3>2
  <2> QED BY <2>1, <2>2 DEF UsesCovered
<1> QED BY <1>11, <1>12, <1>13, <1>14, <1>15, <1>16 DEF PermissionInv

-----------------------------------------------------------------------------
(* The theorems                                                            *)

LEMMA PermissionInit == Init => PermissionInv
<1> SUFFICES ASSUME Init PROVE PermissionInv
  OBVIOUS
<1>1. NoCall \in CallType /\ NoCall.phase = "idle"
  BY FirstCalls
<1>2. Types
  BY <1>1, BoundAssumption, FS_EmptySet DEF Init, Types, Attempts
<1>3. \A a \in Agents : call[a].phase = "idle"
  BY <1>1 DEF Init
<1>4. CallsSound
  BY <1>3 DEF CallsSound, CallSound
<1>5. \A v : Uses(v) = {}
  BY DEF Init, Uses
<1>6. AuthsSound /\ UsesCovered /\ ConfirmedByUser
  BY <1>5 DEF Init, AuthsSound, UsesCovered, ConfirmedByUser
<1>7. RevisionCounts
  <2>1. CompiledSet = {} /\ RevokedSet = {} /\ revision = 0
    BY NamesAssumption DEF Init, CompiledSet, RevokedSet
  <2>2. revision = Cardinality(CompiledSet) + Cardinality(RevokedSet)
    BY <2>1, FS_EmptySet
  <2> QED BY <2>2, RevisionSets
<1> QED BY <1>2, <1>4, <1>6, <1>7 DEF PermissionInv

LEMMA PermissionNext == PermissionInv /\ [Next]_vars => PermissionInv'
<1> SUFFICES ASSUME PermissionInv, [Next]_vars PROVE PermissionInv'
  OBVIOUS
<1>1. CASE UNCHANGED vars
  <2>1. Types' /\ AuthsSound' /\ UsesCovered' /\ RevisionCounts' /\ ConfirmedByUser'
    BY <1>1 DEF vars, PermissionInv, Types, AuthsSound, UsesCovered, RevisionCounts,
                ConfirmedByUser, Uses
  <2>2. CallsSound'
    BY <1>1 DEF vars, PermissionInv, CallsSound, CallSound, AllowedBy
  <2> QED BY <2>1, <2>2 DEF PermissionInv
<1>2. CASE Next
  BY <1>2, SayKeeps, RevokeAuthorizationKeeps, RevokeGrantKeeps, CallSteps, CompileKeeps,
     StartToolKeeps, ApproveKeeps, DenyKeeps, RestartKeeps DEF Next
<1> QED BY <1>1, <1>2

\* The decisions of the kernel, the grants and the authorizations fit together in
\* every state (before_tool, PermissionKernel.authorize, startToolExecution).
THEOREM PermissionSound == Spec => []PermissionInv
BY PermissionInit, PermissionNext, PTL DEF Spec

\* A grant for one use starts at most one tool and an authorization at most its
\* max_uses, however Workers decide and start at the same time.
THEOREM UsesAreLimitedAlways == Spec => []UsesAreLimited
<1>1. PermissionInv => UsesAreLimited
  <2> SUFFICES ASSUME PermissionInv PROVE UsesAreLimited
    OBVIOUS
  <2>1. \A v : IsFiniteSet(Uses(v)) /\ Cardinality(Uses(v)) \in Nat
    <3>1. \A v : Uses(v) \subseteq started
      BY DEF Uses
    <3>2. \A v : IsFiniteSet(Uses(v))
      BY <3>1, FS_Subset DEF PermissionInv, Types
    <3> QED BY <3>2, FS_CardinalityType
  <2>2. ASSUME NEW g \in GrantIds, grants[g] # None, grants[g].lifetime = "once"
        PROVE  Cardinality(Uses(g)) <= 1
    <3>1. \A s, t \in Uses(g) : s = t
      BY <2>2 DEF PermissionInv, UsesCovered
    <3>2. CASE Uses(g) = {}
      BY <3>2, FS_EmptySet
    <3>3. ASSUME NEW s \in Uses(g) PROVE Cardinality(Uses(g)) <= 1
      <4>1. Uses(g) = {s}
        BY <3>1, <3>3
      <4>2. Cardinality({s}) = 1
        BY FS_Singleton
      <4> QED BY <4>1, <4>2
    <3> QED BY <3>2, <3>3
  <2>3. ASSUME NEW m \in Messages PROVE Cardinality(Uses(m)) <= MaxUses
    <3>1. CASE auths[m] = None
      <4>1. Uses(m) = {}
        BY <3>1 DEF PermissionInv, UsesCovered
      <4> QED BY <4>1, FS_EmptySet, BoundAssumption
    <3>2. CASE auths[m] # None
      <4>1. auths[m].used \in 0..MaxUses
        BY <3>2, AuthRecord DEF PermissionInv, Authorizations
      <4> QED BY <2>1, <3>2, <4>1, BoundAssumption DEF PermissionInv, UsesCovered
    <3> QED BY <3>1, <3>2
  <2> QED BY <2>2, <2>3 DEF UsesAreLimited
<1> QED BY <1>1, PermissionSound, PTL

\* What needs the user's confirmation never starts on a reviewer's word, on a
\* wider grant or on a grant of another Attempt.
THEOREM ConfirmedByUserAlways == Spec => []ConfirmedByUser
<1>1. PermissionInv => ConfirmedByUser
  BY DEF PermissionInv
<1> QED BY <1>1, PermissionSound, PTL

\* The revision of the authorizations counts compiled messages and revocations,
\* although several Workers compile the same message.
THEOREM RevisionCountsAlways == Spec => []RevisionCounts
<1>1. PermissionInv => RevisionCounts
  BY DEF PermissionInv
<1> QED BY <1>1, PermissionSound, PTL

\* A tool that starts was not denied to its Attempt: a denial is only recorded by
\* the Worker whose call it is, so that no denial falls between decision and start.
THEOREM DenialHoldsAlways == Spec => DenialHolds
<1>1. PermissionInv /\ [Next]_vars =>
        [\A s \in started' \ started : <<s.agent, s.attempt, s.intent>> \notin denied]_vars
  <2> SUFFICES ASSUME PermissionInv, Next, NEW s \in started', s \notin started
               PROVE  <<s.agent, s.attempt, s.intent>> \notin denied
    OBVIOUS
  <2>1. PICK a \in Agents : StartTool(a)
    BY DEF Next, Say, RevokeAuthorization, RevokeGrant, BeginCall, Compile, Authorize, Review,
           RefuseTool, Approve, Deny, Block, Restart
  <2>2. s.agent = a /\ s.attempt = attempt[a] /\ s.intent = call[a].intent
    BY <2>1 DEF StartTool
  <2> QED BY <2>1, <2>2 DEF StartTool, PermissionInv, CallsSound, CallSound
<1> QED BY <1>1, PermissionSound, PTL DEF Spec, DenialHolds

\* A revoked or used-up grant or authorization stays as it is and starts nothing:
\* startToolExecution looks at its state again, in the transaction of the start.
THEOREM SpentIsFinalAlways == Spec => SpentIsFinal
<1> DEFINE SpentGrants == \A g \in GrantIds : (grants[g] # None /\ grants[g].state # "active") =>
             (grants'[g] = grants[g] /\ Uses(g)' = Uses(g))
           SpentAuths == \A m \in Messages : (auths[m] # None /\ auths[m].state # "active") =>
             (auths'[m] = auths[m] /\ Uses(m)' = Uses(m))
<1>1. ASSUME PermissionInv, UNCHANGED <<auths, grants, started>>
      PROVE  SpentGrants /\ SpentAuths
  BY <1>1 DEF Uses
<1>2. ASSUME PermissionInv, NEW g \in GrantIds, RevokeGrant(g)
      PROVE  SpentGrants /\ SpentAuths
  <2>1. \A h \in GrantIds : h # g => grants'[h] = grants[h]
    BY <1>2 DEF RevokeGrant, PermissionInv, Types
  <2> QED BY <1>2, <2>1 DEF RevokeGrant, Uses
<1>3. ASSUME PermissionInv, NEW m \in Messages, RevokeAuthorization(m)
      PROVE  SpentGrants /\ SpentAuths
  <2>1. \A k \in Messages : k # m => auths'[k] = auths[k]
    BY <1>3 DEF RevokeAuthorization, PermissionInv, Types
  <2> QED BY <1>3, <2>1 DEF RevokeAuthorization, Uses
<1>4. ASSUME PermissionInv, NEW a \in Agents, NEW m \in Messages, Compile(a, m)
      PROVE  SpentGrants /\ SpentAuths
  <2>1. auths' = auths \/ (auths[m] = None /\ \A k \in Messages : k # m => auths'[k] = auths[k])
    BY <1>4 DEF Compile, CompletePending, PermissionInv, Types, AuthsSound
  <2> QED BY <1>4, <2>1 DEF Compile, Uses
<1>5. ASSUME PermissionInv, NEW a \in Agents, NEW lifetime \in Lifetimes, Approve(a, lifetime)
      PROVE  SpentGrants /\ SpentAuths
  <2>1. PICK g \in GrantIds : grants[g] = None /\ \A h \in GrantIds : h # g => grants'[h] = grants[h]
    BY <1>5 DEF Approve, PermissionInv, Types
  <2> QED BY <1>5, <2>1 DEF Approve, Uses
<1>6. ASSUME PermissionInv, NEW a \in Agents, StartTool(a)
      PROVE  SpentGrants /\ SpentAuths
  <2>1. /\ call[a].via \in GrantIds => grants[call[a].via].state = "active"
        /\ call[a].via \in Messages => auths[call[a].via].state = "active"
    BY <1>6 DEF StartTool, StillAllowed
  <2>2. /\ \A g \in GrantIds : g # call[a].via => grants'[g] = grants[g]
        /\ \A m \in Messages : m # call[a].via => auths'[m] = auths[m]
    BY <1>6 DEF StartTool, PermissionInv, Types
  <2>3. \A v : v # call[a].via => Uses(v)' = Uses(v)
    BY <1>6 DEF StartTool, Uses
  <2> QED BY <2>1, <2>2, <2>3
<1>7. ASSUME PermissionInv, [Next]_vars PROVE SpentGrants /\ SpentAuths
  <2> HIDE DEF SpentGrants, SpentAuths
  <2>1. CASE \E m \in Messages : Say(m)
    BY <1>1, <1>7, <2>1 DEF Say
  <2>2. ASSUME NEW a \in Agents,
               \/ \E i \in Intents : BeginCall(a, i)
               \/ Authorize(a) \/ Review(a) \/ RefuseTool(a) \/ Deny(a) \/ Block(a) \/ Restart(a)
        PROVE  SpentGrants /\ SpentAuths
    BY <1>1, <1>7, <2>2 DEF BeginCall, Authorize, Review, RefuseTool, Deny, Block, Restart
  <2>3. CASE UNCHANGED vars
    BY <1>1, <1>7, <2>3 DEF vars
  <2> QED BY <1>2, <1>3, <1>4, <1>5, <1>6, <1>7, <2>1, <2>2, <2>3 DEF Next
<1>8. PermissionInv /\ [Next]_vars => [SpentGrants /\ SpentAuths]_vars
  BY <1>7
<1> QED BY <1>8, PermissionSound, PTL DEF Spec, SpentIsFinal
=============================================================================
