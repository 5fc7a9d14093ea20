--------------------------- MODULE ToolPermission ---------------------------
(***************************************************************************)
(* Permission for the tool calls of a Task: what a call is allowed by, and *)
(* how often.  Before a tool starts, its Worker compiles the user's new    *)
(* messages into Task Authorizations, asks the PermissionKernel, perhaps   *)
(* asks the user and creates a grant, and then starts the tool, which uses *)
(* up the grant or the authorization in the same transaction.  Between the *)
(* decision and the start the Workers of other Agents of the Task and the  *)
(* user (who revokes) change what the decision was based on.               *)
(*                                                                         *)
(* Intents are the two classes the kernel tells apart after its static     *)
(* checks: "confirm" needs the user's confirmation (external effects,      *)
(* destructive commands), "process" may also be allowed by a risk review.  *)
(* A workspace grant acts within one Task like a "task" grant, and no      *)
(* caller gives a grant an expiry, so that both are left out.              *)
(***************************************************************************)
EXTENDS Naturals, FiniteSets

CONSTANTS
  Agents,
  Messages,     \* messages of the user that may hold an authorization
  None,
  Reviewer,     \* the risk reviewer, as what allows a call
  MaxUses,      \* max_uses of a compiled authorization
  MaxGrants,    \* bound: grants the user gives
  MaxRestarts,  \* bound: highest number of an Attempt that is replaced
  MaxCalls      \* bound: tool calls of the Task

ASSUME BoundAssumption == {MaxUses, MaxGrants, MaxRestarts, MaxCalls} \subseteq Nat \ {0}
ASSUME MessagesAssumption == IsFiniteSet(Messages) /\ Messages \cap 1..MaxGrants = {}

Attempts == 1..(MaxRestarts + 1)
GrantIds == 1..MaxGrants
Intents == {"confirm", "process"}
Lifetimes == {"once", "attempt", "task"}
States == {"active", "consumed", "revoked"}

Grants == [intent : Intents, lifetime : Lifetimes, agent : Agents, attempt : Attempts,
           state : States]
Authorizations == [state : States, used : 0..MaxUses]

ASSUME NamesAssumption ==
  /\ None \notin Messages \cup GrantIds /\ None \notin {"pending", "compiled", "failed"}
  /\ Reviewer \notin Messages \cup GrantIds
  /\ None \notin Grants /\ None \notin Authorizations

VARIABLES
  attempt,    \* the current Attempt of an Agent
  sources,    \* task_authorization_sources.state, None before the message
  auths,      \* the authorization compiled from a message, or None
  revision,   \* task_authorization_state.revision
  grants,     \* permission_grants by id, None for an id not yet used
  denied,     \* the user's denials: <<Agent, Attempt, intent>>
  call,       \* the tool call an Agent's Worker is deciding on
  calls,      \* tool calls so far
  started     \* ToolStarted events

vars == <<attempt, sources, auths, revision, grants, denied, call, calls, started>>

NoCall == [phase |-> "idle", intent |-> None, todo |-> {}, via |-> None, asked |-> FALSE]

TypeOK ==
  /\ attempt \in [Agents -> Attempts]
  /\ sources \in [Messages -> {None, "pending", "compiled", "failed"}]
  /\ auths \in [Messages -> {None} \cup Authorizations]
  /\ revision \in 0..(2 * Cardinality(Messages))
  /\ grants \in [GrantIds -> {None} \cup Grants]
  /\ denied \subseteq Agents \X Attempts \X Intents
  /\ calls \in 0..MaxCalls
  /\ \A a \in Agents :
       /\ call[a].phase \in {"idle", "authorize", "review", "ask", "allowed"}
       /\ call[a].todo \subseteq Messages
       /\ call[a].via \in {None, Reviewer} \cup GrantIds \cup Messages
  /\ \A s \in started : s.intent \in Intents /\ s.nth \in 1..MaxCalls

Init ==
  /\ attempt = [a \in Agents |-> 1]
  /\ sources = [m \in Messages |-> None] /\ auths = [m \in Messages |-> None]
  /\ revision = 0
  /\ grants = [g \in GrantIds |-> None]
  /\ denied = {} /\ started = {}
  /\ call = [a \in Agents |-> NoCall] /\ calls = 0

Pending == {m \in Messages : sources[m] = "pending"}

-----------------------------------------------------------------------------
(* The user                                                                *)

\* registerTaskAuthorizationSource: the goal, or steering
Say(m) ==
  /\ sources[m] = None
  /\ sources' = [sources EXCEPT ![m] = "pending"]
  /\ UNCHANGED <<attempt, auths, revision, grants, denied, call, calls, started>>

RevokeGrant(g) ==
  /\ grants[g] # None /\ grants[g].state = "active"
  /\ grants' = [grants EXCEPT ![g].state = "revoked"]
  /\ UNCHANGED <<attempt, sources, auths, revision, denied, call, calls, started>>

RevokeAuthorization(m) ==
  /\ auths[m] # None /\ auths[m].state = "active"
  /\ auths' = [auths EXCEPT ![m].state = "revoked"]
  /\ revision' = revision + 1
  /\ UNCHANGED <<attempt, sources, grants, denied, call, calls, started>>

-----------------------------------------------------------------------------
(* A tool call                                                             *)

\* before_tool lists the pending messages ...
BeginCall(a, i) ==
  /\ call[a].phase = "idle" /\ calls < MaxCalls
  /\ calls' = calls + 1
  /\ call' = [call EXCEPT ![a] = [NoCall EXCEPT !.phase = "authorize", !.intent = i, !.todo = Pending]]
  /\ UNCHANGED <<attempt, sources, auths, revision, grants, denied, started>>

\* Mutant: the message is not looked at again when its compilation is stored.
CompletePendingOrNot(m) == TRUE

\* completeTaskAuthorizationSource and failTaskAuthorizationSource: the first
\* Worker to store its result wins.
CompletePending(m) == sources[m] = "pending"

\* ... and compiles one after the other, with a request to the model in between.
Compile(a, m) ==
  /\ m \in call[a].todo
  /\ call' = [call EXCEPT ![a].todo = @ \ {m}]
  /\ IF CompletePending(m)
     THEN \/ /\ sources' = [sources EXCEPT ![m] = "compiled"]
             /\ revision' = revision + 1
             /\ auths' \in {auths, [auths EXCEPT ![m] = [state |-> "active", used |-> 0]]}
          \/ /\ sources' = [sources EXCEPT ![m] = "failed"]
             /\ UNCHANGED <<auths, revision>>
     ELSE UNCHANGED <<sources, auths, revision>>
  /\ UNCHANGED <<attempt, grants, denied, calls, started>>

\* Mutant: a grant outlives the Attempt it was given to.
UsableByAny(a, i) ==
  {g \in GrantIds : grants[g] # None /\ grants[g].state = "active" /\ grants[g].intent = i}

\* listActivePermissionGrants, and the kernel's conditions on a grant
Usable(a, i) ==
  {g \in GrantIds :
    /\ grants[g] # None
    /\ grants[g].state = "active" /\ grants[g].intent = i
    /\ grants[g].lifetime # "task" => (grants[g].agent = a /\ grants[g].attempt = attempt[a])
    /\ i = "confirm" => grants[g].lifetime = "once"}

\* listActiveTaskAuthorizations; a compiled authorization is for a "confirm" intent
Authorizing(i) ==
  {m \in Messages : i = "confirm" /\ auths[m] # None /\ auths[m].state = "active"
                    /\ auths[m].used < MaxUses}

Ended(a) == call' = [call EXCEPT ![a] = NoCall]

Allowed(a, via) == call' = [call EXCEPT ![a].phase = "allowed", ![a].via = via]

\* Mutant: an intent to be confirmed is asked about again and again.
WasDeniedProcess(a, i) == i = "process" /\ <<a, attempt[a], i>> \in denied

\* wasDenied, read before anything that could allow the call
WasDenied(a, i) == <<a, attempt[a], i>> \in denied

\* PermissionKernel.authorize
Authorize(a) ==
  LET i == call[a].intent IN
  /\ call[a].phase = "authorize" /\ call[a].todo = {}
  /\ \/ WasDenied(a, i) /\ Ended(a)
     \/ /\ ~WasDenied(a, i)
        /\ \/ \E m \in Authorizing(i) : Allowed(a, m)
           \/ /\ Authorizing(i) = {}
              /\ \E g \in Usable(a, i) : (\A h \in Usable(a, i) : g <= h) /\ Allowed(a, g)
           \/ /\ Authorizing(i) = {} /\ Usable(a, i) = {}
              /\ call' = [call EXCEPT ![a].phase = IF i = "process" THEN "review" ELSE "ask"]
  /\ UNCHANGED <<attempt, sources, auths, revision, grants, denied, calls, started>>

\* The answer of the risk reviewer, or its failure
Review(a) ==
  /\ call[a].phase = "review"
  /\ Allowed(a, Reviewer) \/ Ended(a) \/ call' = [call EXCEPT ![a].phase = "ask"]
  /\ UNCHANGED <<attempt, sources, auths, revision, grants, denied, calls, started>>

\* The user allows the call: a grant for its intent, and the kernel is asked
\* again.  Some intents to be confirmed are offered for every lifetime, although
\* only a grant for one use allows them.
Approve(a, lifetime) ==
  LET i == call[a].intent
      free == {g \in GrantIds : grants[g] = None}
  IN
  /\ call[a].phase = "ask" /\ ~call[a].asked
  /\ \E g \in free :
       /\ \A h \in free : g <= h
       /\ grants' = [grants EXCEPT ![g] =
            [intent |-> i, lifetime |-> lifetime, agent |-> a, attempt |-> attempt[a],
             state |-> "active"]]
  /\ call' = [call EXCEPT ![a].phase = "authorize", ![a].asked = TRUE]
  /\ UNCHANGED <<attempt, sources, auths, revision, denied, calls, started>>

\* recordPermissionDecision of the user's denial
Deny(a) ==
  /\ call[a].phase = "ask" /\ ~call[a].asked
  /\ denied' = denied \cup {<<a, attempt[a], call[a].intent>>}
  /\ Ended(a)
  /\ UNCHANGED <<attempt, sources, auths, revision, grants, calls, started>>

\* Nobody answers, or the kernel asks a second time: the call is blocked.
Block(a) ==
  /\ call[a].phase = "ask"
  /\ Ended(a)
  /\ UNCHANGED <<attempt, sources, auths, revision, grants, denied, calls, started>>

\* Mutant: what the decision has seen is used without looking again.
StillAllowedAsDecided(a, via) == TRUE

\* The checks of startToolExecution on the grant or the authorization
StillAllowed(a, via) ==
  /\ via \in GrantIds => grants[via].state = "active"
  /\ via \in Messages => (auths[via].state = "active" /\ auths[via].used < MaxUses)

Uses(via) == {s \in started : s.via = via}

\* startToolExecution
StartTool(a) ==
  LET via == call[a].via IN
  /\ call[a].phase = "allowed"
  /\ StillAllowed(a, via)
  /\ grants' = IF via \in GrantIds /\ grants[via].lifetime = "once"
               THEN [grants EXCEPT ![via].state = "consumed"] ELSE grants
  /\ auths' = IF via \in Messages
              THEN [auths EXCEPT ![via].used = @ + 1,
                                 ![via].state = IF auths[via].used + 1 >= MaxUses THEN "consumed" ELSE @]
              ELSE auths
  /\ started' = started \cup {[agent |-> a, attempt |-> attempt[a], intent |-> call[a].intent,
                               via |-> via, nth |-> Cardinality(Uses(via)) + 1]}
  /\ Ended(a)
  /\ UNCHANGED <<attempt, sources, revision, denied, calls>>

\* It throws: the tool does not start.
RefuseTool(a) ==
  /\ call[a].phase = "allowed"
  /\ ~StillAllowed(a, call[a].via)
  /\ Ended(a)
  /\ UNCHANGED <<attempt, sources, auths, revision, grants, denied, calls, started>>

\* The Worker dies; the Agent continues with a new Attempt.
Restart(a) ==
  /\ \A b \in Agents : attempt[b] <= MaxRestarts
  /\ attempt' = [attempt EXCEPT ![a] = @ + 1]
  /\ Ended(a)
  /\ UNCHANGED <<sources, auths, revision, grants, denied, calls, started>>

-----------------------------------------------------------------------------
Next ==
  \/ \E m \in Messages : Say(m) \/ RevokeAuthorization(m)
  \/ \E g \in GrantIds : RevokeGrant(g)
  \/ \E a \in Agents :
       \/ \E i \in Intents : BeginCall(a, i)
       \/ \E m \in Messages : Compile(a, m)
       \/ Authorize(a) \/ Review(a) \/ StartTool(a) \/ RefuseTool(a)
       \/ \E lifetime \in Lifetimes : Approve(a, lifetime)
       \/ Deny(a) \/ Block(a) \/ Restart(a)

Spec == Init /\ [][Next]_vars

-----------------------------------------------------------------------------
(* Properties                                                              *)

\* However Workers and Attempts interleave, a grant for one use starts at most
\* one tool and an authorization at most its max_uses (startToolExecution).
UsesAreLimited ==
  /\ \A g \in GrantIds : (grants[g] # None /\ grants[g].lifetime = "once") =>
       Cardinality(Uses(g)) <= 1
  /\ \A m \in Messages : Cardinality(Uses(m)) <= MaxUses

\* Every started tool that needs the user's confirmation has one: a grant the
\* user gave for one use to this Attempt, or an authorization compiled from a
\* message of the user's; a reviewer never stands in.
ConfirmedByUser ==
  \A s \in started : s.intent = "confirm" =>
    \/ /\ s.via \in GrantIds
       /\ grants[s.via].lifetime = "once" /\ grants[s.via].intent = "confirm"
       /\ grants[s.via].agent = s.agent /\ grants[s.via].attempt = s.attempt
    \/ s.via \in Messages /\ sources[s.via] = "compiled"

\* What is revoked or used up stays so and starts no tool any more.
SpentIsFinal ==
  [][/\ \A g \in GrantIds : (grants[g] # None /\ grants[g].state # "active") =>
          (grants'[g] = grants[g] /\ Uses(g)' = Uses(g))
     /\ \A m \in Messages : (auths[m] # None /\ auths[m].state # "active") =>
          (auths'[m] = auths[m] /\ Uses(m)' = Uses(m))]_vars

\* The revision, which keys the cache of risk reviews, moves exactly when the
\* authorizations do: once per compiled message and per revocation, although
\* several Workers compile the same message.
RevisionCounts ==
  revision = Cardinality({m \in Messages : sources[m] = "compiled"})
           + Cardinality({m \in Messages : auths[m] # None /\ auths[m].state = "revoked"})

\* The user's denial of an intent holds for the rest of the Attempt, whatever
\* authorization or Task-wide grant comes later.
DenialHolds ==
  [][\A s \in started' \ started : <<s.agent, s.attempt, s.intent>> \notin denied]_vars
=============================================================================
