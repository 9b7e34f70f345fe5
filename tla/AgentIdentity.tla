----------------------------- MODULE AgentIdentity -----------------------------
(***************************************************************************)
(* What an owner does with an agent (service.ts and http.ts): creating it  *)
(* with an identity on Arc, publishing a version, entering it into a       *)
(* tournament, deactivating it; and the feedback a finished evaluation     *)
(* leaves on Arc (erc8004.ts).  A request is handled up to its next await  *)
(* in one step and several are handled at once; Circle executes one        *)
(* transaction per idempotency key and any call may fail; the process may  *)
(* end, which forgets the requests and keeps the records.                  *)
(***************************************************************************)
EXTENDS Integers, FiniteSets

CONSTANTS Agents,      \* api-agents records of one owner
          Texts,       \* a name with instructions
          OwnerRequests,    \* requests handled at once
          Campaigns,   \* finished evaluations
          MaxVersions, \* bound: versions of an agent
          MaxCrashes,  \* bound: ends of the process
          NoAgent      \* no record, no text

ASSUME AgentIdentityAssumption ==
    /\ NoAgent \notin Agents \cup Texts
    /\ MaxVersions \in Nat \ {0} /\ MaxCrashes \in Nat

VARIABLES agent,      \* api-agents
          onArc,      \* the agent on Arc: its ERC-8004 token, or its AgentRegistryV2 record
          registry,   \* whether identities are records of the registry instead of tokens
          requests,    \* the requests in flight
          entry,      \* api-registrations: the version prepared for the tournament, 0 for none
          entered,    \* the version registered with the tournament on Arc, 0 for none
          entrants,   \* entrantIds of the published tournament
          open,       \* who still takes registrations
          feedback,   \* erc8004-feedbacks
          publishing, \* the single flight of publish
          given,      \* feedback transactions on Arc, by the key each was sent with
          feedbackKeys, \* keys drawn for a campaign's feedback
          crashes     \* ends of the process so far

agentVars == <<agent, onArc, registry, requests, entry, entered, entrants, open>>
feedbackVars == <<feedback, publishing, given, feedbackKeys>>
identityVars == <<agentVars, feedbackVars, crashes>>

NoAgentRecord == [state |-> "ABSENT", text |-> NoAgent, versions |-> 0]
NoRequest == [pc |-> "idle", agent |-> NoAgent, version |-> 0]
NoFeedback == [state |-> "ABSENT", key |-> 0]

AgentIdentityTypeOK ==
    /\ agent \in [Agents -> [state : {"ABSENT", "PENDING", "ACTIVE", "INACTIVE"},
                             text : Texts \cup {NoAgent}, versions : 0..MaxVersions]]
    /\ onArc \in [Agents -> {"none", "active", "inactive"}] /\ registry \in BOOLEAN
    /\ requests \in [OwnerRequests ->
          [pc : {"idle", "registering", "registered", "entering", "entered", "reading", "deactivating", "deactivated"},
           agent : Agents \cup {NoAgent}, version : 0..MaxVersions]]
    /\ entry \in [Agents -> 0..MaxVersions] /\ entered \in [Agents -> 0..MaxVersions]
    /\ entrants \subseteq Agents /\ open \subseteq {"api", "arc"}
    /\ feedback \in [Campaigns -> [state : {"ABSENT", "PENDING", "FAILED", "COMPLETE"}, key : Nat]]
    /\ publishing \in [Campaigns -> {"idle", "giving", "given"}]
    /\ given \subseteq Campaigns \X Nat /\ feedbackKeys \in [Campaigns -> Nat]
    /\ crashes \in 0..MaxCrashes

Handles(r, pc, a, v) == requests' = [requests EXCEPT ![r] = [pc |-> pc, agent |-> a, version |-> v]]
Awaits(r, pc) == requests[r].pc = pc
Ends(r) == requests' = [requests EXCEPT ![r] = NoRequest]

-----------------------------------------------------------------------------
(* Creating an agent, and its versions. *)

\* The record an earlier request for the same agent left unfinished.
Draft(text) == {a \in Agents : agent[a].state = "PENDING" /\ agent[a].text = text}

\* POST /api/agents up to its await: prepareAgentCreation takes a draft up or makes one.
PrepareAgent(r, text) ==
    /\ Awaits(r, "idle")
    /\ \E a \in IF Draft(text) # {} THEN Draft(text) ELSE {n \in Agents : agent[n] = NoAgentRecord} :
          /\ agent' = [agent EXCEPT ![a] = [state |-> "PENDING", text |-> text, versions |-> 1]]
          /\ Handles(r, "registering", a, 1)
    /\ UNCHANGED <<onArc, registry, entry, entered, entrants, open, feedbackVars, crashes>>

\* The identity on Arc, asked for under the key of the draft: once per agent.
RegisterAgent(r) ==
    LET a == requests[r].agent
    IN  /\ Awaits(r, "registering")
        /\ onArc' = [onArc EXCEPT ![a] = IF @ = "none" THEN "active" ELSE @]
        /\ Handles(r, "registered", a, 1)
        /\ UNCHANGED <<agent, registry, entry, entered, entrants, open, feedbackVars, crashes>>

\* commitAgentCreation, refused when another request of the same draft came first.
CommitAgent(r) ==
    LET a == requests[r].agent
    IN  /\ Awaits(r, "registered")
        /\ agent' = [agent EXCEPT ![a].state = IF @ = "PENDING" THEN "ACTIVE" ELSE @]
        /\ Ends(r)
        /\ UNCHANGED <<onArc, registry, entry, entered, entrants, open, feedbackVars, crashes>>

UpdateAgent(a) ==
    /\ agent[a].state = "ACTIVE" /\ agent[a].versions < MaxVersions
    /\ agent' = [agent EXCEPT ![a].versions = @ + 1]
    /\ UNCHANGED <<onArc, registry, requests, entry, entered, entrants, open, feedbackVars, crashes>>

-----------------------------------------------------------------------------
(* Entering a tournament. *)

\* Mutant of Prepared: a repeated request prepares the newest version again.
PreparedNewest(a) == agent[a].versions
\* What was prepared for the tournament stays, whatever was published since.
Prepared(a) == IF entry[a] > 0 THEN entry[a] ELSE agent[a].versions

\* managed-registration up to its await: prepareRegistration.
PrepareRegistration(r, a) ==
    /\ Awaits(r, "idle") /\ "api" \in open /\ agent[a].state = "ACTIVE" /\ a \notin entrants
    /\ entry' = [entry EXCEPT ![a] = Prepared(a)]
    /\ Handles(r, "entering", a, Prepared(a))
    /\ UNCHANGED <<agent, onArc, registry, entered, entrants, open, feedbackVars, crashes>>

\* registerTournamentEntrant: the escrow takes the entrant once, until it closes.
RegisterEntrant(r) ==
    LET a == requests[r].agent
    IN  /\ Awaits(r, "entering") /\ (entered[a] > 0 \/ "arc" \in open)
        /\ entered' = [entered EXCEPT ![a] = IF @ > 0 THEN @ ELSE requests[r].version]
        /\ Handles(r, "entered", a, requests[r].version)
        /\ UNCHANGED <<agent, onArc, registry, entry, entrants, open, feedbackVars, crashes>>

\* confirmRegistration.
ConfirmRegistration(r) ==
    /\ Awaits(r, "entered")
    /\ entrants' = entrants \cup {requests[r].agent}
    /\ Ends(r)
    /\ UNCHANGED <<agent, onArc, registry, entry, entered, open, feedbackVars, crashes>>

\* registrationClosesAt passes, by the clock of the API and by that of Arc.
Close(side) ==
    /\ side \in open /\ open' = open \ {side}
    /\ UNCHANGED <<agent, onArc, registry, requests, entry, entered, entrants, feedbackVars, crashes>>

-----------------------------------------------------------------------------
(* Deactivating an agent. *)

\* DELETE of an agent with a token: nothing is asked of Arc.
DeactivateToken(a) ==
    /\ agent[a].state = "ACTIVE" /\ ~registry
    /\ agent' = [agent EXCEPT ![a].state = "INACTIVE"]
    /\ UNCHANGED <<onArc, registry, requests, entry, entered, entrants, open, feedbackVars, crashes>>

\* ... of one in the registry, up to the read of its record.
PrepareDeactivation(r, a) ==
    /\ Awaits(r, "idle") /\ agent[a].state = "ACTIVE" /\ registry
    /\ Handles(r, "reading", a, 0)
    /\ UNCHANGED <<agent, onArc, registry, entry, entered, entrants, open, feedbackVars, crashes>>

\* A record that is inactive already needs no transaction.
ReadBack(a) == IF onArc[a] = "active" THEN "deactivating" ELSE "deactivated"

ReadAgent(r) ==
    /\ Awaits(r, "reading")
    /\ Handles(r, ReadBack(requests[r].agent), requests[r].agent, 0)
    /\ UNCHANGED <<agent, onArc, registry, entry, entered, entrants, open, feedbackVars, crashes>>

\* deactivateAgent of the registry: once under the agent's key.
DeactivateOnArc(r) ==
    /\ Awaits(r, "deactivating")
    /\ onArc' = [onArc EXCEPT ![requests[r].agent] = "inactive"]
    /\ Handles(r, "deactivated", requests[r].agent, 0)
    /\ UNCHANGED <<agent, registry, entry, entered, entrants, open, feedbackVars, crashes>>

\* deactivateAgent of the service, refused when the agent is inactive by now.
DeactivateAgent(r) ==
    /\ Awaits(r, "deactivated")
    /\ agent' = [agent EXCEPT ![requests[r].agent].state = "INACTIVE"]
    /\ Ends(r)
    /\ UNCHANGED <<onArc, registry, entry, entered, entrants, open, feedbackVars, crashes>>

\* A call fails, before or after it took effect: the request ends with an error.
RequestFails(r) ==
    /\ requests[r] # NoRequest /\ Ends(r)
    /\ UNCHANGED <<agent, onArc, registry, entry, entered, entrants, open, feedbackVars, crashes>>

-----------------------------------------------------------------------------
(* Feedback. *)

\* recordFinalizedCampaign, or resumePending for a record that is there: the record is
\* stored with its key before anything is sent, and one publish of it runs at a time.
RecordCampaign(c) ==
    /\ publishing[c] = "idle" /\ feedback[c].state # "COMPLETE"
    /\ IF feedback[c] = NoFeedback
       THEN /\ feedbackKeys' = [feedbackKeys EXCEPT ![c] = @ + 1]
            /\ feedback' = [feedback EXCEPT ![c] = [state |-> "PENDING", key |-> feedbackKeys[c] + 1]]
       ELSE UNCHANGED <<feedback, feedbackKeys>>
    /\ publishing' = [publishing EXCEPT ![c] = "giving"]
    /\ UNCHANGED <<agentVars, given, crashes>>

GiveFeedback(c) ==
    /\ publishing[c] = "giving"
    /\ given' = given \cup {<<c, feedback[c].key>>}
    /\ publishing' = [publishing EXCEPT ![c] = "given"]
    /\ UNCHANGED <<agentVars, feedback, feedbackKeys, crashes>>

\* The receipt and the contract confirm it.
ConfirmFeedback(c) ==
    /\ publishing[c] = "given"
    /\ feedback' = [feedback EXCEPT ![c].state = "COMPLETE"]
    /\ publishing' = [publishing EXCEPT ![c] = "idle"]
    /\ UNCHANGED <<agentVars, given, feedbackKeys, crashes>>

Failed(record) == [record EXCEPT !.state = "FAILED"]

FeedbackFails(c) ==
    /\ publishing[c] # "idle"
    /\ feedback' = [feedback EXCEPT ![c] = Failed(@)]
    /\ publishing' = [publishing EXCEPT ![c] = "idle"]
    /\ UNCHANGED <<agentVars, given, feedbackKeys, crashes>>

ProcessCrashes ==
    /\ crashes < MaxCrashes /\ crashes' = crashes + 1
    /\ requests' = [r \in OwnerRequests |-> NoRequest]
    /\ publishing' = [c \in Campaigns |-> "idle"]
    /\ UNCHANGED <<agent, onArc, registry, entry, entered, entrants, open, feedback, given, feedbackKeys>>

AgentIdentityInit ==
    /\ agent = [a \in Agents |-> NoAgentRecord]
    /\ onArc = [a \in Agents |-> "none"] /\ registry \in BOOLEAN
    /\ requests = [r \in OwnerRequests |-> NoRequest]
    /\ entry = [a \in Agents |-> 0] /\ entered = [a \in Agents |-> 0]
    /\ entrants = {} /\ open = {"api", "arc"}
    /\ feedback = [c \in Campaigns |-> NoFeedback]
    /\ publishing = [c \in Campaigns |-> "idle"]
    /\ given = {} /\ feedbackKeys = [c \in Campaigns |-> 0]
    /\ crashes = 0

RequestStep(r) ==
    \/ \E text \in Texts : PrepareAgent(r, text)
    \/ RegisterAgent(r) \/ CommitAgent(r)
    \/ \E a \in Agents : PrepareRegistration(r, a) \/ PrepareDeactivation(r, a)
    \/ RegisterEntrant(r) \/ ConfirmRegistration(r)
    \/ ReadAgent(r) \/ DeactivateOnArc(r) \/ DeactivateAgent(r)
    \/ RequestFails(r)

OwnerStep == \/ \E r \in OwnerRequests : RequestStep(r)
             \/ \E a \in Agents : UpdateAgent(a) \/ DeactivateToken(a)
             \/ \E side \in open : Close(side)

FeedbackStep(c) == RecordCampaign(c) \/ GiveFeedback(c) \/ ConfirmFeedback(c) \/ FeedbackFails(c)

AgentIdentityNext ==
    \/ OwnerStep
    \/ \E c \in Campaigns : FeedbackStep(c)
    \/ ProcessCrashes

AgentIdentitySpec == AgentIdentityInit /\ [][AgentIdentityNext]_identityVars

-----------------------------------------------------------------------------
(* Properties. *)

\* However a creation is repeated, after an error, a crash or while it still runs, no
\* identity on Arc is left without an agent: an agent in use has one, a draft that may
\* have one is the only draft its owner's next request can take up, and an agent that is
\* deactivated is so on the registry too.
IdentityKept ==
    /\ \A a \in Agents :
          /\ agent[a].state = "ACTIVE" => onArc[a] # "none"
          /\ registry /\ agent[a].state = "INACTIVE" => onArc[a] = "inactive"
    /\ \A a, b \in Agents :
          agent[a].state = "PENDING" /\ agent[b].state = "PENDING" /\ agent[a].text = agent[b].text => a = b

\* The tournament plays the version that was staked: what Arc holds of an entrant is what
\* the API prepared for it, although versions, retries and deactivation come between.
EntryAsPrepared ==
    \A a \in Agents :
        /\ entered[a] > 0 => entered[a] = entry[a]
        /\ a \in entrants => entered[a] > 0

\* A finished evaluation leaves its feedback on Arc once, and is COMPLETE only with it.
FeedbackOnce ==
    \A c \in Campaigns :
        /\ Cardinality({g \in given : g[1] = c}) <= 1
        /\ feedback[c].state = "COMPLETE" => <<c, feedback[c].key>> \in given

\* What Arc and the API hold of an agent are the same agent, version and feedback.
IdentitySound == AgentIdentityTypeOK /\ IdentityKept /\ EntryAsPrepared /\ FeedbackOnce
=============================================================================
