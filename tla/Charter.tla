------------------------------- MODULE Charter -------------------------------
(***************************************************************************)
(* What an operator says an instance is, against what it does.  Settings   *)
(* (config.ts) name a file of agents (agentsSpec.ts) and a policy file     *)
(* (policySpec.ts); every command reads them when it starts.  `serve` and  *)
(* `export` open the store, mint the keys that are missing, vouch for      *)
(* agents that are not on the roster (instance.ts) and then work, or write *)
(* a bundle whose replay holds the whole record to the policy of the day.  *)
(* `config check` (runtime/configCheck.ts) says beforehand what is wrong.  *)
(*                                                                         *)
(* The operator edits while commands run: one command may read two         *)
(* versions of the agents file, once for the policy and once for the crew. *)
(***************************************************************************)
EXTENDS Integers, Sequences, FiniteSets, Functions

CONSTANTS
    Demo,           \* the agents of the collection used when no file is named
    Models,         \* models an endpoint may say it answered with
    Versions,       \* the settings an operator may choose, see below
    MaxEdits, MaxStarts, MaxDeeds, MaxDisowns   \* bounds

\* The shape of a version of the settings, see below.
AgentsFiles ==
    [json : BOOLEAN,
     entries : Seq([name : STRING, brain : STRING, persona : BOOLEAN, sound : BOOLEAN])]
Settings ==
    [wrong : SUBSET STRING, brain : STRING, model : STRING, allowed : BOOLEAN,
     controllers : SUBSET STRING, named : BOOLEAN, agents : AgentsFiles,
     policy : [brains : SUBSET STRING, controllers : SUBSET STRING, faults : SUBSET STRING]]

ASSUME CharterAssumption ==
    /\ Versions \subseteq Settings
    /\ Demo \subseteq STRING /\ Models \subseteq STRING
    /\ MaxEdits \in Nat /\ MaxStarts \in Nat /\ MaxDeeds \in Nat /\ MaxDisowns \in Nat

VARIABLES
    settings,       \* what a command would read now
    stage,          \* of `serve` and of the command at the operator's prompt
    opened,         \* the command that has the store open
    minted,         \* actors with a signing key on disk
    admissions,     \* the Vouch and Disown trail of the instance's chain
    deeds,          \* answers and approvals on the agents' chains
    bundle,         \* the last export
    cleared,        \* what `config check` last found in order
    refusal,        \* the last command that threw before it could work, and why
    edits, starts   \* bound

charterVars == <<settings, stage, opened, minted, admissions, deeds, bundle, cleared,
                 refusal, edits, starts>>

Nothing == [none |-> TRUE]
InstanceKey == "@instance"
Windows == {"service", "prompt"}    \* where commands run: the unit, the operator's shell
Idle == [at |-> "off", cmd |-> "none", read |-> Nothing, file |-> Nothing]

-----------------------------------------------------------------------------
(* Settings.  A version of them is                                         *)
(*   [wrong |-> kinds of mistakes in the variables, brain |-> AFP_BRAIN,   *)
(*    model |-> AFP_LLM_MODEL, allowed |-> its endpoint is allow-listed,   *)
(*    controllers |-> AFP_CONTROLLERS, named |-> AFP_AGENTS_FILE is set,   *)
(*    agents |-> the file: [json, entries], an entry [name, brain,         *)
(*    persona, sound], sound when its other members have the right shape,  *)
(*    policy |-> [brains, controllers, faults] of the policy file]         *)
Unstated == {"unstated"}

\* An AFP_BRAIN or AFP_PROFILE of another name, an integer that does not parse,
\* an http: origin outside development mode.
Unreadable == {"enum", "integer", "origin"}
LoadThrows(s) == s.wrong \cap Unreadable # {} \/ "json" \in s.policy.faults

\* What validate names: of the variables, then of the policy file.
Invalid == {"origin", "negative", "interval", "url", "segment", "secret", "directory"}
PolicyFaults == {"closed value", "empty text", "url", "digest", "hub twice", "no lifetime"}
Problems(s) == (s.wrong \cap Invalid) \cup (s.policy.faults \cap PolicyFaults)

\* An entry is refused for its own shape, for a name already used above it, and
\* for a model without a persona; one refused entry refuses the file.
Refused(es, i) ==
    \/ ~es[i].sound
    \/ \E j \in 1..(i - 1) : es[j].name = es[i].name
    \/ es[i].brain = "llm" /\ ~es[i].persona
Flawed(file) == ~file.json \/ \E i \in DOMAIN file.entries : Refused(file.entries, i)

-----------------------------------------------------------------------------
(* The crew and what it may sign with.                                     *)

Registered(es) ==
    [n \in {es[i].name : i \in DOMAIN es} |-> (CHOOSE e \in Range(es) : e.name = n).brain]

\* The demonstration's agents name a model only when one answers for them.
DemoCrew(s) == [n \in Demo |-> IF s.brain = "llm" THEN "llm" ELSE "silent"]
Hired(s, file) == IF s.named THEN Registered(file.entries) ELSE DemoCrew(s)
CrewOf(w) == Hired(stage[w].read, stage[w].file)

DerivedBrains(s) ==
    LET kinds == {e.brain : e \in Range(s.agents.entries)}
    IN  (IF "stub" \in kinds THEN {"stub"} ELSE {}) \cup (IF "llm" \in kinds THEN {s.model} ELSE {})

BrainOfTheVariable(s) == IF s.brain = "stub" THEN {"stub"} ELSE {s.model}
DefaultBrains(s) ==
    IF s.named /\ ~Flawed(s.agents) THEN DerivedBrains(s)
    ELSE IF s.brain = "stub" THEN {"stub"} ELSE {s.model}

\* The file's statements over the defaults; an empty list of controllers states nothing.
AssemblePolicy(s) ==
    [brains |-> IF s.policy.brains # Unstated THEN s.policy.brains ELSE DefaultBrains(s),
     controllers |-> IF s.policy.controllers # {} THEN s.policy.controllers ELSE s.controllers]

\* The signed document states every member of that policy, and is made once in a
\* process: what is edited later is not in it.
PolicyDocument(w) == AssemblePolicy(stage[w].read)

EndpointRefused(s, crew) == ~s.allowed /\ \E n \in DOMAIN crew : crew[n] = "llm"

\* What a Result says it was made by: the model the endpoint reports, the fixed
\* word of the echo, nothing at all.
MadeBy(kind) == IF kind = "llm" THEN Models ELSE IF kind = "stub" THEN {"stub"} ELSE {"unsaid"}

Roster ==
    {admissions[i].agent : i \in {i \in DOMAIN admissions :
        /\ admissions[i].act = "Vouch"
        /\ \A j \in DOMAIN admissions : j > i => admissions[j].agent # admissions[i].agent}}

\* The two activities of the instance that change the roster.
Vouch(n) == [act |-> "Vouch", agent |-> n]
Disown(n) == [act |-> "Disown", agent |-> n]

-----------------------------------------------------------------------------
CharterInit ==
    /\ settings \in Versions
    /\ stage = [w \in Windows |-> Idle]
    /\ opened = "nobody" /\ minted = {} /\ admissions = <<>> /\ deeds = <<>>
    /\ bundle = Nothing /\ cleared = Nothing /\ refusal = Nothing
    /\ edits = 0 /\ starts = 0

Edit ==
    /\ edits < MaxEdits
    /\ \E s \in Versions \ {settings} : settings' = s
    /\ edits' = edits + 1
    /\ UNCHANGED <<stage, opened, minted, admissions, deeds, bundle, cleared, refusal, starts>>

Begin(w) ==
    /\ stage[w].at = "off" /\ starts < MaxStarts
    /\ \E cmd \in IF w = "service" THEN {"serve"} ELSE {"export", "check"} :
         stage' = [stage EXCEPT ![w] = [Idle EXCEPT !.at = "load", !.cmd = cmd]]
    /\ starts' = starts + 1
    /\ UNCHANGED <<settings, opened, minted, admissions, deeds, bundle, cleared, refusal, edits>>

\* The settings of the command in w, as it read them.
AsRead(w, file) == [stage[w].read EXCEPT !.agents = file]

Throws(w, why, of) ==
    /\ stage' = [stage EXCEPT ![w] = Idle]
    /\ refusal' = [why |-> why, of |-> of]

\* loadConfig: the variables, the policy file, and the agents file for the policy.
LoadConfig(w) ==
    /\ stage[w].at = "load"
    /\ \/ LoadThrows(settings) /\ Throws(w, "settings", settings)
       \/ /\ ~LoadThrows(settings)
          /\ stage' = [stage EXCEPT ![w].read = settings,
                                    ![w].at = IF stage[w].cmd = "check" THEN "validate" ELSE "crew"]
          /\ UNCHANGED refusal
    /\ UNCHANGED <<settings, opened, minted, admissions, deeds, bundle, cleared, edits, starts>>

\* agentCollection: the agents file again, and the brains it names.
Collect(w) ==
    /\ stage[w].at = "crew"
    /\ \/ /\ stage[w].read.named /\ Flawed(settings.agents)
          /\ Throws(w, "agents", AsRead(w, settings.agents))
       \/ /\ stage[w].read.named => ~Flawed(settings.agents)
          /\ \/ /\ EndpointRefused(stage[w].read, Hired(stage[w].read, settings.agents))
                /\ Throws(w, "endpoint", AsRead(w, settings.agents))
             \/ /\ ~EndpointRefused(stage[w].read, Hired(stage[w].read, settings.agents))
                /\ stage' = [stage EXCEPT ![w].file = settings.agents, ![w].at = "open"]
                /\ UNCHANGED refusal
    /\ UNCHANGED <<settings, opened, minted, admissions, deeds, bundle, cleared, edits, starts>>

\* The constructor: the store and its lock, the instance's key, one for each agent.
OpenInstance(w) ==
    /\ stage[w].at = "open"
    /\ \/ /\ opened # "nobody" /\ Throws(w, "locked", AsRead(w, stage[w].file))
          /\ UNCHANGED <<opened, minted>>
       \/ /\ opened = "nobody"
          /\ opened' = w /\ minted' = minted \cup {InstanceKey}
          /\ stage' = [stage EXCEPT ![w].at = "mint"]
          /\ UNCHANGED refusal
    /\ UNCHANGED <<settings, admissions, deeds, bundle, cleared, edits, starts>>

MintKey(w) ==
    /\ stage[w].at = "mint"
    /\ \E n \in DOMAIN CrewOf(w) \ minted : minted' = minted \cup {n}
    /\ UNCHANGED <<settings, stage, opened, admissions, deeds, bundle, cleared, refusal, edits, starts>>

\* provision: one Vouch at a time for whoever the roster lacks.
Provision(w) ==
    /\ stage[w].at = "mint" /\ DOMAIN CrewOf(w) \subseteq minted
    /\ \E n \in DOMAIN CrewOf(w) \ Roster : admissions' = Append(admissions, Vouch(n))
    /\ UNCHANGED <<settings, stage, opened, minted, deeds, bundle, cleared, refusal, edits, starts>>

Provisioned(w) == stage[w].at = "mint" /\ DOMAIN CrewOf(w) \subseteq minted \cap Roster

ServeUp ==
    /\ Provisioned("service")
    /\ stage' = [stage EXCEPT !["service"].at = "up"]
    /\ UNCHANGED <<settings, opened, minted, admissions, deeds, bundle, cleared, refusal, edits, starts>>

\* The bundle holds the policy of the process that writes it and the chains of the
\* crew alone.
ExportBundle ==
    /\ Provisioned("prompt")
    /\ bundle' = [policy |-> PolicyDocument("prompt"), read |-> stage["prompt"].read,
                  crew |-> DOMAIN CrewOf("prompt"), roster |-> Roster, intact |-> edits = 0,
                  deeds |-> {deeds[i] : i \in {i \in DOMAIN deeds : deeds[i].by \in DOMAIN CrewOf("prompt")}}]
    /\ opened' = "nobody" /\ stage' = [stage EXCEPT !["prompt"] = Idle]
    /\ UNCHANGED <<settings, minted, admissions, deeds, cleared, refusal, edits, starts>>

Did(n, what, made) ==
    deeds' = Append(deeds, [by |-> n, what |-> what, made |-> made,
                            read |-> stage["service"].read, file |-> stage["service"].file])

\* An Offer reaches a brain, unless nothing performs for its addressee; an
\* approval is honoured from a controller of the policy; an agent is disowned.
AnswerOffer ==
    /\ stage["service"].at = "up" /\ Len(deeds) < MaxDeeds
    /\ \E n \in DOMAIN CrewOf("service") :
         /\ CrewOf("service")[n] # "none"
         /\ \E made \in MadeBy(CrewOf("service")[n]) : Did(n, "Result", made)
    /\ UNCHANGED <<settings, stage, opened, minted, admissions, bundle, cleared, refusal, edits, starts>>
HonourApproval ==
    /\ stage["service"].at = "up" /\ Len(deeds) < MaxDeeds
    /\ \E n \in DOMAIN CrewOf("service") : \E c \in PolicyDocument("service").controllers :
         Did(n, "Act", c)
    /\ UNCHANGED <<settings, stage, opened, minted, admissions, bundle, cleared, refusal, edits, starts>>
DisownAgent ==
    /\ stage["service"].at = "up"
    /\ Cardinality({i \in DOMAIN admissions : admissions[i].act = "Disown"}) < MaxDisowns
    /\ \E n \in DOMAIN CrewOf("service") : admissions' = Append(admissions, Disown(n))
    /\ UNCHANGED <<settings, stage, opened, minted, deeds, bundle, cleared, refusal, edits, starts>>

-----------------------------------------------------------------------------
(* `config check`.                                                         *)

AgentsCheck(s, file) == ~s.named \/ ~Flawed(file)
InOrder(s, file) == Problems(s) = {} /\ "lifetime" \notin s.wrong /\ AgentsCheck(s, file)

\* The verdict stands for the settings as they were read.
Verdict(w, ok, file) ==
    /\ stage' = [stage EXCEPT ![w] = Idle]
    /\ cleared' = IF ok THEN AsRead(w, file) ELSE cleared

\* validate, the agents file, and the store: opened and shut, or held by `serve`.
Validate(w) ==
    /\ stage[w].at = "validate"
    /\ \/ /\ opened # "nobody" /\ Verdict(w, InOrder(stage[w].read, settings.agents), settings.agents)
       \/ /\ opened = "nobody" /\ UNCHANGED cleared
          /\ stage' = [stage EXCEPT ![w].file = settings.agents, ![w].at = "probe"]
    /\ UNCHANGED <<settings, opened, minted, admissions, deeds, bundle, refusal, edits, starts>>

\* The signer is probed when the instance has a key; the self-check, unless the
\* operator says --offline, opens the instance for its address whether it has
\* one or not.  A store taken since fails both.
Probe(w) ==
    /\ stage[w].at = "probe"
    /\ \E offline \in BOOLEAN :
         \/ /\ offline
            /\ Verdict(w, /\ InOrder(stage[w].read, stage[w].file)
                          /\ InstanceKey \in minted => opened = "nobody", stage[w].file)
            /\ UNCHANGED <<opened, minted>>
         \/ /\ ~offline /\ opened # "nobody"
            /\ Verdict(w, FALSE, stage[w].file) /\ UNCHANGED <<opened, minted>>
         \/ /\ ~offline /\ opened = "nobody"
            /\ opened' = w /\ minted' = minted \cup {InstanceKey}
            /\ stage' = [stage EXCEPT ![w].at = "fetch"] /\ UNCHANGED cleared
    /\ UNCHANGED <<settings, admissions, deeds, bundle, refusal, edits, starts>>

SelfCheck(w) ==
    /\ stage[w].at = "fetch"
    /\ \E itself \in BOOLEAN : Verdict(w, itself /\ InOrder(stage[w].read, stage[w].file), stage[w].file)
    /\ opened' = "nobody"
    /\ UNCHANGED <<settings, minted, admissions, deeds, bundle, refusal, edits, starts>>

\* Stopped or killed, wherever it is; the lock of the dead is claimed by the next.
End(w) ==
    /\ stage[w].at # "off"
    /\ stage' = [stage EXCEPT ![w] = Idle]
    /\ opened' = IF opened = w THEN "nobody" ELSE opened
    /\ UNCHANGED <<settings, minted, admissions, deeds, bundle, cleared, refusal, edits, starts>>

CharterNext ==
    \/ Edit \/ ServeUp \/ ExportBundle \/ AnswerOffer \/ HonourApproval \/ DisownAgent
    \/ \E w \in Windows :
         \/ Begin(w) \/ LoadConfig(w) \/ Collect(w) \/ OpenInstance(w) \/ MintKey(w)
         \/ Provision(w) \/ Validate(w) \/ Probe(w) \/ SelfCheck(w) \/ End(w)

CharterSpec == CharterInit /\ [][CharterNext]_charterVars

-----------------------------------------------------------------------------
(* Properties.                                                             *)

Threw(r) ==
    /\ r.why \in {"settings", "agents", "endpoint", "locked"}
    /\ \E s, f \in Versions : r.of = [s EXCEPT !.agents = f.agents]

\* Type invariant.
CharterTypeOK ==
    /\ settings \in Versions
    /\ \A w \in Windows :
         /\ stage[w].at \in {"off", "load", "crew", "open", "mint", "up", "validate", "probe", "fetch"}
         /\ stage[w].at \notin {"off", "load"} => stage[w].read \in Versions
         /\ stage[w].at \in {"mint", "up", "fetch"} <=> opened = w
    /\ \A i \in DOMAIN admissions : admissions[i].agent \in minted /\ InstanceKey \in minted
    /\ refusal = Nothing \/ Threw(refusal)

\* "Idempotent: re-opening an existing instance adds nothing" (provision): an agent
\* is vouched for a second time only after it was disowned, whichever commands boot
\* the instance and wherever they are killed.
VouchedOnce ==
    \A i, j \in DOMAIN admissions :
        (i < j /\ admissions[i] = admissions[j] /\ admissions[i].act = "Vouch") =>
            \E k \in (i + 1)..(j - 1) : admissions[k] = Disown(admissions[i].agent)

\* What the replay finds fault with: a Result of a brain, an approval by a
\* controller, that the policy does not list; it holds nothing to an empty list.
Unlisted(b) ==
    {d \in b.deeds :
        \/ d.what = "Result" /\ d.made # "unsaid" /\ b.policy.brains # {} /\ d.made \notin b.policy.brains
        \/ d.what = "Act" /\ d.made \notin b.policy.controllers}

\* The operator's doing: other settings at the time, a file edited between the two
\* reads of one start, a list of brains of his own, an endpoint that reports another
\* model than it was asked for.
Excused(d, b) ==
    \/ d.read # b.read
    \/ d.read.named /\ d.file # d.read.agents
    \/ d.what = "Result" /\
          (d.read.policy.brains # Unstated
           \/ (Hired(d.read, d.file)[d.by] = "llm" /\ d.made # d.read.model))

\* The derived policy matches "what Results actually carry" (assemblePolicy): a
\* bundle's replay blames no answer and no approval but for what the operator
\* changed, every agent it carries is on the roster it carries, and where nothing
\* was ever edited every rostered agent has its outbox in it.
ReplayBlamesEdits ==
    bundle # Nothing =>
        /\ \A d \in Unlisted(bundle) : Excused(d, bundle)
        /\ bundle.crew \subseteq bundle.roster
        /\ bundle.intact => bundle.roster = bundle.crew

\* What `config check` found in order boots: a command that reads the same settings
\* is refused for an endpoint not on the allow-list, or a store in use, alone.
ClearedSettingsBoot ==
    (refusal # Nothing /\ refusal.of = cleared) => refusal.why \in {"endpoint", "locked"}

\* What the operator set up is what there is: vouched for once, cleared only if it
\* boots, and not held against the record afterwards.
CharterHolds == CharterTypeOK /\ VouchedOnce /\ ReplayBlamesEdits /\ ClearedSettingsBoot
=============================================================================
