------------------------------- MODULE Launch -------------------------------
(***************************************************************************)
(* A workflow from its command line to a filtered pipeline, in a process   *)
(* that may die: the create request or the strict headless parse resolves  *)
(* the options, the build runs, the manifest keeps what a restore needs, a *)
(* restore rebuilds the session under another command line, and a query    *)
(* selects tasks (create_session, Workflow.init_state, headless_run and    *)
(* filter_keys; the Orchestrator).                                         *)
(***************************************************************************)
EXTENDS Build, Parameters, Options, Filters

CONSTANTS
    Invocations, \* the mode, the command line and the values of the request, whether
                 \* somebody searches, the parameterized classes and the declaration
    WorkflowOptions, \* the options the workflow declares
    LaterLines,  \* the command lines of the processes that restore it
    Queries,     \* the queries
    Views,       \* class |-> what the filters of a query find on its tasks
    NoManifest,  \* no manifest on the disk
    MaxRestores  \* bound: how often a process restores the session

ASSUME MaxRestoresAssumption == MaxRestores \in Nat

VARIABLES
    run,      \* the invocation
    stage,    \* "idle", "build", "open", "ended", "dead" or "refused"
    sent,     \* the option values of the request, converted
    config,   \* the option values of the session: those over the command line
    base,     \* the parsed command line of the process
    manifest, \* the stored option values, or NoManifest
    restores, \* how often the session was restored
    created,  \* history: the option values of the first session
    query,    \* the last query
    selected  \* what it matched, or "refused"

launchVars == <<run, stage, sent, config, base, manifest, restores, created, query, selected>>
allVars == <<vars, launchVars>>

Headless == run.mode = "headless"
BuildUnchanged == UNCHANGED vars

LaunchInit ==
    /\ \E i \in Invocations : run = i.run /\ decl = i.declared
    /\ BuildInit
    /\ stage = "idle" /\ sent = <<>> /\ config = <<>> /\ base = <<>> /\ manifest = NoManifest
    /\ restores = 0 /\ created = <<>> /\ query = <<>> /\ selected = {}

RefuseLaunch ==
    /\ stage' = "refused" /\ BuildUnchanged
    /\ UNCHANGED <<run, sent, config, base, manifest, restores, created, query, selected>>

\* create_session, or the strict parse of a headless run.
CreateRefused ==
    \/ OptionsRefused(WorkflowOptions)
    \/ LineRefused(WorkflowOptions, run.line, ~Headless)
    \/ ~Headless /\ ValuesRefused(WorkflowOptions, ParsedLine(WorkflowOptions, run.line), run.values)
    \/ Headless /\ DependenciesRefused(WorkflowOptions, ParsedLine(WorkflowOptions, run.line), "run")
CreateSession ==
    /\ stage = "idle"
    /\ \/ CreateRefused /\ RefuseLaunch
       \/ /\ ~CreateRefused
          /\ base' = ParsedLine(WorkflowOptions, run.line)
          /\ sent' = IF Headless THEN <<>> ELSE Converted(WorkflowOptions, run.values)
          /\ config' = Merged(base', sent')
          /\ created' = config' /\ stage' = "build"
          /\ BuildUnchanged /\ UNCHANGED <<run, manifest, restores, query, selected>>

\* A headless run resolves its filter before the eligibility pass.
FilterFirst == Headless /\ run.searches /\ phase = "eligibility" /\ todo = tasks /\ selected = {}
View(t) == Views[t[1]]
\* A query that does not parse, or matches nothing, ends a headless run.
Matched(q) ==
    IF Parse(q) = ParseRefused THEN {} ELSE {t \in tasks : Evaluate(Parse(q), View(t))}
HeadlessFilter ==
    /\ stage = "build" /\ FilterFirst
    /\ \E q \in Queries :
        /\ query' = q
        /\ selected' = Matched(q)
        /\ stage' = IF Matched(q) = {} THEN "refused" ELSE stage
    /\ BuildUnchanged /\ UNCHANGED <<run, sent, config, base, manifest, restores, created>>

\* init_state, between the pass and the seed; a disk that fails leaves no manifest.
SaveManifest ==
    \/ manifest' = Effective(WorkflowOptions, base, sent)
    \/ UNCHANGED manifest
BuildStep ==
    /\ stage = "build" /\ ~FilterFirst
    /\ BuildNext
    /\ phase = "eligibility" /\ phase' = "seed" => restores > 0
    /\ phase = "eligibility" /\ phase' = "open" => restores = 0
    /\ IF phase = "eligibility" /\ phase' \in {"seed", "open"} /\ ~Headless
       THEN SaveManifest ELSE UNCHANGED manifest
    /\ stage' = CASE phase' = "open" -> "open" [] phase' = "refused" -> "refused"
                  [] OTHER -> "build"
    /\ UNCHANGED <<run, sent, config, base, restores, created, query, selected>>

\* filter_keys: the tasks of an open session. One query: it leaves no trace.
Search ==
    /\ stage = "open" /\ ~Headless /\ run.searches /\ query = <<>>
    /\ \E q \in Queries, scope \in {"tasks", "history"} :
        /\ query' = q
        /\ selected' = IF Matched(q) # {} /\ scope = "history" /\ ~BuiltinOnly(Parse(q))
                       THEN {} ELSE Matched(q)
    /\ BuildUnchanged /\ UNCHANGED <<run, stage, sent, config, base, manifest, restores, created>>

\* The process dies and keeps the disk.
Die ==
    /\ stage \in {"build", "open"} /\ ~Headless
    /\ stage' = "dead" /\ sent' = <<>> /\ config' = <<>> /\ base' = <<>> /\ query' = <<>> /\ selected' = {}
    /\ Abandon /\ UNCHANGED <<run, manifest, restores, created>>

\* A process with its own command line restores what the manifest names.
Restore ==
    /\ stage = "dead" /\ manifest # NoManifest /\ restores < MaxRestores
    /\ \E line \in LaterLines :
        LET parsed == ParsedLine(WorkflowOptions, line) IN
        \/ /\ LineRefused(WorkflowOptions, line, TRUE) \/ ValuesRefused(WorkflowOptions, parsed, manifest)
           /\ RefuseLaunch
        \/ /\ ~LineRefused(WorkflowOptions, line, TRUE)
           /\ ~ValuesRefused(WorkflowOptions, parsed, manifest)
           /\ base' = parsed
           /\ sent' = Converted(WorkflowOptions, manifest)
           /\ config' = Merged(parsed, sent')
           /\ restores' = restores + 1 /\ stage' = "build"
           /\ BuildUnchanged /\ UNCHANGED <<run, manifest, created, query, selected>>

LaunchNext == CreateSession \/ HeadlessFilter \/ BuildStep \/ Search \/ Die \/ Restore
LaunchSpec == LaunchInit /\ [][LaunchNext]_allVars

---------------------------------------------------------------------------

\* The tasks of a parameterized class are the choices of its values, whatever mix
\* of sequential, product and compound parameters declares them
\* (_generate_context_from_params).
ContextIsExact == \A class \in run.taskClasses : ExactContext(class)

\* A restore gives every option that had a value the value the session was created
\* with, whatever the command line of the process that restores, and no such
\* manifest is refused: the value comes from the request, the line or the default,
\* goes to the disk as text and back through the type, once per restore
\* (effective_workflow_values, validate_values, create_session).
RestoreKeepsValues ==
    /\ stage \in {"build", "open"} =>
          \A o \in DOMAIN created : created[o] # Unset => config[o] = created[o]
    /\ manifest # NoManifest => \A line \in LaterLines :
          ~ValuesRefused(WorkflowOptions, ParsedLine(WorkflowOptions, line), manifest)

\* A query answers on every task what its grammar says, or is refused.
QueriesMean == \A t \in tasks : query # <<>> => MeansWhatItSays(query, View(t))
=============================================================================
