------------------------------- MODULE Options -------------------------------
(***************************************************************************)
(* The options of a workflow: how a declaration is refused, how a create   *)
(* request is validated and merged over the parsed command line, and what  *)
(* a manifest keeps of them for a restore in a process with another        *)
(* command line (src/winslow/_config.py, the ConfigOption of               *)
(* descriptors.py, validate_values and effective_workflow_values of        *)
(* session.py, _merged_config of orchestrator.py).                         *)
(***************************************************************************)
EXTENDS FiniteSets, Functions, TLC

CONSTANTS
    Unset,        \* no value (None)
    Falsy,        \* the values that do not count as set
    Unparsable,   \* the type of an option refuses a text
    Printed,      \* value |-> its str(), a text
    JsonNative    \* the values a manifest stores as they are

\* An option: what its type makes of a text (no type: <<>>), its serializer
\* (value |-> text, or <<>>), required, identifier, its choices (none: {}), its
\* default, the subcommands it belongs to (all: {}), the options it depends on.

---------------------------------------------------------------------------
(* The declaration. *)

IsSet(value) == value \notin Falsy \cup {Unset}
IsRequired(option) == option.required \/ option.identifier
DependencyCycle(options) ==
    \E S \in SUBSET DOMAIN options : S # {} /\ \A o \in S : options[o].dependsOn \cap S # {}
OptionsRefused(options) ==
    \/ \E o \in DOMAIN options : \E d \in options[o].dependsOn :
           d \in DOMAIN options => IsSet(options[o].default) /\ ~IsSet(options[d].default)
    \/ DependencyCycle(options)

\* A dependency that belongs to another subcommand asks nothing.
DependenciesRefused(options, config, subcommand) ==
    \E o \in DOMAIN options : IsSet(config[o]) /\
        \E d \in options[o].dependsOn :
            /\ options[d].subcommands = {} \/ subcommand \in options[d].subcommands
            /\ ~IsSet(config[d])

---------------------------------------------------------------------------
(* The command line: a text parses with the type, a default needs no text. *)

Typed(option, value) ==
    IF value \in DOMAIN option.parse THEN option.parse[value] ELSE value
\* The lenient parse leaves a missing option unset; the strict one refuses it.
ParsedLine(options, line) ==
    [o \in DOMAIN options |->
        IF o \in DOMAIN line THEN Typed(options[o], line[o]) ELSE options[o].default]
LineRefused(options, line, lenient) ==
    \/ \E o \in DOMAIN line :
           o \in DOMAIN options =>
               \/ Typed(options[o], line[o]) = Unparsable
               \/ options[o].choices # {} /\ Typed(options[o], line[o]) \notin options[o].choices
    \/ ~lenient /\ \E o \in DOMAIN options \ DOMAIN line :
           IsRequired(options[o]) /\ options[o].default = Unset

---------------------------------------------------------------------------
(* A create request: the values of a form, over the parsed line. *)

\* A null value is an unset form field.
Sent(values) == Restrict(values, {o \in DOMAIN values : values[o] # Unset})
\* The choices compare as texts.
NoChoice(option, value) ==
    option.choices # {} /\ Printed[value] \notin {Printed[c] : c \in option.choices}
Missing(options, base, values) ==
    {o \in DOMAIN options :
        /\ IsRequired(options[o]) /\ options[o].default = Unset
        /\ o \notin DOMAIN values /\ base[o] = Unset}
ValuesRefused(options, base, values) ==
    LET sent == Sent(values) IN
    \/ \E o \in DOMAIN sent :
           o \in DOMAIN options => \/ NoChoice(options[o], sent[o])
                                  \/ Typed(options[o], sent[o]) = Unparsable
    \/ Missing(options, base, sent) # {}
Converted(options, values) ==
    [o \in DOMAIN Sent(values) |-> Typed(options[o], values[o])]
\* A copy of the base with the values on top.
Merged(base, values) == values @@ base

---------------------------------------------------------------------------
(* The manifest. *)

Formatted(option, value) ==
    IF option.serializer # <<>> THEN option.serializer[value] ELSE Printed[value]
ManifestValue(option, value) ==
    IF value \in JsonNative THEN value ELSE Formatted(option, value)
\* Only what the caller sent.
EffectiveSentOnly(options, base, values) ==
    [o \in DOMAIN values |-> ManifestValue(options[o], values[o])]
\* Every declared option that has a value: of the caller, the line or the default.
Effective(options, base, values) ==
    LET value(o) == IF o \in DOMAIN values THEN values[o] ELSE base[o]
        named == {o \in DOMAIN options : value(o) # Unset}
    IN [o \in named |-> ManifestValue(options[o], value(o))]
=============================================================================
