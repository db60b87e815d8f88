----------------------------- MODULE MCTerminal -----------------------------
(***************************************************************************)
(* Instances of Terminal: workflows that vary the graph, the parameters,   *)
(* the options or the queries, one of them at a time, and the processes    *)
(* that share one credential file.                                         *)
(***************************************************************************)
EXTENDS Terminal

CONSTANTS a, b, c,          \* task classes
          int1, int2, low, high, off,  \* values of options
          v1, v2, v3,       \* values of parameters
    p1, p2,           \* processes
    ann, bob, corp,   \* people and their domain
    iss, hub, wild,   \* an issuer, and the hosts of two servers
    us, them          \* the clients of the issuer

\* ---- Parameters.
Field(kind, declared, parts, values) ==
    [ kind |-> kind, declared |-> declared, parts |-> parts, names |-> <<>>, given |-> TRUE,
      values |-> values, types |-> {}, map |-> <<>> ]
Class(fields) ==
    [ inherited |-> <<>>, own |-> fields, taken |-> {"check"}, parameters |-> <<"none">> ]
Plain == Class(<<>>)

Env(values) == Field("sequential", "env", <<"env">>, values)
Zone(kind, values) == Field(kind, "zone", <<"zone">>, values)
HostPort(rows) == Field("tuple", "host_port", <<"host", "port">>, rows)
UserKey(rows) == Field("dict", "user_key", <<"user", "key">>, rows)
Rows == << <<v1, v2>>, <<v2, v1>>, <<v3, v3>> >>
KeyRows == << "user" :> v1 @@ "key" :> v2, "user" :> v2 @@ "key" :> v2 >>
MappedRows == << "u" :> v1 @@ "k" :> v2, "u" :> v3 @@ "k" :> v2 >>
TaskClasses ==
    { Class(<<Env(<<v1, v2>>)>>), Class(<<Env(<<>>)>>), Class(<<Env(<<v1, v1>>)>>),
      Class(<<Env(<<v1, v2>>), Zone("sequential", <<v2, v3>>)>>),
      Class(<<Env(<<v1, v2>>), Zone("sequential", <<v2>>)>>),
      Class(<<Env(<<v1, v2>>), Zone("product", <<v2, v3>>), HostPort(Rows)>>),
      Class(<<Field("product", "debug", <<"debug">>, <<v1, v2>>),
              Zone("product", <<v1, v2, v3>>), UserKey(KeyRows)>>),
      Class(<<HostPort(Rows), UserKey(KeyRows)>>),
      Class(<<UserKey(<< "user" :> v1, "user" :> v2 @@ "key" :> v1 >>)>>),
      Class(<<[UserKey(MappedRows) EXCEPT !.map = "u" :> "user" @@ "k" :> "key"]>>),
      Class(<<HostPort(<< <<v1, v2>>, <<v1>> >>)>>),
      Class(<<HostPort(<<>>), Env(<<v1>>)>>),
      Class(<<HostPort(Rows), Field("product", "port", <<"port">>, <<v1>>)>>),
      Class(<<Field("sequential", "check", <<"check">>, <<v1>>)>>),
      Class(<<[Env(<<v1, v2>>) EXCEPT !.types = {v1}]>>),
      Class(<<[Env(<<>>) EXCEPT !.given = FALSE]>>),
      [Class(<<Env(<<v1, v2>>)>>) EXCEPT
           !.parameters = << "env" :> v1, "env" :> v2, "env" :> v3 >>],
      [Class(<<Env(<<v3>>)>>) EXCEPT !.inherited = <<Env(<<v1>>), Zone("product", <<v1, v2>>)>>],
      Class(<<Env(<<v1, NotHashable>>)>>), Class(<<[Env(<<v1>>) EXCEPT !.names = <<BadName>>]>>) }

\* ---- Declarations.
Declared(classes, fields, entries, premier, terminal, reprs) ==
    LET params == [k \in classes |-> IF fields[k] = Plain THEN {<<>>} ELSE ParameterSets(fields[k])]
        candidates == UNION {{k} \X params[k] : k \in classes}
        ordered == FoldSet(LAMBDA t, s : Append(s, t), <<>>, candidates)
    IN [ classes |-> classes, name |-> [k \in classes |-> IF k = c /\ premier = {c} THEN a ELSE k],
         className |-> [k \in classes |-> k], groups |-> [k \in classes |-> IF k = b THEN {} ELSE {"grp"}],
         entries |-> entries, premier |-> premier, terminal |-> terminal, params |-> params,
         refused |-> {k \in classes : fields[k] # Plain /\ Refused(fields[k])},
         repr |-> [p \in UNION {params[k] : k \in classes} |-> IF reprs THEN p ELSE <<>>],
         rank |-> [t \in candidates |-> CHOOSE i \in DOMAIN ordered : ordered[i] = t] ]
One == Declared({a}, a :> Plain, a :> {}, {}, {}, TRUE)

OnClass(k) == [kind |-> "class", value |-> k]
OnName(s) == [kind |-> "name", value |-> s]
OnSelf == [kind |-> "self", value |-> "self"]
Graph(ea, eb, ec, premier, terminal, reprs) ==
    Declared({a, b, c}, a :> Class(<<Env(<<v1, v2>>)>>) @@ b :> Plain @@ c :> Plain,
             a :> ea @@ b :> eb @@ c :> ec, premier, terminal, reprs)
Graphs ==
    { Graph(ea, eb, ec, premier, terminal, TRUE) :
        ea \in {{}, {OnSelf}, {OnClass(c)}}, eb \in {{}, {OnClass(a)}, {OnName("grp")}},
        ec \in {{}, {OnClass(b)}, {OnName("nope")}},
        premier \in {{}, {a}, {c}}, terminal \in {{}, {b}} }
    \cup {Graph({}, {}, {}, {}, {}, FALSE)}

\* ---- Options.
Option ==
    [ parse |-> <<>>, serializer |-> <<>>, required |-> FALSE, identifier |-> FALSE,
      choices |-> {}, default |-> Unset, subcommands |-> {}, dependsOn |-> {} ]
Levels == "low" :> low @@ "high" :> high @@ "x" :> Unparsable @@ "Level.LOW" :> Unparsable
          @@ "Level.HIGH" :> Unparsable
MCOptions ==
    "retries" :> [Option EXCEPT !.parse = "1" :> int1 @@ "2" :> int2 @@ "x" :> Unparsable,
                                !.default = int1]
    @@ "stage" :> [Option EXCEPT !.choices = {"dev", "prod"}, !.identifier = TRUE]
    @@ "level" :> [Option EXCEPT !.parse = Levels, !.serializer = low :> "low" @@ high :> "high"]
    @@ "quiet" :> [Option EXCEPT !.default = off]
    @@ "after" :> [Option EXCEPT !.dependsOn = {"quiet"}]
MCPrinted ==
    int1 :> "1" @@ int2 :> "2" @@ low :> "Level.LOW" @@ high :> "Level.HIGH" @@ off :> "False"
    @@ [s \in {"dev", "prod", "1", "2", "x", "low", "high", "now", "test"} |-> s]
Lines ==
    { <<>>, "retries" :> "2", "stage" :> "prod", "stage" :> "test",
      "stage" :> "dev" @@ "level" :> "high", "level" :> "x",
      "stage" :> "prod" @@ "after" :> "now" @@ "level" :> "low" }
Forms ==
    { <<>>, "stage" :> "dev", "stage" :> "test", "level" :> Unset @@ "stage" :> "prod",
      "stage" :> "prod" @@ "level" :> "low", "retries" :> "x", "unknown" :> "1",
      "retries" :> "2" @@ "stage" :> "dev" @@ "after" :> "now" }

\* ---- Queries.
Word(w) == [kind |-> "word", text |-> w]
Sign(s) == [kind |-> s, text |-> ""]
Cmd(s) == [kind |-> "cmd", text |-> s]
Lexemes == { Word("x"), Word("y"), Word("and"), Sign("|"), Sign("~"), Sign("("), Sign(")"),
             Sign(","), Cmd("g") }
LongQueries ==
    { <<Word("x"), Sign("|"), Word("y"), Sign("&"), Sign("~"), Sign("("), Word("x"), Sign("|"), Word("y"), Sign(")")>>,
      <<Sign("~"), Sign("~"), Sign("~"), Word("x")>>, <<Sign("~"), Sign("~"), Word("x")>>,
      <<Sign("("), Sign("("), Sign("("), Word("x"), Sign(")"), Sign(")"), Sign(")")>>,
      <<Cmd("g"), Sign("~"), Word("x"), Sign(","), Word("y"), Word("or"), Cmd("o"), Word("x")>>,
      <<Cmd("nope"), Word("x")>>, <<Sign("~"), Cmd("g"), Word("x")>>,
      <<Word("x"), [kind |-> "junk", text |-> "$"], Word("not")>>,
      <<Word("y"), Sign("&"), Word("y"), Sign("|"), Word("x")>>,
      <<Word("x"), Sign("&"), Word("y"), Sign("|"), Word("x"), Sign("&"), Sign("~"), Word("y")>>,
      <<Sign("("), Word("x"), Sign("|"), Word("y"), Sign(")"), Sign("&"), Cmd("group"), Word("y")>> }
MCCommands == "g" :> "group" @@ "group" :> "group" @@ "o" :> "other"
Seqs(n) == UNION {[1 .. k -> Lexemes] : k \in 1 .. n}
MCViews == a :> [nameHolds |-> {"x"}, groups |-> {"y"}, other |-> {}]
         @@ b :> [nameHolds |-> {"y"}, groups |-> {}, other |-> {"x"}]
         @@ c :> [nameHolds |-> {}, groups |-> {"x"}, other |-> {}]

\* ---- Invocations.
Run == [ mode |-> "headless", line |-> "stage" :> "prod", values |-> <<>>, searches |-> FALSE,
         taskClasses |-> {} ]
MCInvocations ==
    {[run |-> Run, declared |-> d] : d \in Graphs}
    \cup {[run |-> [Run EXCEPT !.mode = "interactive"],
           declared |-> Graph({}, {OnClass(a)}, {}, premier, {}, TRUE)] : premier \in {{}, {a}}}
    \cup {[run |-> [Run EXCEPT !.taskClasses = {k}],
           declared |-> IF Cardinality(ParameterSets(k)) > 3 THEN One
                        ELSE Declared({a}, a :> k, a :> {}, {}, {}, TRUE)] : k \in TaskClasses}
    \cup {[run |-> [Run EXCEPT !.line = line, !.values = form, !.mode = mode], declared |-> One] :
            line \in Lines, form \in Forms, mode \in {"interactive", "headless"}}
    \cup {[run |-> [Run EXCEPT !.searches = TRUE, !.mode = mode], declared |-> One] :
            mode \in {"interactive", "headless"}}
MCDeclarations == {i.declared : i \in MCInvocations}
MCQueries == Seqs(3) \cup LongQueries
MCEntries == [status : {"COMPLETED", "FAILED"}, trusted : BOOLEAN]

\* ---- Credentials.
Url(scheme, host, path) == [scheme |-> scheme, host |-> host, path |-> path]
MCUrls == {Url("wss", hub, "/ws"), Url("ws", wild, "")}
Backend(audience, clients) ==
    [issuer |-> iss, audience |-> audience, publicUrl |-> "here", clients |-> clients, domains |-> {corp}]
MCServer ==
    hub :> [mode |-> "credential", backends |-> <<Backend("shared", {us})>>]
    @@ wild :> [mode |-> "open", backends |-> <<Backend("here", {})>>]
MCClaims == <<"cid", "client_id", "azp">>
MCLogin == [aud |-> {"shared"}, claims |-> "azp" :> us, user |-> ann, domain |-> corp, app |-> "ours"]
Foreign(claims) ==
    [token |-> [kind |-> "oidc", login |-> 0, iss |-> iss, aud |-> {"shared"}, claims |-> claims,
                user |-> bob, domain |-> corp, app |-> "other", iat |-> 0, exp |-> 9],
     kind |-> "oidc", user |-> None, refresh |-> None, expires |-> None, client |-> None]
MCPasted == {Foreign("cid" :> them @@ "azp" :> us)}
MCIssuers == {[rotates |-> TRUE, refreshes |-> TRUE, tells |-> TRUE],
              [rotates |-> FALSE, refreshes |-> TRUE, tells |-> TRUE]}
\* Nothing is said after a clash; an issuer that does not rotate is followed for two
\* writes of the file, one that does for three.
NoClash == ~clash
Followed == NoClash /\ (issuer.rotates \/ disk.stamp <= 2)
Symmetry == Permutations(Procs)

\* ---- One of the two at a time.
First(S) == CHOOSE x \in S : TRUE
MCInit ==
    /\ TerminalInit
    /\ \/ command = "workflow" /\ issuer = First(MCIssuers)
       \/ /\ command = "credentials"
          /\ run = First(MCInvocations).run /\ decl = First(MCInvocations).declared
MCSpec == MCInit /\ [][Start]_terminalVars
=============================================================================
