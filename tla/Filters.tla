------------------------------- MODULE Filters -------------------------------
(***************************************************************************)
(* The filter language: a query is tokenized, parsed into a tree of not,   *)
(* and, or over the filters of its commands, flattened and evaluated on a  *)
(* task (src/winslow/filter/).                                             *)
(***************************************************************************)
EXTENDS Naturals, Sequences, SequencesExt

CONSTANTS
    Commands,        \* command |-> the filter it names, of a registry
    MaxFilterDepth   \* MAX_FILTER_DEPTH

\* A lexeme is a kind ("word", "cmd", a sign, or "junk" for what no pattern takes)
\* and its text. A token is the same without the junk, and "eof" ends them.
Keyword(text) ==
    CASE text = "and" -> "&" [] text = "or" -> "|" [] text = "not" -> "~" [] OTHER -> "word"
Token(lexeme) ==
    IF lexeme.kind = "word" THEN [lexeme EXCEPT !.kind = Keyword(lexeme.text)] ELSE lexeme
Tokenized(query) ==
    LET kept == SelectSeq(query, LAMBDA l : l.kind # "junk") IN
    Append([i \in DOMAIN kept |-> Token(kept[i])], [kind |-> "eof", text |-> ""])

Leaf(filter, value) == [op |-> "leaf", filter |-> filter, value |-> value]
Node(op, args) == [op |-> op, args |-> args]
\* What a parse step gives: a node and the next token, or a refusal.
At(node, next) == [node |-> node, next |-> next]
Bad == At(<<>>, 0)

---------------------------------------------------------------------------
(* The parser: each step reads the tokens ts from the one at i. *)

RECURSIVE Values(_, _, _)
\* values := WORD (',' WORD)*
Values(filter, ts, i) ==
    IF ts[i].kind # "word" THEN Bad
    ELSE IF ts[i + 1].kind # "," THEN At(Leaf(filter, ts[i].text), i + 1)
    ELSE LET rest == Values(filter, ts, i + 2) IN
         IF rest = Bad THEN Bad
         ELSE At(Node("or", <<Leaf(filter, ts[i].text), rest.node>>), rest.next)

\* filter := CMD '~'? values | values
Filter(ts, i) ==
    LET start == IF ts[i].kind = "cmd" THEN i + 1 ELSE i
        negated == ts[start].kind = "~"
        filter == IF ts[i].kind = "cmd" THEN Commands[ts[i].text] ELSE "name"
        values == Values(filter, ts, IF negated THEN start + 1 ELSE start)
    IN IF ts[i].kind \notin {"cmd", "word"} THEN Bad
       ELSE IF ts[i].kind = "cmd" /\ ts[i].text \notin DOMAIN Commands THEN Bad
       ELSE IF values = Bad THEN Bad
       ELSE At(IF negated THEN Node("not", <<values.node>>) ELSE values.node, values.next)

RECURSIVE Expr(_, _, _), Term(_, _, _), Atom(_, _, _)
\* atom := '~' atom | '(' expr ')' | filter. No '~' before a command.
Atom(ts, i, depth) ==
    IF depth > MaxFilterDepth THEN Bad
    ELSE IF ts[i].kind = "~" THEN
        LET child == IF ts[i + 1].kind = "cmd" THEN Bad ELSE Atom(ts, i + 1, depth + 1)
        IN IF child = Bad THEN Bad ELSE At(Node("not", <<child.node>>), child.next)
    ELSE IF ts[i].kind = "(" THEN
        LET inner == Expr(ts, i + 1, depth + 1) IN
        IF inner = Bad \/ ts[inner.next].kind # ")" THEN Bad ELSE At(inner.node, inner.next + 1)
    ELSE Filter(ts, i)

Joined(op, left, right) ==
    IF right = Bad THEN Bad ELSE At(Node(op, <<left.node, right.node>>), right.next)
\* term := atom ('&' atom)*
Term(ts, i, depth) ==
    LET left == Atom(ts, i, depth) IN
    IF left # Bad /\ ts[left.next].kind = "&"
    THEN Joined("and", left, Term(ts, left.next + 1, depth)) ELSE left
\* As if the signs bound alike.
ExprFlat(ts, i, depth) ==
    LET left == Atom(ts, i, depth) IN
    IF left # Bad /\ ts[left.next].kind \in {"|", "&"}
    THEN Joined(IF ts[left.next].kind = "|" THEN "or" ELSE "and", left,
                Expr(ts, left.next + 1, depth))
    ELSE left
\* expr := term ('|' term)*
Expr(ts, i, depth) ==
    LET left == Term(ts, i, depth) IN
    IF left # Bad /\ ts[left.next].kind = "|"
    THEN Joined("or", left, Expr(ts, left.next + 1, depth)) ELSE left

RECURSIVE Flattened(_)
\* An and in an and, an or in an or become one.
Flattened(node) ==
    IF node.op = "leaf" THEN node
    ELSE LET flat == [k \in DOMAIN node.args |-> Flattened(node.args[k])] IN
         IF node.op = "not" THEN Node("not", flat)
         ELSE Node(node.op, FlattenSeq([k \in DOMAIN flat |->
                                IF flat[k].op = node.op THEN flat[k].args ELSE <<flat[k]>>]))

ParseRefused == [op |-> "refused"]
Parse(query) ==
    LET ts == Tokenized(query)
        root == Expr(ts, 1, 0)
    IN IF root = Bad \/ ts[root.next].kind # "eof" THEN ParseRefused ELSE Flattened(root.node)

---------------------------------------------------------------------------
(* The tree on a task: its name and its groups. *)

\* The name filter looks for the value in the name: a task lists what it holds.
FilterMatches(filter, value, task) ==
    CASE filter = "name" -> value \in task.nameHolds
      [] filter = "group" -> value \in task.groups
      [] OTHER -> value \in task.other

RECURSIVE Evaluate(_, _)
Evaluate(node, task) ==
    CASE node.op = "leaf" -> FilterMatches(node.filter, node.value, task)
      [] node.op = "not" -> ~Evaluate(node.args[1], task)
      [] node.op = "and" -> \A k \in DOMAIN node.args : Evaluate(node.args[k], task)
      [] node.op = "or" -> \E k \in DOMAIN node.args : Evaluate(node.args[k], task)

RECURSIVE Leaves(_)
Leaves(node) ==
    IF node.op = "leaf" THEN {node.filter}
    ELSE UNION {Leaves(node.args[k]) : k \in DOMAIN node.args}
\* A search of the history reads values, no live task.
BuiltinOnly(node) == Leaves(node) \subseteq {"name", "group"}

---------------------------------------------------------------------------
(* The reference: what the grammar derives, split from the right. The truth   *)
(* values the tokens i to j may have as the symbol, with that many '~' and '(' *)
(* around them.                                                               *)

ValuesHold(filter, ts, i, j, task) ==
    IF (j - i) % 2 = 0 /\ i <= j
       /\ \A k \in i .. j : ts[k].kind = IF (k - i) % 2 = 0 THEN "word" ELSE ","
    THEN {\E k \in i .. j : ts[k].kind = "word" /\ FilterMatches(filter, ts[k].text, task)}
    ELSE {}
RECURSIVE Derives(_, _, _, _, _, _)
Derives(symbol, ts, i, j, depth, task) ==
    CASE symbol = "expr" ->
            Derives("term", ts, i, j, depth, task) \cup
            UNION {{x \/ y : x \in Derives("expr", ts, i, k - 1, depth, task),
                             y \in Derives("term", ts, k + 1, j, depth, task)} :
                   k \in {k \in i .. j : ts[k].kind = "|"}}
      [] symbol = "term" ->
            Derives("atom", ts, i, j, depth, task) \cup
            UNION {{x /\ y : x \in Derives("term", ts, i, k - 1, depth, task),
                             y \in Derives("atom", ts, k + 1, j, depth, task)} :
                   k \in {k \in i .. j : ts[k].kind = "&"}}
      [] symbol = "atom" /\ (i > j \/ depth > MaxFilterDepth) -> {}
      [] symbol = "atom" /\ ts[i].kind = "~" ->
            IF i < j /\ ts[i + 1].kind = "cmd" THEN {}
            ELSE {~x : x \in Derives("atom", ts, i + 1, j, depth + 1, task)}
      [] symbol = "atom" /\ ts[i].kind = "(" ->
            IF ts[j].kind # ")" THEN {}
            ELSE Derives("expr", ts, i + 1, j - 1, depth + 1, task)
      [] symbol = "atom" /\ ts[i].kind = "cmd" ->
            IF ts[i].text \notin DOMAIN Commands \/ i = j THEN {}
            ELSE LET filter == Commands[ts[i].text] IN
                 IF ts[i + 1].kind = "~"
                 THEN {~x : x \in ValuesHold(filter, ts, i + 2, j, task)}
                 ELSE ValuesHold(filter, ts, i + 1, j, task)
      [] OTHER -> ValuesHold("name", ts, i, j, task)

\* The parser accepts exactly what the grammar in its comments derives, and the
\* flattened tree answers what the derivation does: '&' binds closer than '|', '~'
\* takes one atom, a comma is an or under the negation of its command
\* (FilterParser, the evaluate and flatten of ast.py).
MeansWhatItSays(query, task) ==
    LET ts == Tokenized(query)
        meaning == Derives("expr", ts, 1, Len(ts) - 1, 0, task)
    IN meaning = (IF Parse(query) = ParseRefused THEN {} ELSE {Evaluate(Parse(query), task)})
=============================================================================
