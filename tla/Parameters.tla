----------------------------- MODULE Parameters -----------------------------
(***************************************************************************)
(* How a task class that declares Parameters becomes a list of parameter   *)
(* sets, one task each, or is refused (src/winslow/_parameterization.py,   *)
(* the Parameter of src/winslow/descriptors.py, the name clashes of        *)
(* src/winslow/_meta.py).                                                  *)
(***************************************************************************)
EXTENDS Naturals, Sequences, FiniteSets, TLC, SequencesExt

CONSTANTS
    BadName,      \* a name that is no identifier, or starts with an underscore
    NotHashable   \* a value that does not hash

\* A field of a class: its kind ("sequential", "product", "tuple", "dict"), the
\* declared name and the parts it splits into, the names given (none: <<>>),
\* whether it has values and which (a row is a tuple, or a function on dict keys),
\* the values its types allow (none: {}), the map of its dict keys (none: <<>>).
\* A class: the fields it inherits and declares, the names bound by the framework
\* or by a value, and what get_parameters answers (not overridden: <<"none">>).

\* The subclass wins a name clash.
Collected(class) ==
    SelectSeq(class.inherited, LAMBDA f : \A g \in Range(class.own) : g.declared # f.declared)
        \o class.own

Compound(f) == f.kind \in {"tuple", "dict"}
AttrNames(f) ==
    IF f.names # <<>> THEN f.names ELSE IF Compound(f) THEN f.parts ELSE <<f.declared>>
NamesRefused(f) ==
    (Compound(f) /\ Len(AttrNames(f)) < 2) \/ BadName \in Range(AttrNames(f)) \cup {f.declared}
AllNames(class) == FlattenSeq([i \in DOMAIN Collected(class) |-> AttrNames(Collected(class)[i])])
Clashes(class) == Range(AllNames(class)) \cap class.taken # {}
\* What the metaclass raises at the declaration of the class.
DeclarationRefused(class) ==
    \/ \E f \in Range(Collected(class)) : NamesRefused(f)
    \/ ~IsInjective(AllNames(class))
    \/ Clashes(class)

FieldsOf(class, kinds) == SelectSeq(Collected(class), LAMBDA f : f.kind \in kinds)

---------------------------------------------------------------------------
(* One axis per compound field, one for the sequential, one for the product ones. *)

TupleRefused(f) == \E row \in Range(f.values) : Len(row) # Len(AttrNames(f))
KeySets(f) == {DOMAIN row : row \in Range(f.values)}
DictKeys(f) == UNION KeySets(f)
DictRefused(f) ==
    \/ Cardinality(KeySets(f)) > 1
    \/ IF f.map = <<>> THEN DictKeys(f) # Range(AttrNames(f))
       ELSE DOMAIN f.map # DictKeys(f) \/ Range(f.map) # Range(AttrNames(f))
KeyOf(f, name) == IF f.map = <<>> THEN name ELSE CHOOSE k \in DOMAIN f.map : f.map[k] = name
IndexOf(f, name) == CHOOSE i \in DOMAIN AttrNames(f) : AttrNames(f)[i] = name
CompoundAxis(f) ==
    [i \in DOMAIN f.values |->
        [name \in Range(AttrNames(f)) |->
            f.values[i][IF f.kind = "dict" THEN KeyOf(f, name) ELSE IndexOf(f, name)]]]

LengthsUnchecked(class) == FALSE
LengthsDiffer(class) ==
    Cardinality({Len(f.values) : f \in Range(FieldsOf(class, {"sequential"}))}) > 1
Single(f, value) == AttrNames(f)[1] :> value
\* zip stops at the shortest.
SequentialAxis(fields) ==
    LET shortest == Min({Len(f.values) : f \in Range(fields)}) IN
    [i \in 1 .. shortest |->
        FoldLeft(LAMBDA row, f : row @@ Single(f, f.values[i]), <<>>, fields)]

\* The rows of two axes, the second one fastest (itertools.product).
Crossed(rows, axis) ==
    [k \in 1 .. Len(rows) * Len(axis) |->
        rows[1 + ((k - 1) \div Len(axis))] @@ axis[1 + ((k - 1) % Len(axis))]]
ProductAxis(fields) ==
    FoldLeft(LAMBDA rows, f : Crossed(rows, [i \in DOMAIN f.values |-> Single(f, f.values[i])]),
             << <<>> >>, fields)

Axes(class) ==
    LET seq == FieldsOf(class, {"sequential"})
        pro == FieldsOf(class, {"product"})
        compound == FieldsOf(class, {"tuple", "dict"})
    IN (IF seq = <<>> THEN <<>> ELSE <<SequentialAxis(seq)>>)
       \o (IF pro = <<>> THEN <<>> ELSE <<ProductAxis(pro)>>)
       \o [i \in DOMAIN compound |-> CompoundAxis(compound[i])]
AxesRefused(class) ==
    \/ \E f \in Range(Collected(class)) :
           (f.kind = "tuple" /\ TupleRefused(f)) \/ (f.kind = "dict" /\ DictRefused(f))
    \/ LengthsDiffer(class)
    \/ Axes(class) = <<>>
Generated(class) == FoldLeft(Crossed, << <<>> >>, Axes(class))

---------------------------------------------------------------------------

Overridden(class) == class.parameters # <<"none">>
Undefined(class) == \E f \in Range(Collected(class)) : ~f.given
\* An explicit get_parameters has priority.
Context(class) == IF Overridden(class) THEN class.parameters ELSE Generated(class)

TypesOf(class, name) ==
    UNION {f.types : f \in {g \in Range(Collected(class)) : name \in Range(AttrNames(g))}}
RowRefused(class, row) ==
    \E name \in DOMAIN row :
        \/ row[name] = NotHashable
        \/ TypesOf(class, name) # {} /\ row[name] \notin TypesOf(class, name)
ContextRefused(class) ==
    \/ ~Overridden(class) /\ (Undefined(class) \/ AxesRefused(class))
    \/ \E row \in Range(Context(class)) : RowRefused(class, row)
    \/ ~IsInjective(Context(class))

Refused(class) == DeclarationRefused(class) \/ ContextRefused(class)
\* The parameter sets of the tasks of a class; their values are the identity.
ParameterSets(class) == IF Refused(class) THEN {} ELSE Range(Context(class))

---------------------------------------------------------------------------
(* The reference: a choice of one value per field, the sequential ones aligned. *)

Picks(class) ==
    LET fields == Collected(class)
        longest == Max({Len(f.values) : f \in Range(fields)})
        Aligned(c) == \A i, j \in DOMAIN fields :
            fields[i].kind = "sequential" /\ fields[j].kind = "sequential" => c[i] = c[j]
    IN {c \in [DOMAIN fields -> 1 .. longest] :
            Aligned(c) /\ \A i \in DOMAIN fields : c[i] \in DOMAIN fields[i].values}
Bound(f, k, name) ==
    IF f.kind = "dict" THEN f.values[k][KeyOf(f, name)]
    ELSE IF f.kind = "tuple" THEN f.values[k][IndexOf(f, name)] ELSE f.values[k]
Picked(class, c) ==
    LET fields == Collected(class) IN
    [name \in Range(AllNames(class)) |->
        LET i == CHOOSE i \in DOMAIN fields : name \in Range(AttrNames(fields[i]))
        IN Bound(fields[i], c[i], name)]

\* A class that is not refused and generates its sets has a task for every choice
\* of its values and no other, each choice once: no axis is cut short, no value
\* meets the one of another row, no two tasks share an identity
\* (_generate_context_from_params).
ExactContext(class) ==
    (~Refused(class) /\ ~Overridden(class)) =>
        /\ ParameterSets(class) = {Picked(class, c) : c \in Picks(class)}
        /\ Cardinality(ParameterSets(class)) = Cardinality(Picks(class))
        /\ \A f \in Range(FieldsOf(class, {"sequential"})) :
               \A v \in Range(f.values) : Picks(class) # {} =>
                   \E s \in ParameterSets(class) : s[AttrNames(f)[1]] = v
=============================================================================
