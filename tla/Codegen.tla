------------------------------ MODULE Codegen ------------------------------
(***************************************************************************)
(* The generator of C headers and TunerStudio definitions (codegen/src):   *)
(* a definition file is read line by line into a registry of defines, a    *)
(* registry of types and a list of structs, from which the two layouts are *)
(* written.  A value of a define is what matters of it: the names that it  *)
(* still refers to as @@NAME@@.  Characters, labels, units and comments    *)
(* are left out, and so is the line that is none of these and ends the run *)
(* before anything is written.  A behaviour reads a file of defines or one  *)
(* of structs.                                                             *)
(***************************************************************************)
EXTENDS Integers, Sequences, FiniteSetsExt

CONSTANTS
    Names,      \* names of defines; case does not count
    Custom,     \* names of types that are no primitives
    MaxLines,   \* bound: lines of a file of structs
    Arrays,     \* bound: elements of an array, 0 for a size that is no number
    Numbers     \* bound: operands of an expression

VARIABLES
    file,       \* what is read
    defines,    \* VariableRegistry.variables: the names that a value refers to, of each known name
    types,      \* TypeRegistry.custom_types
    stack,      \* struct_stack: fields and pending_bits of each open struct, outermost first
    structures, \* ConfigDocument.structures: their fields
    loose,      \* ConfigDocument.top_level_fields
    \* history
    line,       \* lines read
    forward,    \* a define has referred to a name that was not known, or to itself
    written     \* fields in the order of their lines: which, in which struct of the outermost
                \* level, how deep

vars == <<file, defines, types, stack, structures, loose, line, forward, written>>

Primitive == {"uint8_t", "int16_t", "float"}
Unset == {}

Init ==
    /\ file \in {"defines", "structs"}
    /\ defines = [n \in {} |-> Unset] /\ types = [t \in {} |-> 4]
    /\ stack = <<>> /\ structures = <<>> /\ loose = <<>>
    /\ line = 0 /\ forward = FALSE /\ written = <<>>

----------------------------------------------------------------------------
(* Reading: parse_document and process_lines.                              *)

\* apply_variables: each reference is replaced once, by the value as it stands.
Expand(refs) == UNION {IF r \in DOMAIN defines THEN defines[r] ELSE {r} : r \in refs}

Define(name, refs) ==
    /\ defines' = [n \in DOMAIN defines \cup {name} |-> IF n = name THEN Expand(refs) ELSE defines[n]]
    /\ forward' = (forward \/ ~(refs \subseteq DOMAIN defines))
    /\ UNCHANGED <<types, stack, structures, loose, written>>

CustomType(t, size) ==
    /\ types' = [u \in DOMAIN types \cup {t} |-> IF u = t THEN size ELSE types[u]]
    /\ UNCHANGED <<defines, stack, structures, loose, forward, written>>

StructStart ==
    /\ stack' = Append(stack, [fields |-> <<>>, bits |-> 0])
    /\ UNCHANGED <<defines, types, structures, loose, forward, written>>

\* A struct within another is dropped ("future work"), and so are the bits of each; a line
\* end_struct too many is passed over.
StructEnd ==
    /\ stack' = IF stack = <<>> THEN stack ELSE SubSeq(stack, 1, Len(stack) - 1)
    /\ structures' = IF Len(stack) = 1 THEN Append(structures, stack[1].fields) ELSE structures
    /\ UNCHANGED <<defines, types, loose, forward, written>>

\* parse_array_spec: a size that is no number is 0; elements: -1 for a scalar.
Field(type, elements) ==
    LET f == [id |-> Len(written), type |-> type, elements |-> elements]
    IN /\ IF stack = <<>> THEN loose' = Append(loose, f) /\ UNCHANGED stack
          ELSE stack' = [stack EXCEPT ![Len(stack)].fields = Append(@, f)] /\ UNCHANGED loose
       /\ written' = Append(written, [id |-> Len(written), struct |-> Len(structures) + 1, depth |-> Len(stack)])
       /\ UNCHANGED <<defines, types, structures, forward>>

BitField ==
    /\ stack' = IF stack = <<>> THEN stack ELSE [stack EXCEPT ![Len(stack)].bits = @ + 1]
    /\ UNCHANGED <<defines, types, structures, loose, forward, written>>

\* Empty lines, comments, include_file and split_lines change nothing.
ReadDefine ==
    /\ file = "defines"
    /\ \E name \in Names, refs \in SUBSET Names : Define(name, refs)
    /\ UNCHANGED <<file, line>>

ReadStruct ==
    /\ file = "structs" /\ line < MaxLines
    /\ \/ \E t \in Custom : CustomType(t, 8)
       \/ StructStart \/ StructEnd \/ BitField
       \/ \E type \in {"int16_t"} \cup Custom, elements \in Arrays \cup {-1} : Field(type, elements)
    /\ line' = line + 1 /\ UNCHANGED <<file>>

Next == ReadDefine \/ ReadStruct

Spec == Init /\ [][Next]_vars

----------------------------------------------------------------------------
(* Writing: CHeaderGenerator and TsIniGenerator.                           *)

\* TypeRegistry::get_size; structs are never registered.
SizeOf(type) ==
    CASE type = "uint8_t" -> 1 [] type = "int16_t" -> 2 [] type = "float" -> 4
      [] type \in Custom -> IF type \in DOMAIN types THEN types[type] ELSE 4

TotalSize(f) == SizeOf(f.type) * (IF f.elements < 0 THEN 1 ELSE f.elements)

SizeOfAll(fields) == MapThenSumSet(LAMBDA i : TotalSize(fields[i]), DOMAIN fields)
\* ConfigStructure::total_size, which handle_struct registers as <name>_size
StructSize(fields) == 4 * ((SizeOfAll(fields) + 3) \div 4)

\* handle_struct: where the compiler puts the fields, for the struct is packed.
Header(fields) == [i \in 1 .. Len(fields) |-> SizeOfAll(SubSeq(fields, 1, i - 1))]

\* handle_field: a type that TunerStudio does not know is an error; a scalar takes 4 bytes.
Known(fields) == \A i \in 1 .. Len(fields) : fields[i].type \in Primitive
Taken(f) == IF f.elements < 0 THEN 4 ELSE TotalSize(f)
Ini(fields) ==
    [i \in 1 .. Len(fields) |-> MapThenSumSet(LAMBDA j : Taken(fields[j]), 1 .. i - 1)]

----------------------------------------------------------------------------
(* VariableRegistry::evaluate, of tokens.                                  *)

Apply(op, a, b) ==
    CASE op = "*" -> a * b [] op = "+" -> a + b [] op = "-" -> a - b
      [] op = "/" -> IF (a < 0) = (b < 0) THEN a \div b ELSE -((-a) \div b)

Operators == <<"*", "/", "+", "-">>

\* eval_expr: split at the first sign of the first operator in this order that occurs, and evaluate
\* what is before it and what is after it: of[i, j] is the value of tokens i to j.
Evaluate(e) ==
    LET Signs(i, j) == {m \in i .. j : (m - i) % 2 = 1}
        SplitAt(i, j) ==
            LET first == Min({k \in 1 .. 4 : \E m \in Signs(i, j) : e[m] = Operators[k]})
            IN Min({m \in Signs(i, j) : e[m] = Operators[first]})
        of[i \in 1 .. Len(e), j \in 1 .. Len(e)] ==
            IF i = j THEN e[i] ELSE Apply(e[SplitAt(i, j)], of[i, SplitAt(i, j) - 1], of[SplitAt(i, j) + 1, j])
    IN of[1, Len(e)]

\* What is meant: products first, then from left to right.
Meant(a, p, b, q, c) ==
    IF q \in {"*", "/"} /\ p \in {"+", "-"} THEN Apply(p, a, Apply(q, b, c)) ELSE Apply(q, Apply(p, a, b), c)

----------------------------------------------------------------------------
(* Properties.                                                             *)

\* A struct is written with the fields that were read at its own level, in their order, whatever
\* structs were opened, nested, left open or closed too often around them.
FieldsAreKept ==
    /\ \A k \in 1 .. Len(structures) :
          [i \in 1 .. Len(structures[k]) |-> structures[k][i].id] =
          [i \in 1 .. Len(SelectSeq(written, LAMBDA w : w.struct = k /\ w.depth = 1)) |->
              SelectSeq(written, LAMBDA w : w.struct = k /\ w.depth = 1)[i].id]
    /\ Len(loose) = Len(SelectSeq(written, LAMBDA w : w.depth = 0))

\* As long as names are defined before they are used, no value refers to a name, also after
\* names were defined anew.
ValuesAreClosed == ~forward => \A n \in DOMAIN defines : defines[n] = {}

\* In neither layout do two fields share a byte, in the header none is wasted between them, and
\* the registered size holds them all.
FieldsAreApart ==
    \A k \in 1 .. Len(structures) :
        LET fields == structures[k] IN
        /\ \A i, j \in 1 .. Len(fields) : i < j =>
              /\ Header(fields)[i] + TotalSize(fields[i]) <= Header(fields)[j]
              /\ Known(fields) => Ini(fields)[i] + TotalSize(fields[i]) <= Ini(fields)[j]
        /\ SizeOfAll(fields) <= StructSize(fields) /\ StructSize(fields) < SizeOfAll(fields) + 4

\* One operation, or several of one kind that may be grouped at will, are evaluated as meant.
SimpleSumsAreRight ==
    \A a, b, c \in Numbers :
        /\ \A op \in {"+", "-", "*"} : Evaluate(<<a, op, b>>) = Apply(op, a, b)
        /\ \A op \in {"+", "*"} : Evaluate(<<a, op, b, op, c>>) = Meant(a, op, b, op, c)
        /\ Evaluate(<<a, "+", b, "-", c>>) = Meant(a, "+", b, "-", c)

\* "Supports basic arithmetic: +, -, *, /" (registry.rs:143)
ArithmeticIsRight ==
    \A a, b, c \in Numbers, p, q \in {"+", "-", "*"} : Evaluate(<<a, p, b, q, c>>) = Meant(a, p, b, q, c)

\* A field lies where the header puts it ("rusEFI Configuration Code Generator ... Generates C
\* headers and TunerStudio INI files from rusefi_config.txt", lib.rs:1).
LayoutsAgree == \A k \in 1 .. Len(structures) : Known(structures[k]) => Ini(structures[k]) = Header(structures[k])

GeneratorKeeps == FieldsAreKept /\ ValuesAreClosed /\ FieldsAreApart /\ SimpleSumsAreRight
=============================================================================
