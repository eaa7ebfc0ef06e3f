------------------------------ MODULE RustName ------------------------------
(***************************************************************************)
(* parse_rust_function_name (src/function.rs): how the name of a function, *)
(* as the demangler spells it, is split into a type, a trait and a method. *)
(* A name is a sequence of tokens, "<", ">", "::", " as " and words.       *)
(***************************************************************************)
EXTENDS Integers, Sequences

Positions(text, separator) ==
    {i \in 1..(Len(text) - Len(separator) + 1) :
        SubSeq(text, i, i + Len(separator) - 1) = separator}

Occurs(separator, text) == Positions(text, separator) # {}

SplitAt(text, i, separator) ==
    <<SubSeq(text, 1, i - 1), SubSeq(text, i + Len(separator), Len(text))>>

SplitOnce(text, separator) ==
    SplitAt(text, CHOOSE i \in Positions(text, separator) :
                    \A j \in Positions(text, separator) : i <= j, separator)

RSplitOnce(text, separator) ==
    SplitAt(text, CHOOSE i \in Positions(text, separator) :
                    \A j \in Positions(text, separator) : j <= i, separator)

Closing == <<">", "::">>
As == <<" as ">>

MalformedTraitMethod == [error |-> "MalformedTraitMethod"]
MalformedMethod == [error |-> "MalformedMethod"]

StructMethod(split) == [type |-> split[1], method |-> split[2]]

AngleEarly(text) ==     \* mutant: the first ">::" ends the trait, not the last
    IF Occurs(As, text)
    THEN LET rem == SplitOnce(text, As)[2]
             type == SplitOnce(text, As)[1]
         IN  IF Occurs(Closing, rem)
             THEN [trait |-> SplitOnce(rem, Closing)[1], type |-> type,
                   method |-> SplitOnce(rem, Closing)[2]]
             ELSE MalformedTraitMethod
    ELSE IF Occurs(Closing, text) THEN StructMethod(SplitOnce(text, Closing))
    ELSE MalformedMethod

(* What follows the "<" a name begins with.                                *)
ParseAngle(text) ==
    IF Occurs(As, text)
    THEN LET type == SplitOnce(text, As)[1]
             rem == SplitOnce(text, As)[2]
         IN  IF Occurs(Closing, rem)
             THEN [trait |-> RSplitOnce(rem, Closing)[1], type |-> type,
                   method |-> RSplitOnce(rem, Closing)[2]]
             ELSE MalformedTraitMethod
    ELSE IF Occurs(Closing, text) THEN StructMethod(RSplitOnce(text, Closing))
    ELSE MalformedMethod

ParseRustName(text) ==
    IF Head(text) = "<" THEN ParseAngle(Tail(text))
    ELSE IF text[Len(text)] # ">" /\ Occurs(<<"::">>, text)
    THEN StructMethod(RSplitOnce(text, <<"::">>))
    ELSE [function |-> text]

Parses(text) == "error" \notin DOMAIN ParseRustName(text)
=============================================================================
