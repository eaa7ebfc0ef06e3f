---------------------------- MODULE MCTextFormats ----------------------------
(* TextFormats over a few types, traits and methods, three system calls    *)
(* and short files.                                                        *)
EXTENDS TextFormats

MCItem(kind, type, trait, method) ==
    [kind |-> kind, type |-> type, trait |-> trait, method |-> method]

MCVec == <<"Vec", "<", "T", ">">>
MCProjection == <<"<", "T", " as ", "Iterator", ">", "::", "Item">>
MCFrom == <<"From", "<">> \o MCProjection \o <<">">>

(* A function in a method, of an impl block of its own.                    *)
MCNested == <<"poll", "::", "_", "::", "<", "impl ", "S", ">", "::", "project">>

MCMain == MCItem("plain", <<>>, <<>>, <<"main">>)

(* A name that the tests of function.rs say cannot be parsed.              *)
MCMalformed == MCItem("plain", <<>>, <<>>, <<"<", "foo", " as ", "bar">>)

MCSymbol ==
    {MCMain,
     MCItem("other", <<>>, <<>>, <<"memcpy">>),
     MCMalformed,
     MCItem("plain", <<"ptr">>, <<>>, <<"drop_in_place", "<", "T", ">">>),
     MCItem("impl", MCVec, <<>>, <<"push">>),
     MCItem("impl", MCVec, <<"Debug">>, MCNested)}
    \cup {MCItem("impl", type, trait, <<"fmt">>) :
            type \in {MCVec, MCProjection}, trait \in {<<"Debug">>, MCFrom}}

MCLine ==
    {Comment} \cup
    {[name |-> name, words |-> words] :
        name \in {"read"}, words \in {<<>>, <<"Safe">>, <<"Files", "Network">>, <<"Files", None>>}}
    \cup {[name |-> "open", words |-> <<"Files">>]}

MCTraced == {"read", "open", "gettid"}
==============================================================================
