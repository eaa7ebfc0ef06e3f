---------------------------- MODULE ReportFormat ----------------------------
(***************************************************************************)
(* capslock/src/report.rs and caps.rs: a Report as JSON, written by the    *)
(* hand-written and derived Serialize, and read by the derived             *)
(* Deserialize.  A JSON object is a record; a field that is skipped is not *)
(* in its domain, and an enum that is untagged is known by its fields.     *)
(***************************************************************************)
EXTENDS ProcessState

Unreadable == [error |-> "unreadable"]

Readable(value) == value # Unreadable

Has(json, fields) == fields \subseteq DOMAIN json

(* The fields of both objects; where they share one, that of the first.    *)
first @@ second ==
    [field \in DOMAIN first \cup DOMAIN second |->
        IF field \in DOMAIN first THEN first[field] ELSE second[field]]

Unless(skipped, object) == IF skipped THEN Empty ELSE object

-----------------------------------------------------------------------------
(* FunctionName::Rust has a name, FunctionName::Other a language.          *)
WriteName(name) ==
    name @@ Unless(~Has(name, {"name"}), [language |-> "rust"])

AsTraitMethod(json) == [trait |-> json.trait, type |-> json.type, method |-> json.method]

AsStructMethod(json) == [type |-> json.type, method |-> json.method]

StructFirst(json) ==        \* mutant: the variants of RustFunctionName in another order
    IF Has(json, {"type", "method"}) THEN AsStructMethod(json)
    ELSE IF Has(json, {"trait", "type", "method"}) THEN AsTraitMethod(json)
    ELSE IF Has(json, {"function"}) THEN [function |-> json.function]
    ELSE Unreadable

(* The variants of an untagged enum are tried in the order they are in.    *)
ReadRustName(json) ==
    IF Has(json, {"trait", "type", "method"}) THEN AsTraitMethod(json)
    ELSE IF Has(json, {"type", "method"}) THEN AsStructMethod(json)
    ELSE IF Has(json, {"function"}) THEN [function |-> json.function]
    ELSE Unreadable

ReadName(json) ==
    IF Has(json, {"display_name", "name"}) /\ Readable(ReadRustName(json.name))
    THEN [display_name |-> json.display_name, name |-> ReadRustName(json.name)]
    ELSE IF Has(json, {"display_name", "language"})
    THEN [display_name |-> json.display_name, language |-> json.language]
    ELSE Unreadable

-----------------------------------------------------------------------------
WriteFunction(f) ==
    WriteName(f.name)
        @@ [location |-> f.location, capabilities |-> f.capabilities]
        @@ Unless(f.syscalls = {}, [syscalls |-> f.syscalls])

(* CapabilityType is read as a &str, which only a text that is in memory   *)
(* can lend (`borrowed`).                                                  *)
ReadFunction(json, borrowed) ==
    IF /\ Has(json, {"capabilities"}) /\ Readable(ReadName(json))
       /\ borrowed \/ json.capabilities = Empty
    THEN [name |-> ReadName(json), location |-> json.location,
          capabilities |-> json.capabilities,
          syscalls |-> IF Has(json, {"syscalls"}) THEN json.syscalls ELSE {}]
    ELSE Unreadable

CollectSyscalls(functions) == UNION {functions[n].syscalls : n \in DOMAIN functions}

WriteProcess(p) ==
    LET syscalls == CollectSyscalls(p.functions)
    IN  [path |-> p.path,
         capabilities |-> p.capabilities \ {"Safe"},
         functions |-> [n \in DOMAIN p.functions |-> WriteFunction(p.functions[n])],
         edges |-> p.edges]
            @@ Unless(syscalls = {}, [syscalls |-> syscalls])

ReadProcess(json, borrowed) ==
    LET functions == [n \in DOMAIN json.functions |-> ReadFunction(json.functions[n], borrowed)]
    IN  IF \A n \in DOMAIN functions : Readable(functions[n])
        THEN [path |-> json.path, capabilities |-> json.capabilities,
              functions |-> functions, edges |-> json.edges]
        ELSE Unreadable

(* The process is flattened into the report.                               *)
WriteReport(r) ==
    WriteProcess(r.process)
        @@ Unless(r.children = <<>>,
                  [children |-> [i \in DOMAIN r.children |-> WriteProcess(r.children[i])]])

ReadReport(json, borrowed) ==
    IF ~Has(json, {"children"}) THEN Unreadable
    ELSE LET process == ReadProcess(json, borrowed)
             children == [i \in DOMAIN json.children |-> ReadProcess(json.children[i], borrowed)]
         IN  IF Readable(process) /\ \A i \in DOMAIN children : Readable(children[i])
             THEN [process |-> process, children |-> children]
             ELSE Unreadable
=============================================================================
