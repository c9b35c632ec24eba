------------------------- MODULE MCSchemaRegistry -------------------------
EXTENDS SchemaRegistry

CONSTANTS t1, t2

File(name, deps, types) == [name |-> name, deps |-> deps, types |-> types]

\* two files, the second in two versions: one needs the first, one adds a type
MCFiles == { File("a", {}, {"A"}), File("b", {"a"}, {"B"}), File("b", {}, {"B", "C"}) }
MCTypes == {"A", "B", "C"}

=============================================================================
