----------------------------- MODULE TableHandle -----------------------------
(* The handle a contract gets for a table                                   *)
(* (src/src/js_contract/src/Table.cpp: TableFactory::get_table,             *)
(* Table::set_index; Index::name): which declarations of indexes are        *)
(* accepted, and in which table of the chain each index keeps its entries.  *)
(* A name is the set of the bits of its number: the first twelve characters *)
(* fill those from 4 to 63, a thirteenth the lowest four.  Nothing checks   *)
(* the length of the name of the table: "multi_index does not support table *)
(* names with a length greater than 12" (Table.cpp:515) is what set_index    *)
(* says of the name of an index.                                            *)
EXTENDS Integers, Sequences

CONSTANTS
    TableNames,     \* bound: the tables of the ABI
    MaxDeclared     \* bound: indexes a contract declares

ASSUME NamesAssumption == MaxDeclared \in 0..31 /\ \A n \in TableNames : n \subseteq 0..63

MaxIndexes == 16

\* The bits of a number below 32.
Bits(n) == {k \in 0..4 : (n \div <<1, 2, 4, 8, 16>>[k + 1]) % 2 = 1}

\* Index::name
IndexTable(name, idx) == name \cup Bits(idx)

\* set_index: the name of the index, the length of its declaration, the size of
\* its key and its function.
Accepts(option) ==
    /\ option.name \cap (0..3) = {}
    /\ option.length = 2
    /\ option.size \in 1..256 /\ option.size % 64 = 0
    /\ option.isFunction

\* Mutant of Opens: one index more.
OpensOneMore(options) == Len(options) <= MaxIndexes + 1 /\ \A i \in DOMAIN options : Accepts(options[i])

\* get_table, for a table with a key: one declaration that is not accepted and
\* there is no handle.
Opens(options) == Len(options) <= MaxIndexes /\ \A i \in DOMAIN options : Accepts(options[i])

\* indexes_array: the position of a declaration is the index of its table.
get_table(name, options) ==
    [i \in DOMAIN options |-> [table |-> IndexTable(name, i - 1), words |-> options[i].size \div 64]]

----------------------------------------------------------------------------
VARIABLE declared       \* the indexes a contract declares

\* A declaration that is accepted, with each of its parts at a limit.
Good == [name |-> {4}, length |-> 2, size |-> 256, isFunction |-> TRUE]
Options ==
    {[Good EXCEPT !.name = n] : n \in {{0}, {4}}} \cup {[Good EXCEPT !.length = n] : n \in 1..3}
        \cup {[Good EXCEPT !.size = n] : n \in {0, 63, 64, 128, 192, 256, 257, 320}}
        \cup {[Good EXCEPT !.isFunction = FALSE]}

TableInit == declared = <<>>

Declare ==
    /\ Len(declared) < MaxDeclared
    /\ \A i \in DOMAIN declared : declared[i] = Good
    /\ \E option \in Options : declared' = Append(declared, option)

TableNext == Declare

----------------------------------------------------------------------------
\* No two indexes of the tables with these names, of one table or of two, keep
\* their entries in one table of the chain: only so do the rows of one never
\* show up in the other.
Apart(names) ==
    \A m, n \in names, i, j \in DOMAIN declared :
        get_table(m, declared)[i].table = get_table(n, declared)[j].table => m = n /\ i = j

\* A declaration that opens keeps the indexes of all tables with at most twelve
\* characters apart, and the keys of each fit one of the four classes of
\* indexes.  It is no more than that: with a thirteenth character a table may
\* share entries with another or with itself, and no declaration is refused.
ShortNamesApart ==
    Opens(declared) =>
        /\ \A i \in DOMAIN declared : get_table({}, declared)[i].words \in 1..4
        /\ Apart({n \in TableNames : n \subseteq 4..63})
=============================================================================
