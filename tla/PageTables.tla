----------------------------- MODULE PageTables -----------------------------
(***************************************************************************)
(* The multi-level page tables memoria builds for a process, and the walk  *)
(* a CPU makes through them, one request per level.                        *)
(*                                                                         *)
(* A table is a record of its identity, whether it is of the last level,   *)
(* and what memoria answers for each entry: the identity of the next table *)
(* or the frame.  Tables of a process are numbered from 1 in the order in  *)
(* which they are created; tables of different processes have the same     *)
(* numbers.                                                                *)
(***************************************************************************)
EXTENDS Integers, Sequences, SequencesExt

CONSTANTS
    Levels,          \* CANTIDAD_NIVELES
    Entries          \* ENTRADAS_POR_TABLA

ASSUME PageTablesAssumption == Levels \in Nat \ {0} /\ Entries \in Nat \ {0}

INVALID_FRAME_NUMBER == -1
Indices == 0..(Entries - 1)
IsLast(level) == level = Levels - 1

\* The powers of ENTRADAS_POR_TABLA.
pow[n \in 0..Levels] == IF n = 0 THEN 1 ELSE Entries * pow[n - 1]

\* The loop over the entries of table id, which creates the table below each with
\* create: the number the next table gets, and the tables made, before entry n.
create_entries(create, id) ==
    LET upto[n \in 0..Entries] ==
            IF n = 0 THEN [next |-> id + 1, tables |-> {}]
            ELSE LET child == create[upto[n - 1].next]
                 IN  [next |-> child.next, tables |-> upto[n - 1].tables \cup child.tables]
    IN  upto

\* The last tables have no tables below them.
LastTable(id) ==
    [next |-> id + 1,
     tables |-> {[id |-> id, last |-> TRUE, entry |-> [i \in Indices |-> INVALID_FRAME_NUMBER]]}]

\* A table of another level gets its number before the tables below it.
InnerTable(loop, id) ==
    [next |-> loop[Entries].next,
     tables |-> loop[Entries].tables \cup
        {[id |-> id, last |-> FALSE, entry |-> [i \in Indices |-> loop[i].next]]}]

\* What _create_table makes at each level, when id is the next number.
create_table[level \in 0..(Levels - 1)] ==
    IF IsLast(level) THEN [id \in Nat |-> LastTable(id)]
    ELSE [id \in Nat |-> InnerTable(create_entries(create_table[level + 1], id), id)]

init_page_table == create_table[0][1].tables

\* The tables with an identity: at most one, if the numbering is right.
find_table_by_id(tables, id) == {t \in tables : t.id = id}

\* The identities of the tables of a level, breadth first from the root: those
\* below the first table of the level above come first.
collect_tables[level \in 0..(Levels - 1)] ==
    IF level = 0 THEN [n \in {0} |-> 1]
    ELSE [n \in 0..(pow[level] - 1) |->
            LET id == collect_tables[level - 1][n \div Entries]
                t == CHOOSE t \in find_table_by_id(init_page_table, id) : TRUE
            IN  t.entry[n % Entries]]

\* The entries of the last tables, in the order they are collected, take the
\* frames of the process one after the other.
assign_frames(frames) ==
    LET last == collect_tables[Levels - 1]
        page(id, i) == (CHOOSE n \in DOMAIN last : last[n] = id) * Entries + i
    IN  {IF t.last
         THEN [t EXCEPT !.entry = [i \in Indices |->
                IF page(t.id, i) < Len(frames) THEN frames[page(t.id, i) + 1] ELSE @[i]]]
         ELSE t : t \in init_page_table}

\* memoria answers a request for an entry of a table of a process.
handle_page_walk_request(tables, id, index) ==
    LET found == find_table_by_id(tables, id)
    IN  IF found = {} \/ index >= Entries THEN INVALID_FRAME_NUMBER
        ELSE (CHOOSE t \in found : TRUE).entry[index]

\* Wrong on purpose: the divisor of a level is that of the level above.
IndexShifted(page, level) == (page \div pow[Levels - level + 1]) % Entries

\* The entry of a level that the walk for a page asks for.
EntryIndex(page, level) == (page \div pow[Levels - level]) % Entries

\* The CPU goes from table 1 down, a request per level; an answer of 0 ends it.
mmu_perform_page_walk(tables, page) ==
    LET answer[level \in 0..Levels] ==
            IF level = 0 THEN 1
            ELSE IF answer[level - 1] = 0 THEN 0
            ELSE handle_page_walk_request(tables, answer[level - 1], EntryIndex(page, level))
    IN  answer[Levels]
=============================================================================
