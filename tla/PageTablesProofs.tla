--------------------------- MODULE PageTablesProofs ---------------------------
(***************************************************************************)
(* A walk through the page tables of a process finds the frame of the      *)
(* page, for any number of levels and of entries of a table.               *)
(*                                                                         *)
(* create_table numbers the tables of a branch one after the other, so a   *)
(* number belongs to one table, and the tables of a level, collected       *)
(* breadth first, are in the order of the pages below them.                *)
(***************************************************************************)
EXTENDS PageTables, WellFoundedInduction, NaturalsInduction, TLAPS

-----------------------------------------------------------------------------
(* Recursion and arithmetic *)

\* A set of numbers has a first one.
LEMMA Least == ASSUME NEW S \in SUBSET Nat, S # {} PROVE \E n \in S : \A j \in S : n <= j
<1> DEFINE R == OpToRel(<, Nat)
<1>1. IsWellFoundedOn(R, Nat)
  BY NatLessThanWellFounded
<1>2. \E x \in S : \A y \in S : ~(<<y, x>> \in R)
  <2> HIDE DEF R
  <2> QED
    BY <1>1, WFMin
<1>3. PICK x \in S : \A y \in S : ~(<<y, x>> \in R)
  BY <1>2
<1>4. ASSUME NEW y \in S PROVE x <= y
  <2>1. y < x => <<y, x>> \in R
    BY DEF OpToRel
  <2> HIDE DEF R
  <2> QED
    BY <1>3, <2>1
<1> QED
  BY <1>4

\* Induction over an initial segment of the numbers, for a set.
LEMMA UpTo ==
    ASSUME NEW N \in Nat, NEW S, 0 \in S, \A n \in 1..N : n - 1 \in S => n \in S
    PROVE  \A n \in 0..N : n \in S
<1> SUFFICES ASSUME NEW n \in 0..N, n \notin S PROVE FALSE
  OBVIOUS
<1> DEFINE T == {k \in 0..N : k \notin S}
<1>1. T \in SUBSET Nat /\ n \in T
  OBVIOUS
<1>2. PICK k \in T : \A j \in T : k <= j
  <2> HIDE DEF T
  <2> QED
    BY <1>1, Least
<1>3. k \in 1..N /\ k - 1 \in 0..N /\ k - 1 \notin T
  BY <1>2
<1> QED
  BY <1>3

\* The function that starts with v0 and follows the steps g, up to N.
Solves(f, N, v0, g) ==
    /\ f = [n \in 0..N |-> f[n]]
    /\ f[0] = v0
    /\ \A n \in 1..N : f[n] = g[n][f[n - 1]]

\* The steps g lead from each of the sets V to the next one.
Leads(N, V, v0, g) ==
    /\ v0 \in V[0]
    /\ \A n \in 1..N : \A v \in V[n - 1] : g[n][v] \in V[n]

\* Each value is in its set.
Within(f, N, V) == \A n \in 0..N : f[n] \in V[n]

\* A function defined by recursion exists, and its values are where the steps of
\* the recursion put them.
LEMMA Recursion ==
    ASSUME NEW N \in Nat, NEW V, NEW v0, NEW g, Leads(N, V, v0, g)
    PROVE  \E f : Solves(f, N, v0, g) /\ Within(f, N, V)
<1> USE DEF Solves, Leads, Within
<1> DEFINE To(f, n) == /\ f[0] = v0
                       /\ \A i \in 0..n : f[i] \in V[i]
                       /\ \A i \in 1..n : f[i] = g[i][f[i - 1]]
           S == {n \in 0..N : \E f : To(f, n)}
<1>1. 0 \in S
  <2>1. To([i \in {0} |-> v0], 0)
    OBVIOUS
  <2> HIDE DEF To
  <2>2. \E f : To(f, 0)
    BY <2>1
  <2> QED
    BY <2>2
<1>2. ASSUME NEW n \in 1..N, n - 1 \in S PROVE n \in S
  <2>1. PICK f : To(f, n - 1)
    BY <1>2
  <2> DEFINE h == [i \in 0..n |-> IF i = n THEN g[n][f[n - 1]] ELSE f[i]]
  <2>2. h[0] = v0
    BY <2>1
  <2>3. f[n - 1] \in V[n - 1]
    BY <2>1
  <2>4. ASSUME NEW i \in 0..n PROVE h[i] \in V[i]
    <3>1. CASE i = n
      BY <2>3, <3>1
    <3>2. CASE i # n
      <4>1. i \in 0..(n - 1)
        BY <3>2
      <4>2. h[i] = f[i]
        BY <3>2
      <4> QED
        BY <2>1, <4>1, <4>2
    <3> QED
      BY <3>1, <3>2
  <2>5. ASSUME NEW i \in 1..n PROVE h[i] = g[i][h[i - 1]]
    <3>1. h[i - 1] = f[i - 1]
      OBVIOUS
    <3>2. CASE i = n
      BY <3>1, <3>2
    <3>3. CASE i # n
      <4>1. i \in 1..(n - 1)
        BY <3>3
      <4>2. h[i] = f[i]
        BY <3>3
      <4> QED
        BY <2>1, <3>1, <4>1, <4>2
    <3> QED
      BY <3>2, <3>3
  <2> HIDE DEF h
  <2>6. To(h, n)
    BY <2>2, <2>4, <2>5
  <2> QED
    BY <2>6
<1> HIDE DEF S
<1>3. N \in S
  <2>1. \A n \in 0..N : n \in S
    BY <1>1, <1>2, UpTo
  <2> QED
    BY <2>1
<1>4. PICK f : To(f, N)
  BY <1>3 DEF S
<1> DEFINE h == [n \in 0..N |-> f[n]]
<1>5. \A n \in 0..N : h[n] = f[n]
  OBVIOUS
<1>6. h = [n \in 0..N |-> h[n]]
  OBVIOUS
<1>7. \A n \in 1..N : n - 1 \in 0..N /\ n \in 0..N
  OBVIOUS
<1> HIDE DEF h
<1>8. /\ h[0] = v0
      /\ \A n \in 0..N : h[n] \in V[n]
      /\ \A n \in 1..N : h[n] = g[n][h[n - 1]]
  BY <1>4, <1>5, <1>7
<1> QED
  BY <1>6, <1>8

\* The powers of ENTRADAS_POR_TABLA are positive, each a multiple of the one before.
LEMMA PowFacts ==
    /\ pow[0] = 1
    /\ \A n \in 1..Levels : pow[n] = Entries * pow[n - 1]
    /\ \A n \in 0..Levels : pow[n] \in Nat \ {0}
<1> USE PageTablesAssumption
<1> DEFINE V == [n \in 0..Levels |-> Nat \ {0}]
           g == [n \in 1..Levels |-> [v \in Nat \ {0} |-> Entries * v]]
<1>0. ASSUME NEW v \in Nat \ {0} PROVE Entries * v \in Nat \ {0}
  OBVIOUS
<1>1. PICK f : Solves(f, Levels, 1, g) /\ Within(f, Levels, V)
  <2>1. 1 \in V[0]
    OBVIOUS
  <2>2. ASSUME NEW n \in 1..Levels, NEW v \in V[n - 1] PROVE g[n][v] \in V[n]
    <3>1. v \in Nat \ {0}
      OBVIOUS
    <3> QED
      BY <1>0, <3>1
  <2> HIDE DEF V, g
  <2>3. Leads(Levels, V, 1, g)
    BY <2>1, <2>2 DEF Leads
  <2> QED
    BY <2>3, Recursion
<1>2. f = [n \in 0..Levels |-> IF n = 0 THEN 1 ELSE Entries * f[n - 1]]
  <2>1. ASSUME NEW n \in 1..Levels PROVE f[n] = Entries * f[n - 1]
    <3>1. f[n] = g[n][f[n - 1]]
      BY <1>1 DEF Solves
    <3>2. n - 1 \in 0..Levels
      OBVIOUS
    <3>3. f[n - 1] \in Nat \ {0}
      BY <1>1, <3>2 DEF Within
    <3> QED
      BY <3>1, <3>3
  <2> HIDE DEF g, V
  <2>2. \A n \in 0..Levels : f[n] = IF n = 0 THEN 1 ELSE Entries * f[n - 1]
    <3>1. f[0] = 1
      BY <1>1 DEF Solves
    <3> QED
      BY <2>1, <3>1
  <2> QED
    BY <1>1, <2>2 DEF Solves
<1> HIDE DEF g, V
<1>3. pow = [n \in 0..Levels |-> IF n = 0 THEN 1 ELSE Entries * pow[n - 1]]
  BY <1>2 DEF pow
<1>4. pow[0] = 1 /\ \A n \in 1..Levels : pow[n] = Entries * pow[n - 1]
  BY <1>3
<1> DEFINE S == {n \in 0..Levels : pow[n] \in Nat \ {0}}
<1>5. 0 \in S
  BY <1>4
<1>6. ASSUME NEW n \in 1..Levels, n - 1 \in S PROVE n \in S
  BY <1>0, <1>4, <1>6
<1> HIDE DEF S
<1>7. \A n \in 0..Levels : n \in S
  BY <1>5, <1>6, UpTo
<1> QED
  BY <1>4, <1>7 DEF S

\* Sums of equal parts: a later part starts after an earlier one ends.
LEMMA Parts ==
    ASSUME NEW s \in Nat, NEW i \in Nat, NEW n \in Nat
    PROVE  /\ i * s \in Nat /\ (i + 1) * s = i * s + s
           /\ i < n => i * s + s <= n * s
           /\ i <= n => i * s <= n * s
<1>1. i * s \in Nat /\ (i + 1) * s = i * s + s
  OBVIOUS
<1>2. ASSUME i <= n PROVE i * s <= n * s
  <2>1. PICK d \in Nat : n = i + d
    <3>1. n - i \in Nat /\ n = i + (n - i)
      BY <1>2
    <3> QED
      BY <3>1
  <2>2. d * s \in Nat /\ i * s \in Nat /\ n * s = i * s + d * s
    BY <2>1
  <2> QED
    BY <2>2
<1>3. ASSUME i < n PROVE i * s + s <= n * s
  <2>1. PICK d \in Nat : n = i + 1 + d
    <3>1. n - i - 1 \in Nat /\ n = i + 1 + (n - i - 1)
      BY <1>3
    <3> QED
      BY <3>1
  <2>2. d * s \in Nat /\ i * s \in Nat /\ n * s = i * s + s + d * s
    BY <2>1
  <2> QED
    BY <2>2
<1> QED
  BY <1>1, <1>2, <1>3

-----------------------------------------------------------------------------
(* The numbers of the tables *)

Tables == [id : Nat, last : BOOLEAN, entry : [Indices -> Int]]
Made == [next : Nat, tables : SUBSET Tables]

\* What is created takes s numbers, from the next one on, and gives each once, the
\* first of them to the table that is asked for.
Numbered(create, s) ==
    /\ create \in [Nat -> Made] /\ s \in Nat \ {0}
    /\ \A j \in Nat :
        /\ create[j].next = j + s
        /\ \A t \in create[j].tables : t.id \in j..(j + s - 1)
        /\ \A t, u \in create[j].tables : t.id = u.id => t = u
        /\ \E t \in create[j].tables : t.id = j

\* What the loop over the entries of a table has made before entry n.
Below(create, s, id, n) == UNION {create[id + 1 + i * s].tables : i \in 0..(n - 1)}
Looped(create, s, id, loop) ==
    \A n \in 0..Entries :
        loop[n].next = id + 1 + n * s /\ loop[n].tables = Below(create, s, id, n)

\* The loop gives each entry as many numbers.
LEMMA LoopFacts ==
    ASSUME NEW create, NEW s, Numbered(create, s), NEW id \in Nat
    PROVE  Looped(create, s, id, create_entries(create, id))
<1> USE PageTablesAssumption
<1>0. s \in Nat /\ \A j \in Nat : create[j].next = j + s
  BY DEF Numbered
<1> DEFINE F(f) == [n \in 0..Entries |->
              IF n = 0 THEN [next |-> id + 1, tables |-> {}]
              ELSE [next |-> create[f[n - 1].next].next,
                    tables |-> f[n - 1].tables \cup create[f[n - 1].next].tables]]
           h == [n \in 0..Entries |->
                    [next |-> id + 1 + n * s, tables |-> Below(create, s, id, n)]]
<1>1. Below(create, s, id, 0) = {}
  BY DEF Below
<1>2. ASSUME NEW n \in 1..Entries
      PROVE  Below(create, s, id, n)
             = Below(create, s, id, n - 1) \cup create[id + 1 + (n - 1) * s].tables
  <2>1. 0..(n - 1) = (0..(n - 1 - 1)) \cup {n - 1}
    OBVIOUS
  <2> QED
    BY <2>1 DEF Below
<1>3. ASSUME NEW n \in 1..Entries
      PROVE  /\ id + 1 + (n - 1) * s \in Nat
             /\ create[id + 1 + (n - 1) * s].next = id + 1 + n * s
  <2>1. n - 1 \in Nat /\ n - 1 + 1 = n
    OBVIOUS
  <2>2. (n - 1) * s \in Nat /\ n * s = (n - 1) * s + s
    BY <1>0, <2>1, Parts
  <2>3. id + 1 + (n - 1) * s \in Nat
    BY <2>2
  <2> QED
    BY <1>0, <2>2, <2>3
<1>4. h = F(h)
  <2>1. ASSUME NEW n \in 0..Entries PROVE h[n] = F(h)[n]
    <3>1. CASE n = 0
      <4>1. 0 * s = 0
        BY <1>0
      <4> QED
        BY <1>1, <3>1, <4>1
    <3>2. CASE n # 0
      <4>1. n \in 1..Entries /\ n - 1 \in 0..Entries
        BY <3>2
      <4>2. /\ h[n - 1].next = id + 1 + (n - 1) * s
            /\ h[n - 1].tables = Below(create, s, id, n - 1)
        BY <4>1
      <4>3. F(h)[n] = [next |-> create[h[n - 1].next].next,
                       tables |-> h[n - 1].tables \cup create[h[n - 1].next].tables]
        BY <3>2
      <4> HIDE DEF h, F
      <4>4. F(h)[n] = [next |-> id + 1 + n * s, tables |-> Below(create, s, id, n)]
        BY <1>2, <1>3, <4>1, <4>2, <4>3
      <4> QED
        BY <4>4 DEF h
    <3> QED
      BY <3>1, <3>2
  <2> QED
    BY <2>1
<1>5. create_entries(create, id) = F(create_entries(create, id))
  <2> DEFINE loop == CHOOSE f : f = F(f)
  <2>1. create_entries(create, id) = loop
    BY DEF create_entries
  <2> HIDE DEF h
  <2>2. \E f : f = F(f)
    BY <1>4
  <2>3. loop = F(loop)
    <3> HIDE DEF F
    <3> QED
      BY <2>2
  <2> HIDE DEF loop
  <2> QED
    BY <2>1, <2>3
<1> HIDE DEF h
<1>6. PICK loop : loop = create_entries(create, id)
  OBVIOUS
<1>7. loop = F(loop)
  BY <1>5, <1>6
<1>8. /\ loop[0].next = id + 1 /\ loop[0].tables = {}
      /\ \A n \in 1..Entries :
            /\ loop[n].next = create[loop[n - 1].next].next
            /\ loop[n].tables = loop[n - 1].tables \cup create[loop[n - 1].next].tables
  <2>1. loop[0] = [next |-> id + 1, tables |-> {}]
    BY <1>7
  <2>2. ASSUME NEW n \in 1..Entries
        PROVE  loop[n] = [next |-> create[loop[n - 1].next].next,
                          tables |-> loop[n - 1].tables \cup create[loop[n - 1].next].tables]
    <3>1. n \in 0..Entries /\ n # 0
      OBVIOUS
    <3>2. F(loop)[n] = [next |-> create[loop[n - 1].next].next,
                        tables |-> loop[n - 1].tables \cup create[loop[n - 1].next].tables]
      BY <3>1
    <3> HIDE DEF F
    <3> QED
      BY <1>7, <3>2
  <2>3. loop[0].next = id + 1 /\ loop[0].tables = {}
    BY <2>1
  <2>4. ASSUME NEW n \in 1..Entries
        PROVE  /\ loop[n].next = create[loop[n - 1].next].next
               /\ loop[n].tables = loop[n - 1].tables \cup create[loop[n - 1].next].tables
    <3> DEFINE nx == create[loop[n - 1].next].next
               tb == loop[n - 1].tables \cup create[loop[n - 1].next].tables
    <3>1. loop[n] = [next |-> nx, tables |-> tb]
      BY <2>2
    <3> HIDE DEF F, nx, tb
    <3>2. loop[n].next = nx /\ loop[n].tables = tb
      BY <3>1
    <3> QED
      BY <3>2 DEF nx, tb
  <2> QED
    BY <2>3, <2>4
<1> HIDE DEF F
<1> DEFINE S == {n \in 0..Entries : loop[n].next = id + 1 + n * s
                                     /\ loop[n].tables = Below(create, s, id, n)}
<1>9. 0 \in S
  <2>1. 0 * s = 0
    BY <1>0
  <2>2. loop[0].next = id + 1 + 0 * s
    BY <1>8, <2>1
  <2>3. loop[0].tables = Below(create, s, id, 0) /\ 0 \in 0..Entries
    BY <1>1, <1>8
  <2> QED
    BY <2>2, <2>3
<1>10. ASSUME NEW n \in 1..Entries, n - 1 \in S PROVE n \in S
  <2>1. loop[n - 1].next = id + 1 + (n - 1) * s
        /\ loop[n - 1].tables = Below(create, s, id, n - 1)
    BY <1>10
  <2>2. loop[n].next = id + 1 + n * s /\ loop[n].tables = Below(create, s, id, n)
    BY <1>2, <1>3, <1>8, <2>1
  <2> QED
    BY <2>2
<1> HIDE DEF S
<1>11. \A n \in 0..Entries : n \in S
  BY <1>9, <1>10, UpTo
<1> QED
  BY <1>6, <1>11 DEF S, Looped

\* The table that gets number id above tables that take s numbers each.
InnerRoot(s, id) ==
    [id |-> id, last |-> FALSE, entry |-> [i \in Indices |-> id + 1 + i * s]]

\* The level above: what _create_table does with create for the tables below.
Inner(create) == [id \in Nat |-> InnerTable(create_entries(create, id), id)]

\* What it makes at number id.
MadeAbove(create, s, id) ==
    /\ Inner(create)[id].next = id + (1 + Entries * s)
    /\ Inner(create)[id].tables = Below(create, s, id, Entries) \cup {InnerRoot(s, id)}
    /\ Inner(create)[id] = [next |-> id + (1 + Entries * s),
                            tables |-> Below(create, s, id, Entries) \cup {InnerRoot(s, id)}]

\* _create_table at a level above one that is numbered.
LEMMA InnerFacts ==
    ASSUME NEW create, NEW s, Numbered(create, s), NEW id \in Nat
    PROVE  MadeAbove(create, s, id)
<1>1. PICK loop : loop = create_entries(create, id)
  OBVIOUS
<1>2. Looped(create, s, id, loop)
  BY <1>1, LoopFacts
<1>3. Entries \in Nat \ {0} /\ s \in Nat
  BY PageTablesAssumption DEF Numbered
<1>4. Entries * s \in Nat
  BY <1>3
<1>5. Entries \in 0..Entries /\ \A i \in Indices : i \in 0..Entries
  BY <1>3 DEF Indices
<1>6. /\ loop[Entries].next = id + (1 + Entries * s)
      /\ loop[Entries].tables = Below(create, s, id, Entries)
  BY <1>2, <1>4, <1>5 DEF Looped
<1>7. [i \in Indices |-> loop[i].next] = [i \in Indices |-> id + 1 + i * s]
  BY <1>2, <1>5 DEF Looped
<1>8. Inner(create)[id] = InnerTable(loop, id)
  BY <1>1 DEF Inner
<1>9. Inner(create)[id] = [next |-> id + (1 + Entries * s),
                           tables |-> Below(create, s, id, Entries) \cup {InnerRoot(s, id)}]
  BY <1>6, <1>7, <1>8 DEF InnerTable, InnerRoot
<1> QED
  BY <1>9 DEF MadeAbove

\* The tables below two entries have numbers of their own.
LEMMA BelowApart ==
    ASSUME NEW create, NEW s, Numbered(create, s), NEW id \in Nat,
           NEW t \in Below(create, s, id, Entries)
    PROVE  \E i \in Indices : /\ id + 1 + i * s \in Nat
                              /\ t \in create[id + 1 + i * s].tables
                              /\ t.id \in (id + 1 + i * s)..(id + i * s + s)
                              /\ t.id \in (id + 1)..(id + Entries * s)
                              /\ t \in Tables
<1>0. Entries \in Nat \ {0} /\ s \in Nat \ {0}
  BY PageTablesAssumption DEF Numbered
<1>1. PICK i \in 0..(Entries - 1) : t \in create[id + 1 + i * s].tables
  BY DEF Below
<1>2. i * s \in Nat /\ i * s + s <= Entries * s /\ Entries * s \in Nat
  BY <1>0, <1>1, Parts
<1>3. id + 1 + i * s \in Nat
  BY <1>2
<1>4. t.id \in (id + 1 + i * s)..(id + 1 + i * s + s - 1)
  BY <1>1, <1>3 DEF Numbered
<1>5. t \in Tables
  BY <1>1, <1>3 DEF Numbered, Made
<1>6. t.id \in (id + 1 + i * s)..(id + i * s + s)
  BY <1>0, <1>2, <1>4
<1>7. t.id \in (id + 1)..(id + Entries * s)
  BY <1>0, <1>2, <1>6
<1>8. i \in Indices
  BY DEF Indices
<1> QED
  BY <1>1, <1>3, <1>5, <1>6, <1>7, <1>8

\* A number below a table belongs to one table.
LEMMA BelowOnce ==
    ASSUME NEW create, NEW s, Numbered(create, s), NEW id \in Nat,
           NEW t \in Below(create, s, id, Entries), NEW u \in Below(create, s, id, Entries),
           t.id = u.id
    PROVE  t = u
<1>0. Entries \in Nat \ {0} /\ s \in Nat \ {0}
  BY PageTablesAssumption DEF Numbered
<1>1. PICK i \in Indices : /\ id + 1 + i * s \in Nat
                           /\ t \in create[id + 1 + i * s].tables
                           /\ t.id \in (id + 1 + i * s)..(id + i * s + s)
  BY BelowApart
<1>2. PICK j \in Indices : /\ id + 1 + j * s \in Nat
                           /\ u \in create[id + 1 + j * s].tables
                           /\ u.id \in (id + 1 + j * s)..(id + j * s + s)
  BY BelowApart
<1>3. i \in Nat /\ j \in Nat
  BY <1>0 DEF Indices
<1>4. i * s \in Nat /\ j * s \in Nat
      /\ (i < j => i * s + s <= j * s) /\ (j < i => j * s + s <= i * s)
  BY <1>0, <1>3, Parts
<1>5. i = j
  <2>1. t.id \in Nat /\ id + 1 + i * s <= t.id /\ t.id <= id + i * s + s
        /\ id + 1 + j * s <= t.id /\ t.id <= id + j * s + s
    BY <1>0, <1>1, <1>2, <1>4
  <2>2. ~(i < j)
    BY <1>0, <1>4, <2>1
  <2>3. ~(j < i)
    BY <1>0, <1>4, <2>1
  <2> QED
    BY <1>3, <2>2, <2>3
<1> QED
  BY <1>1, <1>2, <1>5 DEF Numbered

\* A level above one that is numbered is numbered.
LEMMA InnerNumbered ==
    ASSUME NEW create, NEW s, Numbered(create, s)
    PROVE  Numbered(Inner(create), 1 + Entries * s)
<1> DEFINE d == 1 + Entries * s
<1>0. Entries \in Nat \ {0} /\ s \in Nat \ {0}
  BY PageTablesAssumption DEF Numbered
<1>1. Entries * s \in Nat /\ d \in Nat \ {0} /\ d = 1 + Entries * s
  BY <1>0
<1>2. ASSUME NEW j \in Nat
      PROVE  /\ Inner(create)[j].next = j + d
             /\ Inner(create)[j].tables = Below(create, s, j, Entries) \cup {InnerRoot(s, j)}
             /\ Inner(create)[j] = [next |-> j + d,
                                    tables |-> Below(create, s, j, Entries) \cup {InnerRoot(s, j)}]
  BY InnerFacts DEF MadeAbove
<1>3. ASSUME NEW j \in Nat
      PROVE  InnerRoot(s, j) \in Tables /\ InnerRoot(s, j).id = j
  <2>1. ASSUME NEW i \in Indices PROVE j + 1 + i * s \in Int
    <3>1. i \in Nat
      BY <1>0 DEF Indices
    <3>2. i * s \in Nat
      BY <1>0, <3>1
    <3> QED
      BY <3>2
  <2>2. [i \in Indices |-> j + 1 + i * s] \in [Indices -> Int]
    BY <2>1
  <2> QED
    BY <2>2 DEF InnerRoot, Tables
<1> HIDE DEF d
<1>4. Inner(create) \in [Nat -> Made]
  <2>1. ASSUME NEW j \in Nat PROVE Inner(create)[j] \in Made
    <3>1. Below(create, s, j, Entries) \cup {InnerRoot(s, j)} \in SUBSET Tables
      BY <1>3, BelowApart
    <3>2. j + d \in Nat
      BY <1>1
    <3>3. PICK tb : tb = Below(create, s, j, Entries) \cup {InnerRoot(s, j)}
      OBVIOUS
    <3>4. [next |-> j + d, tables |-> tb] \in Made
      BY <3>1, <3>2, <3>3 DEF Made
    <3> QED
      BY <1>2, <3>3, <3>4
  <2> QED
    BY <2>1 DEF Inner
<1>5. ASSUME NEW j \in Nat, NEW t \in Inner(create)[j].tables
      PROVE  t.id \in j..(j + d - 1)
  <2>1. CASE t = InnerRoot(s, j)
    BY <1>1, <1>3, <2>1
  <2>2. CASE t \in Below(create, s, j, Entries)
    <3>1. t.id \in (j + 1)..(j + Entries * s)
      BY <2>2, BelowApart
    <3> QED
      BY <1>1, <3>1
  <2> QED
    BY <1>2, <2>1, <2>2
<1>6. ASSUME NEW j \in Nat, NEW t \in Inner(create)[j].tables, NEW u \in Inner(create)[j].tables,
             t.id = u.id
      PROVE  t = u
  <2>1. ASSUME NEW v \in Below(create, s, j, Entries) PROVE v.id # j
    <3>1. v.id \in (j + 1)..(j + Entries * s)
      BY BelowApart
    <3> QED
      BY <1>1, <3>1
  <2>2. CASE t = InnerRoot(s, j) \/ u = InnerRoot(s, j)
    <3>1. InnerRoot(s, j).id = j
      BY <1>3
    <3>2. t.id = j /\ u.id = j
      BY <1>6, <2>2, <3>1
    <3>3. t \notin Below(create, s, j, Entries) /\ u \notin Below(create, s, j, Entries)
      BY <2>1, <3>2
    <3>4. Inner(create)[j].tables = Below(create, s, j, Entries) \cup {InnerRoot(s, j)}
      BY <1>2
    <3> QED
      BY <1>6, <3>3, <3>4
  <2>3. CASE t \in Below(create, s, j, Entries) /\ u \in Below(create, s, j, Entries)
    BY <1>6, <2>3, BelowOnce
  <2> QED
    BY <1>2, <2>2, <2>3
<1>7. ASSUME NEW j \in Nat PROVE \E t \in Inner(create)[j].tables : t.id = j
  BY <1>2, <1>3
<1>8. Numbered(Inner(create), d)
  BY <1>1, <1>2, <1>4, <1>5, <1>6, <1>7 DEF Numbered
<1> QED
  BY <1>8 DEF d

\* So is the last level.
LEMMA LastNumbered == Numbered([id \in Nat |-> LastTable(id)], 1)
<1> DEFINE lt == [id \in Nat |-> LastTable(id)]
<1>1. ASSUME NEW j \in Nat
      PROVE  /\ lt[j] \in Made
             /\ lt[j].next = j + 1
             /\ \E t \in Tables : t.id = j /\ lt[j].tables = {t}
  <2> DEFINE t == [id |-> j, last |-> TRUE, entry |-> [i \in Indices |-> INVALID_FRAME_NUMBER]]
  <2>1. INVALID_FRAME_NUMBER \in Int
    BY DEF INVALID_FRAME_NUMBER
  <2>2. t \in Tables /\ t.id = j
    BY <2>1 DEF Tables
  <2>3. lt[j] = [next |-> j + 1, tables |-> {t}]
    BY DEF LastTable
  <2> HIDE DEF t, lt
  <2>4. lt[j].next = j + 1 /\ lt[j].tables = {t}
    BY <2>3
  <2>5. lt[j] \in Made
    BY <2>2, <2>3 DEF Made
  <2> QED
    BY <2>2, <2>4, <2>5
<1>2. lt \in [Nat -> Made]
  BY <1>1
<1> HIDE DEF lt
<1>3. Numbered(lt, 1)
  <2>1. ASSUME NEW j \in Nat
        PROVE  /\ lt[j].next = j + 1
               /\ \A t \in lt[j].tables : t.id \in j..(j + 1 - 1)
               /\ \A t, u \in lt[j].tables : t.id = u.id => t = u
               /\ \E t \in lt[j].tables : t.id = j
    BY <1>1
  <2> QED
    BY <1>2, <2>1 DEF Numbered
<1> QED
  BY <1>3 DEF lt

\* The ways to number a level.
Numberings == {c \in [Nat -> Made] : \E s \in Nat \ {0} : Numbered(c, s)}

\* The levels are made from the last one upwards.
LEMMA CreateTable ==
    /\ create_table[Levels - 1] = [id \in Nat |-> LastTable(id)]
    /\ \A level \in 0..(Levels - 2) : create_table[level] = Inner(create_table[level + 1])
    /\ \A level \in 0..(Levels - 1) : create_table[level] \in Numberings
<1> DEFINE N == Levels - 1
           last == [id \in Nat |-> LastTable(id)]
           V == [n \in 0..N |-> Numberings]
           g == [n \in 1..N |-> [c \in Numberings |-> Inner(c)]]
           F(f) == [level \in 0..(Levels - 1) |->
                        IF IsLast(level) THEN [id \in Nat |-> LastTable(id)]
                        ELSE [id \in Nat |-> InnerTable(create_entries(f[level + 1], id), id)]]
<1>0. N \in Nat /\ N = Levels - 1 /\ Levels \in Nat
  BY PageTablesAssumption
<1>1. last \in Numberings
  BY LastNumbered DEF Numberings, Numbered
<1>2. ASSUME NEW c \in Numberings PROVE Inner(c) \in Numberings
  <2>1. PICK s \in Nat \ {0} : Numbered(c, s)
    BY DEF Numberings
  <2>2. Numbered(Inner(c), 1 + Entries * s)
    BY <2>1, InnerNumbered
  <2> QED
    BY <2>2 DEF Numberings, Numbered
<1> HIDE DEF N, last
<1>3. PICK f : Solves(f, N, last, g) /\ Within(f, N, V)
  <2>1. last \in V[0]
    BY <1>0, <1>1
  <2>2. ASSUME NEW n \in 1..N, NEW c \in V[n - 1] PROVE g[n][c] \in V[n]
    <3>1. c \in Numberings
      BY <1>0
    <3> QED
      BY <1>0, <1>2, <3>1
  <2> HIDE DEF V, g
  <2>3. Leads(N, V, last, g)
    BY <2>1, <2>2 DEF Leads
  <2> QED
    BY <1>0, <2>3, Recursion
<1>4. /\ f[0] = last
      /\ \A n \in 0..N : f[n] \in Numberings
      /\ \A n \in 1..N : f[n] = Inner(f[n - 1])
  <2>1. f[0] = last /\ \A n \in 0..N : f[n] \in Numberings
    BY <1>3 DEF Solves, Within
  <2>2. ASSUME NEW n \in 1..N PROVE f[n] = Inner(f[n - 1])
    <3>1. n - 1 \in 0..N
      BY <1>0
    <3>2. f[n] = g[n][f[n - 1]]
      BY <1>3 DEF Solves
    <3>3. f[n - 1] \in Numberings
      BY <2>1, <3>1
    <3> QED
      BY <3>2, <3>3
  <2> QED
    BY <2>1, <2>2
<1> HIDE DEF V, g
<1> DEFINE h == [level \in 0..(Levels - 1) |-> f[N - level]]
<1>5. h = F(h)
  <2>1. ASSUME NEW level \in 0..(Levels - 1) PROVE h[level] = F(h)[level]
    <3>1. CASE IsLast(level)
      <4>1. N - level = 0
        BY <1>0, <3>1 DEF IsLast
      <4> QED
        BY <1>4, <3>1, <4>1 DEF last
    <3>2. CASE ~IsLast(level)
      <4>1. N - level \in 1..N /\ level + 1 \in 0..(Levels - 1) /\ N - level - 1 = N - (level + 1)
        BY <1>0, <3>2 DEF IsLast
      <4>2. h[level] = f[N - level] /\ h[level + 1] = f[N - level - 1]
        BY <4>1
      <4>3. F(h)[level] = Inner(h[level + 1])
        BY <3>2 DEF Inner
      <4> HIDE DEF h, F
      <4> QED
        BY <1>4, <4>1, <4>2, <4>3
    <3> QED
      BY <3>1, <3>2
  <2> QED
    BY <2>1
<1>6. create_table = F(create_table)
  <2> HIDE DEF h
  <2> DEFINE w == CHOOSE k : k = F(k)
  <2>1. create_table = w
    BY DEF create_table
  <2>2. \E k : k = F(k)
    BY <1>5
  <2>3. w = F(w)
    <3> HIDE DEF F
    <3> QED
      BY <2>2
  <2> HIDE DEF w
  <2> QED
    BY <2>1, <2>3
<1> HIDE DEF h
<1>7. PICK w : w = create_table
  OBVIOUS
<1>8. w = F(w)
  BY <1>6, <1>7
<1>9. w[Levels - 1] = last
  <2>1. Levels - 1 \in 0..(Levels - 1) /\ IsLast(Levels - 1)
    BY <1>0 DEF IsLast
  <2> QED
    BY <1>8, <2>1 DEF last
<1>10. ASSUME NEW level \in 0..(Levels - 2) PROVE w[level] = Inner(w[level + 1])
  <2>1. level \in 0..(Levels - 1) /\ ~IsLast(level)
    BY <1>0 DEF IsLast
  <2>2. F(w)[level] = Inner(w[level + 1])
    BY <2>1 DEF Inner
  <2> HIDE DEF F
  <2> QED
    BY <1>8, <2>2
<1> HIDE DEF F
<1> DEFINE S == {n \in 0..N : w[N - n] \in Numberings}
<1>11. 0 \in S
  <2>1. N - 0 = Levels - 1
    BY <1>0
  <2> QED
    BY <1>0, <1>1, <1>9, <2>1
<1>12. ASSUME NEW n \in 1..N, n - 1 \in S PROVE n \in S
  <2>1. N - n \in 0..(Levels - 2) /\ N - (n - 1) = N - n + 1
    BY <1>0
  <2> QED
    BY <1>0, <1>2, <1>10, <1>12, <2>1
<1> HIDE DEF S
<1>13. \A n \in 0..N : n \in S
  BY <1>0, <1>11, <1>12, UpTo
<1>14. ASSUME NEW level \in 0..(Levels - 1) PROVE w[level] \in Numberings
  <2>1. N - level \in 0..N /\ N - (N - level) = level
    BY <1>0
  <2> QED
    BY <1>13, <2>1 DEF S
<1> QED
  BY <1>7, <1>9, <1>10, <1>14 DEF last

\* The numbers a table of a level and the tables below it take.
Span(level) == create_table[level][0].next

\* Every level is numbered, and a table takes one number and those of its entries.
LEMMA SpanFacts ==
    /\ \A level \in 0..(Levels - 1) : Numbered(create_table[level], Span(level))
    /\ \A level \in 0..(Levels - 2) : Span(level) = 1 + Entries * Span(level + 1)
<1>1. ASSUME NEW c \in Numberings PROVE Numbered(c, c[0].next)
  <2>1. PICK s \in Nat \ {0} : Numbered(c, s)
    BY DEF Numberings
  <2>2. c[0].next = 0 + s
    BY <2>1 DEF Numbered
  <2> QED
    BY <2>1, <2>2
<1>2. ASSUME NEW level \in 0..(Levels - 1) PROVE Numbered(create_table[level], Span(level))
  BY <1>1, CreateTable DEF Span
<1>3. ASSUME NEW level \in 0..(Levels - 2) PROVE Span(level) = 1 + Entries * Span(level + 1)
  <2>1. level + 1 \in 0..(Levels - 1) /\ Entries \in Nat
    BY PageTablesAssumption
  <2>2. Numbered(create_table[level + 1], Span(level + 1))
    BY <1>2, <2>1
  <2>3. Span(level) = Inner(create_table[level + 1])[0].next
    BY CreateTable DEF Span
  <2>4. Inner(create_table[level + 1])[0].next = 0 + (1 + Entries * Span(level + 1))
    <3>1. PICK c, s : c = create_table[level + 1] /\ s = Span(level + 1)
      OBVIOUS
    <3>2. Numbered(c, s)
      BY <2>2, <3>1
    <3>3. MadeAbove(c, s, 0)
      BY <3>2, InnerFacts
    <3> QED
      BY <3>1, <3>3 DEF MadeAbove
  <2>5. Span(level + 1) \in Nat
    BY <2>2 DEF Numbered
  <2>6. Entries * Span(level + 1) \in Nat
    BY <2>1, <2>5
  <2> QED
    BY <2>3, <2>4, <2>6
<1> QED
  BY <1>2, <1>3

\* The table with number id is of this level of the tables of the process.
At(level, id) ==
    id \in Nat \ {0} /\ create_table[level][id].tables \subseteq init_page_table

\* The entries of table t are those of a table of this level with number id.
Linked(level, id, t) ==
    /\ t.id = id /\ t.last = IsLast(level)
    /\ ~IsLast(level) =>
        \A i \in Indices : /\ t.entry[i] = id + 1 + i * Span(level + 1)
                           /\ At(level + 1, t.entry[i])

\* find_table_by_id finds one table, and its entries lead to tables of the next level.
LEMMA FoundTable ==
    ASSUME NEW level \in 0..(Levels - 1), NEW id, At(level, id)
    PROVE  \E t \in Tables : find_table_by_id(init_page_table, id) = {t} /\ Linked(level, id, t)
<1>0. Levels \in Nat \ {0} /\ Entries \in Nat \ {0} /\ id \in Nat \ {0}
  BY PageTablesAssumption DEF At
<1>1. /\ \A t, u \in init_page_table : t.id = u.id => t = u
      /\ init_page_table \subseteq Tables
  <2>1. 0 \in 0..(Levels - 1)
    BY <1>0
  <2>2. Numbered(create_table[0], Span(0))
    BY <2>1, SpanFacts
  <2> QED
    BY <2>2 DEF Numbered, Made, init_page_table
<1>2. ASSUME NEW t \in create_table[level][id].tables, t.id = id
      PROVE  find_table_by_id(init_page_table, id) = {t} /\ t \in Tables
  BY <1>1, <1>2 DEF find_table_by_id, At
<1>3. CASE IsLast(level)
  <2> DEFINE t == [id |-> id, last |-> TRUE, entry |-> [i \in Indices |-> INVALID_FRAME_NUMBER]]
  <2>1. create_table[level] = [j \in Nat |-> LastTable(j)]
    BY <1>3, CreateTable DEF IsLast
  <2>2. create_table[level][id] = LastTable(id)
    BY <1>0, <2>1
  <2>3. create_table[level][id].tables = {t}
    BY <2>2 DEF LastTable
  <2>4. t.id = id /\ t.last = TRUE
    OBVIOUS
  <2> HIDE DEF t
  <2>5. Linked(level, id, t)
    BY <1>3, <2>4 DEF Linked
  <2> QED
    BY <1>2, <2>3, <2>4, <2>5
<1>4. CASE ~IsLast(level)
  <2>1. level \in 0..(Levels - 2) /\ level + 1 \in 0..(Levels - 1)
    BY <1>0, <1>4 DEF IsLast
  <2>2. PICK c, s : c = create_table[level + 1] /\ s = Span(level + 1)
    OBVIOUS
  <2>3. Numbered(c, s)
    BY <2>1, <2>2, SpanFacts
  <2>4. create_table[level] = Inner(c)
    BY <2>1, <2>2, CreateTable
  <2>5. create_table[level][id].tables = Below(c, s, id, Entries) \cup {InnerRoot(s, id)}
    <3>1. MadeAbove(c, s, id)
      BY <1>0, <2>3, InnerFacts
    <3> QED
      BY <2>4, <3>1 DEF MadeAbove
  <2>6. PICK t : t = InnerRoot(s, id)
    OBVIOUS
  <2>7. t.id = id /\ t.last = FALSE /\ \A i \in Indices : t.entry[i] = id + 1 + i * s
    BY <2>6 DEF InnerRoot
  <2>8. ASSUME NEW i \in Indices PROVE At(level + 1, id + 1 + i * s)
    <3>1. i \in Nat /\ s \in Nat /\ i \in 0..(Entries - 1)
      BY <1>0, <2>3 DEF Indices, Numbered
    <3>2. i * s \in Nat
      BY <3>1
    <3>3. id + 1 + i * s \in Nat \ {0}
      BY <1>0, <3>2
    <3>4. c[id + 1 + i * s].tables \subseteq Below(c, s, id, Entries)
      BY <3>1 DEF Below
    <3> QED
      BY <2>2, <2>5, <3>3, <3>4 DEF At
  <2>9. Linked(level, id, t)
    <3>1. ASSUME NEW i \in Indices
          PROVE  t.entry[i] = id + 1 + i * Span(level + 1) /\ At(level + 1, t.entry[i])
      BY <2>2, <2>7, <2>8
    <3>2. t.last = IsLast(level)
      BY <1>4, <2>7 DEF IsLast
    <3>3. t.id = id
      BY <2>7
    <3> QED
      BY <3>1, <3>2, <3>3 DEF Linked
  <2> QED
    BY <1>2, <2>5, <2>6, <2>7, <2>9
<1> QED
  BY <1>3, <1>4

-----------------------------------------------------------------------------
(* The order of the tables *)

\* Quotient and remainder.
LEMMA Division ==
    ASSUME NEW x \in Nat, NEW d \in Nat \ {0}
    PROVE  \E q \in Nat, r \in 0..(d - 1) : q = x \div d /\ r = x % d /\ x = q * d + r
<1>1. x % d = x - d * (x \div d)
  OBVIOUS
<1>2. x \div d \in Nat /\ x % d \in 0..(d - 1)
  OBVIOUS
<1>3. PICK q \in Nat, r \in 0..(d - 1) : q = x \div d /\ r = x % d
  BY <1>2
<1>4. r = x - d * q
  BY <1>1, <1>3
<1>5. q * d = d * q /\ q * d \in Nat
  OBVIOUS
<1>6. x = q * d + r
  BY <1>4, <1>5
<1> QED
  BY <1>3, <1>6

\* There is one quotient and one remainder.
LEMMA DivisionUnique ==
    ASSUME NEW q \in Nat, NEW d \in Nat \ {0}, NEW r \in 0..(d - 1)
    PROVE  (q * d + r) \div d = q /\ (q * d + r) % d = r
<1> DEFINE x == q * d + r
<1>1. q * d \in Nat /\ x \in Nat
  OBVIOUS
<1> HIDE DEF x
<1>2. PICK p \in Nat, e \in 0..(d - 1) : p = x \div d /\ e = x % d /\ x = p * d + e
  BY <1>1, Division
<1>3. x = p * d + e /\ x = q * d + r
  BY <1>2 DEF x
<1>4. p = q
  <2>1. p * d \in Nat
    OBVIOUS
  <2>2. ~(p < q)
    <3>1. p < q => p * d + d <= q * d
      BY Parts
    <3>2. x < p * d + d /\ x >= q * d
      BY <1>1, <1>3, <2>1
    <3> QED
      BY <1>1, <2>1, <3>1, <3>2
  <2>3. ~(q < p)
    <3>1. q < p => q * d + d <= p * d
      BY Parts
    <3>2. x < q * d + d /\ x >= p * d
      BY <1>1, <1>3, <2>1
    <3> QED
      BY <1>1, <2>1, <3>1, <3>2
  <2> QED
    BY <2>2, <2>3
<1>5. e = r
  <2>1. e \in Nat /\ r \in Nat /\ q * d + e = q * d + r
    BY <1>3, <1>4
  <2> QED
    BY <1>1, <2>1
<1> QED
  BY <1>2, <1>4, <1>5, Zenon DEF x

\* A quotient divided again.
LEMMA DivisionTwice ==
    ASSUME NEW x \in Nat, NEW a \in Nat \ {0}, NEW b \in Nat \ {0}
    PROVE  x \div (b * a) = (x \div a) \div b
<1>1. PICK y \in Nat, s \in 0..(a - 1) : y = x \div a /\ x = y * a + s
  BY Division
<1>2. PICK q \in Nat, r \in 0..(b - 1) : q = y \div b /\ y = q * b + r
  BY Division
<1>3. b * a \in Nat \ {0} /\ r * a \in Nat /\ r \in Nat
  OBVIOUS
<1>4. r * a + a <= b * a
  BY <1>3, Parts
<1>5. r * a + s \in 0..(b * a - 1)
  BY <1>3, <1>4
<1>6. x = q * (b * a) + (r * a + s)
  <2>1. y * a = (q * b) * a + r * a
    BY <1>2, <1>3
  <2>2. (q * b) * a = q * (b * a)
    OBVIOUS
  <2> QED
    BY <1>1, <2>1, <2>2
<1>7. x \div (b * a) = q
  BY <1>3, <1>5, <1>6, DivisionUnique
<1> QED
  BY <1>1, <1>2, <1>7

\* A number below b times d.
LEMMA DivisionBelow ==
    ASSUME NEW x \in Nat, NEW b \in Nat, NEW d \in Nat \ {0}, x < b * d
    PROVE  x \div d \in 0..(b - 1)
<1>1. PICK q \in Nat, r \in 0..(d - 1) : q = x \div d /\ x = q * d + r
  BY Division
<1>2. ~(b <= q)
  <2>1. b <= q => b * d <= q * d
    BY Parts
  <2>2. q * d \in Nat /\ b * d \in Nat
    OBVIOUS
  <2> QED
    BY <1>1, <2>1, <2>2
<1> QED
  BY <1>1, <1>2

\* The tables of a level in the order of their pages: every one takes its numbers
\* after the one before.
Spread(level, ids) ==
    /\ ids \in [0..(pow[level] - 1) -> Nat]
    /\ \A n \in 0..(pow[level] - 1) : At(level, ids[n])
    /\ \A n, k \in 0..(pow[level] - 1) : n < k => ids[n] + Span(level) <= ids[k]

\* The level below the tables ids.
NextLevel(level, ids) ==
    [n \in 0..(pow[level] - 1) |->
        LET id == ids[n \div Entries]
            t == CHOOSE t \in find_table_by_id(init_page_table, id) : TRUE
        IN  t.entry[n % Entries]]

\* Table n of a level is reached from an entry of the level above.
Reached(level, ids, n) ==
    \E q \in 0..(pow[level - 1] - 1), r \in Indices :
        /\ q = n \div Entries /\ r = n % Entries /\ n = q * Entries + r
        /\ NextLevel(level, ids)[n] = ids[q] + 1 + r * Span(level)
        /\ At(level, ids[q] + 1 + r * Span(level))

\* Every table of a level is reached from an entry of the level above.
LEMMA LevelEntry ==
    ASSUME NEW level \in 1..(Levels - 1), NEW ids, Spread(level - 1, ids),
           NEW n \in 0..(pow[level] - 1)
    PROVE  Reached(level, ids, n)
<1>0. /\ Entries \in Nat \ {0} /\ n \in Nat /\ Levels \in Nat
      /\ level - 1 \in 0..(Levels - 1) /\ level \in 1..Levels /\ level - 1 \in 0..Levels
  BY PageTablesAssumption
<1>1. pow[level] = Entries * pow[level - 1] /\ pow[level - 1] \in Nat \ {0} /\ pow[level] \in Nat
  BY <1>0, PowFacts
<1>2. n < pow[level - 1] * Entries
  BY <1>0, <1>1
<1>3. n \div Entries \in 0..(pow[level - 1] - 1)
  BY <1>0, <1>1, <1>2, DivisionBelow
<1>4. PICK q \in Nat, r \in 0..(Entries - 1) :
         q = n \div Entries /\ r = n % Entries /\ n = q * Entries + r
  BY <1>0, Division
<1>5. q \in 0..(pow[level - 1] - 1) /\ r \in Indices
  BY <1>3, <1>4 DEF Indices
<1>6. At(level - 1, ids[q])
  BY <1>5 DEF Spread
<1>7. PICK t \in Tables : /\ find_table_by_id(init_page_table, ids[q]) = {t}
                          /\ Linked(level - 1, ids[q], t)
  BY <1>0, <1>6, FoundTable
<1>8. NextLevel(level, ids)[n] = t.entry[r]
  <2>1. t = CHOOSE u \in find_table_by_id(init_page_table, ids[q]) : TRUE
    BY <1>7
  <2> QED
    BY <1>4, <2>1 DEF NextLevel
<1>9. ~IsLast(level - 1) /\ level - 1 + 1 = level
  BY <1>0 DEF IsLast
<1>10. t.entry[r] = ids[q] + 1 + r * Span(level) /\ At(level, t.entry[r])
  BY <1>5, <1>7, <1>9 DEF Linked
<1> QED
  BY <1>4, <1>5, <1>8, <1>10 DEF Reached

\* The level below tables in order is in order.
LEMMA NextSpread ==
    ASSUME NEW level \in 1..(Levels - 1), NEW ids, Spread(level - 1, ids)
    PROVE  Spread(level, NextLevel(level, ids))
<1> DEFINE down == NextLevel(level, ids)
<1>0. /\ Entries \in Nat \ {0} /\ Levels \in Nat
      /\ level - 1 \in 0..(Levels - 2) /\ level \in 0..(Levels - 1)
      /\ level \in 0..Levels /\ level - 1 \in 0..Levels /\ level - 1 + 1 = level
  BY PageTablesAssumption
<1>1. pow[level] \in Nat /\ pow[level - 1] \in Nat
  BY <1>0, PowFacts
<1>2. PICK s, d : s = Span(level) /\ d = Span(level - 1)
  OBVIOUS
<1>3. s \in Nat \ {0} /\ Entries * s \in Nat /\ d = 1 + Entries * s
  <2>1. Numbered(create_table[level], Span(level))
    BY <1>0, SpanFacts
  <2>2. s \in Nat \ {0}
    BY <1>2, <2>1 DEF Numbered
  <2>3. Entries * s \in Nat
    BY <1>0, <2>2
  <2>4. Span(level - 1) = 1 + Entries * Span(level - 1 + 1)
    BY <1>0, SpanFacts
  <2> QED
    BY <1>0, <1>2, <2>2, <2>3, <2>4
<1>4. ASSUME NEW n \in 0..(pow[level] - 1)
      PROVE  down[n] \in Nat /\ At(level, down[n])
  BY LevelEntry DEF At, Reached
<1>5. down \in [0..(pow[level] - 1) -> Nat]
  BY <1>4 DEF NextLevel
<1>6. ASSUME NEW n \in 0..(pow[level] - 1)
      PROVE  \E q \in 0..(pow[level - 1] - 1), r \in Indices :
                n = q * Entries + r /\ down[n] = ids[q] + 1 + r * s
  <2>1. PICK q \in 0..(pow[level - 1] - 1), r \in Indices :
           n = q * Entries + r /\ down[n] = ids[q] + 1 + r * Span(level)
    <3>1. Reached(level, ids, n)
      BY LevelEntry
    <3> QED
      BY <3>1 DEF Reached
  <2> QED
    BY <1>2, <2>1
<1> HIDE DEF down
<1>7. ASSUME NEW n \in 0..(pow[level] - 1), NEW k \in 0..(pow[level] - 1), n < k
      PROVE  down[n] + s <= down[k]
  <2>1. PICK q \in 0..(pow[level - 1] - 1), r \in Indices :
           n = q * Entries + r /\ down[n] = ids[q] + 1 + r * s
    BY <1>6
  <2>2. PICK p \in 0..(pow[level - 1] - 1), o \in Indices :
           k = p * Entries + o /\ down[k] = ids[p] + 1 + o * s
    BY <1>6
  <2>3. r \in Nat /\ o \in Nat /\ r < Entries /\ o < Entries /\ q \in Nat /\ p \in Nat
    BY <1>0, <1>1 DEF Indices
  <2>4. /\ r * s \in Nat /\ o * s \in Nat /\ r * s + s <= Entries * s
        /\ r < o => r * s + s <= o * s
    BY <1>0, <1>3, <2>3, Parts
  <2>5. ids[q] \in Nat /\ ids[p] \in Nat
    BY DEF Spread
  <2>6. q < p => ids[q] + (1 + Entries * s) <= ids[p]
    BY <1>2, <1>3 DEF Spread
  <2>7. ~(p < q)
    <3>1. p < q => p * Entries + Entries <= q * Entries
      BY <1>0, <2>3, Parts
    <3>2. p * Entries \in Nat /\ q * Entries \in Nat
      BY <1>0, <2>3
    <3>3. k < p * Entries + Entries /\ n >= q * Entries
      BY <1>0, <2>1, <2>2, <2>3, <3>2
    <3>4. k \in Nat /\ n \in Nat
      BY <1>1
    <3> QED
      BY <1>0, <1>7, <3>1, <3>2, <3>3, <3>4
  <2>8. CASE q < p
    BY <1>3, <2>1, <2>2, <2>4, <2>5, <2>6, <2>8
  <2>9. CASE q = p
    <3>1. r < o
      <4>1. p * Entries \in Nat
        BY <1>0, <2>3
      <4>2. k = p * Entries + o /\ n = p * Entries + r
        BY <2>1, <2>2, <2>9
      <4> QED
        BY <1>7, <2>3, <4>1, <4>2
    <3> QED
      BY <1>3, <2>1, <2>2, <2>4, <2>5, <2>9, <3>1
  <2> QED
    BY <2>3, <2>7, <2>8, <2>9
<1>8. Spread(level, down)
  BY <1>2, <1>4, <1>5, <1>7 DEF Spread
<1> QED
  BY <1>8 DEF down

\* The tables of every level are collected in the order of their pages.
LEMMA CollectTables ==
    /\ collect_tables[0] = [n \in {0} |-> 1]
    /\ \A level \in 1..(Levels - 1) :
            collect_tables[level] = NextLevel(level, collect_tables[level - 1])
    /\ \A level \in 0..(Levels - 1) : Spread(level, collect_tables[level])
<1> DEFINE N == Levels - 1
           root == [n \in {0} |-> 1]
           V == [level \in 0..N |-> {ids \in [0..(pow[level] - 1) -> Nat] : Spread(level, ids)}]
           g == [level \in 1..N |-> [ids \in V[level - 1] |-> NextLevel(level, ids)]]
           F(f) == [level \in 0..(Levels - 1) |->
                        IF level = 0 THEN [n \in {0} |-> 1]
                        ELSE [n \in 0..(pow[level] - 1) |->
                                LET id == f[level - 1][n \div Entries]
                                    t == CHOOSE t \in find_table_by_id(init_page_table, id) : TRUE
                                IN  t.entry[n % Entries]]]
<1>0. N \in Nat /\ N = Levels - 1 /\ Levels \in Nat \ {0}
  BY PageTablesAssumption
<1>1. Spread(0, root) /\ root \in [0..(pow[0] - 1) -> Nat]
  <2>1. 0..(pow[0] - 1) = {0}
    BY PowFacts
  <2>2. root \in [0..(pow[0] - 1) -> Nat] /\ root[0] = 1
    BY <2>1
  <2>3. At(0, 1)
    BY DEF At, init_page_table
  <2> HIDE DEF root
  <2>4. \A n, k \in 0..(pow[0] - 1) : ~(n < k)
    BY <2>1
  <2> QED
    BY <2>1, <2>2, <2>3, <2>4 DEF Spread
<1> HIDE DEF N, root
<1>2. \A level \in 0..N : \A ids : ids \in V[level] <=> Spread(level, ids)
  BY DEF Spread
<1>3. \A level \in 1..N : \A ids \in V[level - 1] : g[level][ids] = NextLevel(level, ids)
  OBVIOUS
<1> HIDE DEF V, g
<1>4. \A level \in 1..N : level \in 1..(Levels - 1) /\ level - 1 \in 0..N /\ level \in 0..N
  BY <1>0
<1>5. PICK f : Solves(f, N, root, g) /\ Within(f, N, V)
  <2>1. root \in V[0]
    BY <1>0, <1>1, <1>2
  <2>2. ASSUME NEW level \in 1..N, NEW ids \in V[level - 1] PROVE g[level][ids] \in V[level]
    <3>1. Spread(level - 1, ids)
      BY <1>2, <1>4
    <3>2. Spread(level, NextLevel(level, ids))
      BY <1>4, <3>1, NextSpread
    <3> QED
      BY <1>2, <1>3, <1>4, <3>2
  <2>3. Leads(N, V, root, g)
    BY <2>1, <2>2 DEF Leads
  <2> QED
    BY <1>0, <2>3, Recursion
<1>6. /\ f = [level \in 0..N |-> f[level]]
      /\ f[0] = root
      /\ \A level \in 1..N : f[level] = NextLevel(level, f[level - 1])
  <2>1. f[0] = root /\ f = [level \in 0..N |-> f[level]]
    BY <1>5 DEF Solves
  <2>2. ASSUME NEW level \in 1..N PROVE f[level] = NextLevel(level, f[level - 1])
    BY <1>3, <1>4, <1>5 DEF Solves, Within
  <2> QED
    BY <2>1, <2>2
<1>7. ASSUME NEW w
      PROVE  /\ DOMAIN F(w) = 0..N
             /\ F(w) = [level \in 0..N |-> F(w)[level]]
             /\ F(w)[0] = root
             /\ \A level \in 1..N : F(w)[level] = NextLevel(level, w[level - 1])
  <2>1. DOMAIN F(w) = 0..N /\ F(w) = [level \in 0..N |-> F(w)[level]]
    BY <1>0
  <2>2. F(w)[0] = root
    BY <1>0 DEF root
  <2>3. ASSUME NEW level \in 1..N PROVE F(w)[level] = NextLevel(level, w[level - 1])
    <3>1. level \in 0..(Levels - 1) /\ level # 0
      BY <1>0
    <3> QED
      BY <3>1 DEF NextLevel
  <2> QED
    BY <2>1, <2>2, <2>3
<1>8. f = F(f)
  <2> HIDE DEF F
  <2>1. ASSUME NEW level \in 0..N PROVE f[level] = F(f)[level]
    <3>1. CASE level = 0
      BY <1>6, <1>7, <3>1
    <3>2. CASE level # 0
      <4>1. level \in 1..N
        BY <1>0, <3>2
      <4> QED
        BY <1>6, <1>7, <4>1
    <3> QED
      BY <3>1, <3>2
  <2>2. [level \in 0..N |-> f[level]] = [level \in 0..N |-> F(f)[level]]
    BY <2>1
  <2> QED
    BY <1>6, <1>7, <2>2
<1>9. collect_tables = F(collect_tables)
  <2> DEFINE w == CHOOSE k : k = F(k)
  <2>1. collect_tables = w
    BY DEF collect_tables
  <2> HIDE DEF F
  <2>2. \E k : k = F(k)
    BY <1>8
  <2>3. w = F(w)
    BY <2>2
  <2> HIDE DEF w
  <2> QED
    BY <2>1, <2>3
<1> HIDE DEF F
<1>10. PICK w : w = collect_tables
  OBVIOUS
<1>11. /\ w[0] = root
       /\ \A level \in 1..N : w[level] = NextLevel(level, w[level - 1])
  BY <1>7, <1>9, <1>10
<1> DEFINE S == {level \in 0..N : Spread(level, w[level])}
<1>12. 0 \in S
  BY <1>0, <1>1, <1>11
<1>13. ASSUME NEW level \in 1..N, level - 1 \in S PROVE level \in S
  <2>1. Spread(level - 1, w[level - 1])
    BY <1>13
  <2>2. Spread(level, NextLevel(level, w[level - 1]))
    BY <1>4, <2>1, NextSpread
  <2> QED
    BY <1>4, <1>11, <2>2
<1> HIDE DEF S
<1>14. \A level \in 0..N : level \in S
  BY <1>0, <1>12, <1>13, UpTo
<1>15. \A level \in 0..(Levels - 1) : Spread(level, w[level])
  BY <1>0, <1>14 DEF S
<1> QED
  BY <1>0, <1>10, <1>11, <1>15 DEF root

-----------------------------------------------------------------------------
(* The walk *)

\* The place of a page among the tables of a level.
Place(page, level) == page \div pow[Levels - level]

\* The place of a page in a level is below its place in the next one, and inside the
\* level.
LEMMA Places ==
    ASSUME NEW page \in Nat, page < pow[Levels]
    PROVE  /\ Place(page, 0) = 0 /\ Place(page, Levels) = page
           /\ \A level \in 0..Levels : Place(page, level) \in 0..(pow[level] - 1)
           /\ \A level \in 1..Levels : Place(page, level) \div Entries = Place(page, level - 1)
<1>0. Levels \in Nat \ {0} /\ Entries \in Nat \ {0}
  BY PageTablesAssumption
<1>1. Place(page, 0) = 0
  <2>1. Levels - 0 = Levels /\ pow[Levels] \in Nat \ {0}
    BY <1>0, PowFacts
  <2>2. PICK d \in Nat \ {0} : d = pow[Levels]
    BY <2>1
  <2>3. 0 * d + page = page /\ page \in 0..(d - 1)
    BY <2>2
  <2>4. page \div d = 0
    BY <2>3, DivisionUnique
  <2> QED
    BY <2>1, <2>2, <2>4 DEF Place
<1>2. Place(page, Levels) = page
  <2>1. Levels - Levels = 0 /\ pow[0] = 1
    BY <1>0, PowFacts
  <2>2. page \div 1 = page
    OBVIOUS
  <2> QED
    BY <2>1, <2>2 DEF Place
<1>3. ASSUME NEW level \in 1..Levels
      PROVE  Place(page, level) \div Entries = Place(page, level - 1)
  <2>1. Levels - (level - 1) \in 1..Levels /\ Levels - (level - 1) - 1 = Levels - level
        /\ Levels - level \in 0..Levels
    BY <1>0
  <2>2. pow[Levels - (level - 1)] = Entries * pow[Levels - level]
        /\ pow[Levels - level] \in Nat \ {0}
    BY <2>1, PowFacts
  <2>3. page \div (Entries * pow[Levels - level]) = (page \div pow[Levels - level]) \div Entries
    BY <1>0, <2>2, DivisionTwice
  <2> QED
    BY <2>2, <2>3 DEF Place
<1>4. ASSUME NEW level \in 0..Levels PROVE Place(page, level) \in Nat
  <2>1. Levels - level \in 0..Levels
    BY <1>0
  <2>2. pow[Levels - level] \in Nat \ {0}
    BY <2>1, PowFacts
  <2> QED
    BY <2>2, Division DEF Place
<1> DEFINE S == {level \in 0..Levels : Place(page, level) \in 0..(pow[level] - 1)}
<1>5. 0 \in S
  BY <1>0, <1>1, PowFacts
<1>6. ASSUME NEW level \in 1..Levels, level - 1 \in S PROVE level \in S
  <2>1. level \in 0..Levels /\ level - 1 \in 0..Levels
    BY <1>0
  <2>2. PICK n \in Nat, b \in Nat : n = Place(page, level) /\ b = pow[level - 1]
    BY <1>4, <2>1, PowFacts
  <2>3. PICK q \in Nat, r \in 0..(Entries - 1) : q = n \div Entries /\ n = q * Entries + r
    BY <1>0, Division
  <2>4. q \in 0..(b - 1)
    BY <1>3, <1>6, <2>2, <2>3
  <2>5. q * Entries + Entries <= b * Entries /\ q * Entries \in Nat /\ b * Entries \in Nat
    <3>1. q < b
      BY <2>4
    <3> QED
      BY <1>0, <3>1, Parts
  <2>6. n < b * Entries
    BY <1>0, <2>3, <2>5
  <2>7. pow[level] = b * Entries
    BY <1>0, <2>2, PowFacts
  <2> QED
    BY <2>1, <2>2, <2>5, <2>6, <2>7
<1> HIDE DEF S
<1>7. \A level \in 0..Levels : level \in S
  BY <1>0, <1>5, <1>6, UpTo
<1>8. \A level \in 0..Levels : Place(page, level) \in 0..(pow[level] - 1)
  BY <1>7 DEF S
<1> QED
  BY <1>1, <1>2, <1>3, <1>8

\* The table memoria keeps instead of t once the frames are assigned.
Assigned(frames, t) ==
    LET last == collect_tables[Levels - 1]
        page(id, i) == (CHOOSE n \in DOMAIN last : last[n] = id) * Entries + i
    IN  IF t.last
        THEN [t EXCEPT !.entry = [i \in Indices |->
               IF page(t.id, i) < Len(frames) THEN frames[page(t.id, i) + 1] ELSE @[i]]]
        ELSE t

\* memoria finds the table of a number, and answers with its entry.
Answered(frames, level, id, i) ==
    \E t \in Tables :
        /\ find_table_by_id(init_page_table, id) = {t} /\ Linked(level, id, t)
        /\ handle_page_walk_request(assign_frames(frames), id, i) = Assigned(frames, t).entry[i]

\* memoria answers every request for an entry of a table of the process.
LEMMA Answer ==
    ASSUME NEW frames, NEW level \in 0..(Levels - 1), NEW id, At(level, id), NEW i \in Indices
    PROVE  Answered(frames, level, id, i)
<1>1. PICK t \in Tables : find_table_by_id(init_page_table, id) = {t} /\ Linked(level, id, t)
  BY FoundTable
<1>2. init_page_table \subseteq Tables
  <2>1. 0 \in 0..(Levels - 1)
    BY PageTablesAssumption
  <2>2. Numbered(create_table[0], Span(0))
    BY <2>1, SpanFacts
  <2> QED
    BY <2>2 DEF Numbered, Made, init_page_table
<1>3. ASSUME NEW u \in Tables PROVE Assigned(frames, u).id = u.id
  BY DEF Assigned, Tables
<1>4. assign_frames(frames) = {Assigned(frames, u) : u \in init_page_table}
  BY DEF assign_frames, Assigned
<1>5. find_table_by_id(assign_frames(frames), id) = {Assigned(frames, t)}
  BY <1>1, <1>2, <1>3, <1>4 DEF find_table_by_id
<1>6. ~(i >= Entries)
  BY PageTablesAssumption DEF Indices
<1>7. handle_page_walk_request(assign_frames(frames), id, i) = Assigned(frames, t).entry[i]
  BY <1>5, <1>6 DEF handle_page_walk_request
<1> QED
  BY <1>1, <1>7 DEF Answered

\* At an inner level the answer is the next table of the page.
LEMMA InnerAnswer ==
    ASSUME NEW frames, NEW page \in Nat, page < pow[Levels], NEW level \in 1..(Levels - 1)
    PROVE  handle_page_walk_request(assign_frames(frames),
              collect_tables[level - 1][Place(page, level - 1)], EntryIndex(page, level))
           = collect_tables[level][Place(page, level)]
<1>0. /\ Entries \in Nat \ {0} /\ Levels \in Nat
      /\ level - 1 \in 0..(Levels - 1) /\ level \in 1..Levels
      /\ level - 1 \in 0..Levels /\ level \in 0..Levels
  BY PageTablesAssumption
<1>1. PICK ids : ids = collect_tables[level - 1]
  OBVIOUS
<1>2. Spread(level - 1, ids) /\ collect_tables[level] = NextLevel(level, ids)
  BY <1>0, <1>1, CollectTables
<1>3. PICK n, q : n = Place(page, level) /\ q = Place(page, level - 1)
  OBVIOUS
<1>4. n \in 0..(pow[level] - 1) /\ q \in 0..(pow[level - 1] - 1) /\ q = n \div Entries
  BY <1>0, <1>3, Places
<1>5. PICK i : i = n % Entries
  OBVIOUS
<1>6. i = EntryIndex(page, level) /\ i \in Indices
  <2>1. n \in Nat
    BY <1>4
  <2>2. i \in Indices
    BY <1>0, <1>5, <2>1, Division DEF Indices
  <2> QED
    BY <1>3, <1>5, <2>2 DEF EntryIndex, Place
<1>7. At(level - 1, ids[q])
  BY <1>2, <1>4 DEF Spread
<1>8. PICK t \in Tables :
         /\ find_table_by_id(init_page_table, ids[q]) = {t} /\ Linked(level - 1, ids[q], t)
         /\ handle_page_walk_request(assign_frames(frames), ids[q], i) = Assigned(frames, t).entry[i]
  <2>1. Answered(frames, level - 1, ids[q], i)
    BY <1>0, <1>6, <1>7, Answer
  <2> QED
    BY <2>1 DEF Answered
<1>9. Assigned(frames, t) = t
  <2>1. ~IsLast(level - 1)
    BY <1>0 DEF IsLast
  <2>2. ~t.last
    BY <1>8, <2>1 DEF Linked
  <2> QED
    BY <2>2 DEF Assigned
<1>10. NextLevel(level, ids)[n] = t.entry[i]
  <2>1. t = CHOOSE u \in find_table_by_id(init_page_table, ids[q]) : TRUE
    BY <1>8
  <2> QED
    BY <1>4, <1>5, <2>1 DEF NextLevel
<1> QED
  BY <1>1, <1>2, <1>3, <1>6, <1>8, <1>9, <1>10

\* At the last level the answer is the frame of the page.
LEMMA LastAnswer ==
    ASSUME NEW frames, Len(frames) \in Nat, Len(frames) <= pow[Levels],
           NEW page \in 0..(Len(frames) - 1)
    PROVE  handle_page_walk_request(assign_frames(frames),
              collect_tables[Levels - 1][Place(page, Levels - 1)], EntryIndex(page, Levels))
           = frames[page + 1]
<1> DEFINE L == Levels - 1
<1>0. /\ Entries \in Nat \ {0} /\ Levels \in Nat \ {0}
      /\ L \in 0..(Levels - 1) /\ Levels \in 1..Levels /\ L \in 0..Levels /\ IsLast(L)
      /\ page \in Nat
  BY PageTablesAssumption DEF IsLast
<1>1. pow[L] \in Nat /\ pow[Levels] \in Nat /\ page < pow[Levels]
  BY <1>0, PowFacts
<1>2. PICK last : last = collect_tables[L]
  OBVIOUS
<1>3. Spread(L, last)
  BY <1>0, <1>2, CollectTables
<1>4. PICK q : q = Place(page, L)
  OBVIOUS
<1>5. q \in 0..(pow[L] - 1) /\ q = page \div Entries /\ Place(page, Levels) = page
  BY <1>0, <1>1, <1>4, Places
<1>6. PICK i \in Indices : i = page % Entries /\ page = q * Entries + i
  <2>1. PICK p \in Nat, j \in 0..(Entries - 1) :
           p = page \div Entries /\ j = page % Entries /\ page = p * Entries + j
    BY <1>0, Division
  <2>2. p = q /\ j \in Indices
    BY <1>5, <2>1 DEF Indices
  <2> QED
    BY <2>1, <2>2
<1>7. EntryIndex(page, Levels) = i
  BY <1>5, <1>6 DEF EntryIndex, Place
<1>8. At(L, last[q])
  BY <1>3, <1>5 DEF Spread
<1>9. PICK t \in Tables :
         /\ Linked(L, last[q], t)
         /\ handle_page_walk_request(assign_frames(frames), last[q], i)
              = Assigned(frames, t).entry[i]
  <2>1. Answered(frames, L, last[q], i)
    BY <1>0, <1>8, Answer
  <2> QED
    BY <2>1 DEF Answered
<1>10. t.id = last[q] /\ t.last
  BY <1>0, <1>9 DEF Linked
<1>11. q = CHOOSE n \in DOMAIN last : last[n] = t.id
  <2>1. DOMAIN last = 0..(pow[L] - 1) /\ Span(L) \in Nat \ {0}
    <3>1. Numbered(create_table[L], Span(L))
      BY <1>0, SpanFacts
    <3> QED
      BY <1>3, <3>1 DEF Spread, Numbered
  <2>2. ASSUME NEW n \in DOMAIN last, last[n] = last[q] PROVE n = q
    <3>1. n \in Nat /\ q \in Nat /\ last[n] \in Nat /\ last[q] \in Nat
      BY <1>1, <1>3, <1>5, <2>1 DEF Spread
    <3>2. n < q => last[n] + Span(L) <= last[q]
      BY <1>3, <1>5, <2>1 DEF Spread
    <3>3. q < n => last[q] + Span(L) <= last[n]
      BY <1>3, <1>5, <2>1 DEF Spread
    <3> QED
      BY <2>1, <2>2, <3>1, <3>2, <3>3
  <2> QED
    BY <1>5, <1>10, <2>1, <2>2
<1>12. Assigned(frames, t).entry[i] = frames[page + 1]
  <2> DEFINE place == CHOOSE n \in DOMAIN collect_tables[Levels - 1] :
                        collect_tables[Levels - 1][n] = t.id
             entry == [j \in Indices |->
                IF place * Entries + j < Len(frames)
                THEN frames[place * Entries + j + 1] ELSE t.entry[j]]
  <2>1. Assigned(frames, t) = [t EXCEPT !.entry = entry]
    BY <1>10 DEF Assigned
  <2>2. Assigned(frames, t).entry = entry
    <3> HIDE DEF entry
    <3> QED
      BY <2>1 DEF Tables
  <2>3. place = q
    BY <1>2, <1>11
  <2> HIDE DEF place
  <2>4. entry[i] = IF place * Entries + i < Len(frames)
                   THEN frames[place * Entries + i + 1] ELSE t.entry[i]
    OBVIOUS
  <2> HIDE DEF entry
  <2>5. place * Entries + i = page /\ page < Len(frames)
    BY <1>6, <2>3
  <2> QED
    BY <2>2, <2>4, <2>5
<1> QED
  BY <1>2, <1>4, <1>7, <1>9, <1>12

\* The walk of a CPU through the tables of a process finds the frame that memoria
\* assigned to the page, for any number of levels and entries, as long as the tables
\* have an entry for every page.  It relates three orders: that in which
\* _create_table numbers tables, that in which assign_frames collects them, and that
\* in which mmu_perform_page_walk takes page numbers apart.
THEOREM WalkFinds ==
    ASSUME NEW frames, Len(frames) \in Nat, Len(frames) <= pow[Levels],
           NEW page \in 0..(Len(frames) - 1)
    PROVE  mmu_perform_page_walk(assign_frames(frames), page) = frames[page + 1]
<1> DEFINE tables == assign_frames(frames)
           F(f) == [level \in 0..Levels |->
                        IF level = 0 THEN 1
                        ELSE IF f[level - 1] = 0 THEN 0
                        ELSE handle_page_walk_request(tables, f[level - 1], EntryIndex(page, level))]
           h == [level \in 0..Levels |->
                    IF level = Levels THEN frames[page + 1]
                    ELSE collect_tables[level][Place(page, level)]]
<1>0. /\ Levels \in Nat \ {0} /\ page \in Nat /\ page < pow[Levels]
      /\ 0 \in 0..(Levels - 1) /\ Levels \in 0..Levels
  <2>1. Levels \in Nat \ {0} /\ page \in Nat
    BY PageTablesAssumption
  <2>2. pow[Levels] \in Nat
    BY <2>1, PowFacts
  <2> QED
    BY <2>1, <2>2
<1>1. ASSUME NEW level \in 0..(Levels - 1)
      PROVE  h[level] = collect_tables[level][Place(page, level)] /\ h[level] # 0
  <2>1. level \in 0..Levels /\ level # Levels
    BY <1>0
  <2>2. h[level] = collect_tables[level][Place(page, level)]
    BY <2>1
  <2>3. Place(page, level) \in 0..(pow[level] - 1)
    BY <1>0, <2>1, Places
  <2>4. Spread(level, collect_tables[level])
    BY CollectTables
  <2>5. At(level, collect_tables[level][Place(page, level)])
    BY <2>3, <2>4 DEF Spread
  <2> HIDE DEF h
  <2> QED
    BY <2>2, <2>5 DEF At
<1>2. h[0] = 1
  <2>1. Place(page, 0) = 0 /\ collect_tables[0] = [n \in {0} |-> 1]
    BY <1>0, Places, CollectTables
  <2> HIDE DEF h
  <2> QED
    BY <1>0, <1>1, <2>1
<1>3. h[Levels] = frames[page + 1]
  BY <1>0
<1>4. ASSUME NEW level \in 1..Levels
      PROVE  /\ h[level - 1] # 0
             /\ h[level] = handle_page_walk_request(tables, h[level - 1], EntryIndex(page, level))
  <2> HIDE DEF h
  <2>1. level - 1 \in 0..(Levels - 1)
    BY <1>0
  <2>2. h[level - 1] = collect_tables[level - 1][Place(page, level - 1)] /\ h[level - 1] # 0
    BY <1>1, <2>1
  <2>3. CASE level = Levels
    BY <1>3, <2>2, <2>3, LastAnswer
  <2>4. CASE level # Levels
    <3>1. level \in 1..(Levels - 1) /\ level \in 0..(Levels - 1)
      BY <1>0, <2>4
    <3>2. h[level] = collect_tables[level][Place(page, level)]
      BY <1>1, <3>1
    <3> QED
      BY <1>0, <2>2, <3>1, <3>2, InnerAnswer
  <2> QED
    BY <2>2, <2>3, <2>4
<1> HIDE DEF tables
<1>5. ASSUME NEW w
      PROVE  /\ F(w) = [level \in 0..Levels |-> F(w)[level]]
             /\ F(w)[0] = 1
             /\ \A level \in 1..Levels : w[level - 1] # 0 =>
                    F(w)[level] = handle_page_walk_request(tables, w[level - 1], EntryIndex(page, level))
  <2>1. F(w) = [level \in 0..Levels |-> F(w)[level]] /\ F(w)[0] = 1
    BY <1>0
  <2>2. ASSUME NEW level \in 1..Levels, w[level - 1] # 0
        PROVE  F(w)[level] = handle_page_walk_request(tables, w[level - 1], EntryIndex(page, level))
    <3>1. level \in 0..Levels /\ level # 0
      BY <1>0
    <3> QED
      BY <2>2, <3>1
  <2> QED
    BY <2>1, <2>2
<1>6. h = [level \in 0..Levels |-> h[level]]
  OBVIOUS
<1>7. h = F(h)
  <2> HIDE DEF h, F
  <2>1. ASSUME NEW level \in 0..Levels PROVE h[level] = F(h)[level]
    <3>1. CASE level = 0
      BY <1>2, <1>5, <3>1
    <3>2. CASE level # 0
      <4>1. level \in 1..Levels
        BY <1>0, <3>2
      <4> QED
        BY <1>4, <1>5, <4>1
    <3> QED
      BY <3>1, <3>2
  <2>2. [level \in 0..Levels |-> h[level]] = [level \in 0..Levels |-> F(h)[level]]
    BY <2>1
  <2> QED
    BY <1>5, <1>6, <2>2
<1> HIDE DEF h
<1> DEFINE w == CHOOSE k : k = F(k)
<1>8. w = F(w)
  <2> HIDE DEF F
  <2>1. \E k : k = F(k)
    BY <1>7
  <2> QED
    BY <2>1
<1>9. mmu_perform_page_walk(assign_frames(frames), page) = w[Levels]
  BY DEF mmu_perform_page_walk, tables
<1> HIDE DEF F, w
<1> DEFINE S == {level \in 0..Levels : w[level] = h[level]}
<1>10. 0 \in S
  BY <1>0, <1>2, <1>5, <1>8
<1>11. ASSUME NEW level \in 1..Levels, level - 1 \in S PROVE level \in S
  <2>1. w[level - 1] = h[level - 1]
    BY <1>11
  <2>2. w[level] = h[level]
    BY <1>4, <1>5, <1>8, <2>1
  <2> QED
    BY <1>0, <2>2
<1> HIDE DEF S
<1>12. \A level \in 0..Levels : level \in S
  BY <1>0, <1>10, <1>11, UpTo
<1>13. w[Levels] = h[Levels]
  BY <1>0, <1>12 DEF S
<1> QED
  BY <1>3, <1>9, <1>13
===============================================================================
