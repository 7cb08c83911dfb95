------------------------------ MODULE LockProofs ------------------------------
(***************************************************************************)
(* Sections that take semaphores downwards never deadlock, and a semaphore *)
(* that is never posted without being held admits one thread at a time,    *)
(* for any number of threads, semaphores and sections.  The sections of    *)
(* the kernel keep this discipline, so both hold of the kernel.            *)
(***************************************************************************)
EXTENDS KernelLocks, SequenceTheorems, WellFoundedInduction, TLAPS

-----------------------------------------------------------------------------
(* Sections that keep the discipline *)

\* What a thread holds is what its section says.
Following ==
    \A t \in Threads :
        IF Busy(t)
        THEN /\ section[t] \in Sections[mode]
             /\ pc[t] \in 1..Len(section[t])
             /\ held[t] = HeldAt(section[t], pc[t])
        ELSE held[t] = {}

\* A semaphore at zero is held by a thread.
Covered == \A s \in Semaphores : sem[s] = 0 => \E t \in Threads : s \in held[t]

\* The inductive invariant for deadlock freedom.
FlowInv == TypeOK /\ Following /\ Covered

\* A guarding semaphore is held by at most one thread, and at 1 if by none.
Single ==
    \A s \in Guarding[mode] :
        /\ \A t, u \in Threads : s \in held[t] /\ s \in held[u] => t = u
        /\ sem[s] \in {0, 1}
        /\ sem[s] = 1 <=> \A t \in Threads : s \notin held[t]

-----------------------------------------------------------------------------
\* Nothing is held before the first step of a section.
LEMMA HeldFirst ==
    ASSUME NEW p
    PROVE  HeldAt(p, 1) = {}
BY DEF HeldAt

\* After a step that waits, its semaphores are held too.
LEMMA HeldAfterWait ==
    ASSUME NEW p \in Seq(Steps), NEW i \in 1..Len(p), p[i].op = "wait"
    PROVE  HeldAt(p, i + 1) = HeldAt(p, i) \cup p[i].sems
<1>1. p[i].sems \subseteq Semaphores
  <2>1. p[i] \in Steps
    OBVIOUS
  <2> QED
    BY <2>1 DEF Steps
<1>2. ASSUME NEW s \in Semaphores
      PROVE  s \in HeldAt(p, i + 1) <=> s \in HeldAt(p, i) \/ s \in p[i].sems
  <2>1. ASSUME s \in HeldAt(p, i + 1)
        PROVE  s \in HeldAt(p, i) \/ s \in p[i].sems
    BY <2>1 DEF HeldAt
  <2>2. ASSUME s \in HeldAt(p, i)
        PROVE  s \in HeldAt(p, i + 1)
    <3>1. PICK j \in 1..(i - 1) :
            /\ p[j].op = "wait" /\ s \in p[j].sems
            /\ \A k \in (j + 1)..(i - 1) : ~(p[k].op = "post" /\ s \in p[k].sems)
      BY <2>2 DEF HeldAt
    <3>2. \A k \in (j + 1)..((i + 1) - 1) : ~(p[k].op = "post" /\ s \in p[k].sems)
      BY <3>1
    <3>3. j \in 1..((i + 1) - 1)
      OBVIOUS
    <3> QED
      BY <3>1, <3>2, <3>3 DEF HeldAt
  <2>3. ASSUME s \in p[i].sems
        PROVE  s \in HeldAt(p, i + 1)
    <3>1. /\ i \in 1..((i + 1) - 1)
          /\ \A k \in (i + 1)..((i + 1) - 1) : ~(p[k].op = "post" /\ s \in p[k].sems)
      OBVIOUS
    <3> QED
      BY <2>3, <3>1 DEF HeldAt
  <2> QED
    BY <2>1, <2>2, <2>3
<1>3. HeldAt(p, i + 1) \subseteq Semaphores /\ HeldAt(p, i) \subseteq Semaphores
  BY DEF HeldAt
<1> QED
  BY <1>1, <1>2, <1>3

\* Waiting for an answer changes nothing of what is held.
LEMMA HeldAfterAwait ==
    ASSUME NEW p \in Seq(Steps), NEW i \in 1..Len(p), p[i].op = "await"
    PROVE  HeldAt(p, i + 1) = HeldAt(p, i)
<1>1. ASSUME NEW s \in Semaphores
      PROVE  s \in HeldAt(p, i + 1) <=> s \in HeldAt(p, i)
  <2>1. ASSUME s \in HeldAt(p, i + 1)
        PROVE  s \in HeldAt(p, i)
    <3>1. PICK j \in 1..((i + 1) - 1) :
            /\ p[j].op = "wait" /\ s \in p[j].sems
            /\ \A k \in (j + 1)..((i + 1) - 1) : ~(p[k].op = "post" /\ s \in p[k].sems)
      BY <2>1 DEF HeldAt
    <3>2. j # i
      BY <3>1
    <3>3. j \in 1..(i - 1)
      BY <3>2
    <3>4. \A k \in (j + 1)..(i - 1) : ~(p[k].op = "post" /\ s \in p[k].sems)
      BY <3>1
    <3> QED
      BY <3>1, <3>3, <3>4 DEF HeldAt
  <2>2. ASSUME s \in HeldAt(p, i)
        PROVE  s \in HeldAt(p, i + 1)
    <3>1. PICK j \in 1..(i - 1) :
            /\ p[j].op = "wait" /\ s \in p[j].sems
            /\ \A k \in (j + 1)..(i - 1) : ~(p[k].op = "post" /\ s \in p[k].sems)
      BY <2>2 DEF HeldAt
    <3>2. \A k \in (j + 1)..((i + 1) - 1) : ~(p[k].op = "post" /\ s \in p[k].sems)
      BY <3>1
    <3>3. j \in 1..((i + 1) - 1)
      OBVIOUS
    <3> QED
      BY <3>1, <3>2, <3>3 DEF HeldAt
  <2> QED
    BY <2>1, <2>2
<1>2. HeldAt(p, i + 1) \subseteq Semaphores /\ HeldAt(p, i) \subseteq Semaphores
  BY DEF HeldAt
<1> QED
  BY <1>1, <1>2

\* After a step that posts, its semaphores are held no more.
LEMMA HeldAfterPost ==
    ASSUME NEW p \in Seq(Steps), NEW i \in 1..Len(p), p[i].op = "post"
    PROVE  HeldAt(p, i + 1) = HeldAt(p, i) \ p[i].sems
<1>1. ASSUME NEW s \in Semaphores
      PROVE  s \in HeldAt(p, i + 1) <=> s \in HeldAt(p, i) /\ s \notin p[i].sems
  <2>1. ASSUME s \in HeldAt(p, i + 1)
        PROVE  s \in HeldAt(p, i) /\ s \notin p[i].sems
    <3>1. PICK j \in 1..((i + 1) - 1) :
            /\ p[j].op = "wait" /\ s \in p[j].sems
            /\ \A k \in (j + 1)..((i + 1) - 1) : ~(p[k].op = "post" /\ s \in p[k].sems)
      BY <2>1 DEF HeldAt
    <3>2. j # i
      BY <3>1
    <3>3. j \in 1..(i - 1) /\ i \in (j + 1)..((i + 1) - 1)
      BY <3>2
    <3>4. \A k \in (j + 1)..(i - 1) : ~(p[k].op = "post" /\ s \in p[k].sems)
      BY <3>1
    <3> QED
      BY <3>1, <3>3, <3>4 DEF HeldAt
  <2>2. ASSUME s \in HeldAt(p, i), s \notin p[i].sems
        PROVE  s \in HeldAt(p, i + 1)
    <3>1. PICK j \in 1..(i - 1) :
            /\ p[j].op = "wait" /\ s \in p[j].sems
            /\ \A k \in (j + 1)..(i - 1) : ~(p[k].op = "post" /\ s \in p[k].sems)
      BY <2>2 DEF HeldAt
    <3>2. \A k \in (j + 1)..((i + 1) - 1) : ~(p[k].op = "post" /\ s \in p[k].sems)
      BY <2>2, <3>1
    <3>3. j \in 1..((i + 1) - 1)
      OBVIOUS
    <3> QED
      BY <3>1, <3>2, <3>3 DEF HeldAt
  <2> QED
    BY <2>1, <2>2
<1>2. HeldAt(p, i + 1) \subseteq Semaphores /\ HeldAt(p, i) \subseteq Semaphores
  BY DEF HeldAt
<1> QED
  BY <1>1, <1>2

-----------------------------------------------------------------------------
\* The section of a thread inside one, and its next step.
LEMMA BusyFacts ==
    ASSUME FlowInv, NEW t \in Threads, Busy(t)
    PROVE  /\ section[t] \in Sections[mode] /\ section[t] \in Seq(Steps)
           /\ pc[t] \in 1..Len(section[t])
           /\ held[t] = HeldAt(section[t], pc[t])
           /\ NextStep(t).op \in {"wait", "post", "await"} /\ NextStep(t).sems \subseteq Semaphores
<1>1. /\ section[t] \in Sections[mode] /\ section[t] \in Seq(Steps)
      /\ pc[t] \in 1..Len(section[t])
      /\ held[t] = HeldAt(section[t], pc[t])
  BY DEF FlowInv, Following, TypeOK
<1>2. section[t][pc[t]] \in Steps
  BY <1>1
<1> QED
  BY <1>1, <1>2 DEF NextStep, Steps

\* A step of a thread that changes what it holds as its section says leaves it
\* where its section says, at the next step or outside.
LEMMA AdvanceFollows ==
    ASSUME Orderly, FlowInv, NEW t \in Threads, Busy(t), Advance(t), mode' = mode,
           held' = [held EXCEPT ![t] = HeldAt(section[t], pc[t] + 1)]
    PROVE  /\ section' \in [Threads -> Seq(Steps)] /\ pc' \in [Threads -> Nat]
           /\ Following'
<1> DEFINE p == section[t]
<1>1. /\ p \in Sections[mode] /\ p \in Seq(Steps) /\ p # <<>>
      /\ pc[t] \in 1..Len(p)
  BY BusyFacts DEF Busy
<1>2. HeldAt(p, Len(p) + 1) = {}
  BY <1>1 DEF Orderly, FlowInv, TypeOK
<1>t. /\ section \in [Threads -> Seq(Steps)] /\ pc \in [Threads -> Nat]
      /\ held \in [Threads -> SUBSET Semaphores]
  BY DEF FlowInv, TypeOK
<1>3. CASE pc[t] < Len(p)
  <2>1. pc' = [pc EXCEPT ![t] = @ + 1] /\ section' = section
    BY <1>3 DEF Advance
  <2>2. section' \in [Threads -> Seq(Steps)] /\ pc' \in [Threads -> Nat]
    BY <2>1, <1>t
  <2>3. ASSUME NEW u \in Threads
        PROVE  IF section'[u] # <<>>
               THEN /\ section'[u] \in Sections[mode']
                    /\ pc'[u] \in 1..Len(section'[u])
                    /\ held'[u] = HeldAt(section'[u], pc'[u])
               ELSE held'[u] = {}
    <3>1. CASE u = t
      BY <3>1, <2>1, <1>1, <1>3, <1>t
    <3>2. CASE u # t
      BY <3>2, <2>1, <1>t DEF FlowInv, Following, Busy
    <3> QED
      BY <3>1, <3>2
  <2> QED
    BY <2>2, <2>3 DEF Following, Busy
<1>4. CASE ~(pc[t] < Len(p))
  <2>1. pc' = [pc EXCEPT ![t] = 1] /\ section' = [section EXCEPT ![t] = <<>>]
    BY <1>4 DEF Advance
  <2>2. section' \in [Threads -> Seq(Steps)] /\ pc' \in [Threads -> Nat]
    BY <2>1, <1>t
  <2>3. pc[t] = Len(p)
    BY <1>1, <1>4
  <2>4. ASSUME NEW u \in Threads
        PROVE  IF section'[u] # <<>>
               THEN /\ section'[u] \in Sections[mode']
                    /\ pc'[u] \in 1..Len(section'[u])
                    /\ held'[u] = HeldAt(section'[u], pc'[u])
               ELSE held'[u] = {}
    <3>1. CASE u = t
      BY <3>1, <2>1, <2>3, <1>2, <1>t
    <3>2. CASE u # t
      BY <3>2, <2>1, <1>t DEF FlowInv, Following, Busy
    <3> QED
      BY <3>1, <3>2
  <2> QED
    BY <2>2, <2>4 DEF Following, Busy
<1> QED
  BY <1>3, <1>4

\* A step that begins a section keeps the invariant.
LEMMA BeginFlow ==
    ASSUME Orderly, FlowInv, NEW t \in Threads, NEW p \in Sections[mode], Begin(t, p)
    PROVE  FlowInv'
<1>t. /\ section \in [Threads -> Seq(Steps)] /\ pc \in [Threads -> Nat]
      /\ held \in [Threads -> SUBSET Semaphores] /\ mode \in Modes
  BY DEF FlowInv, TypeOK
<1>1. p \in Seq(Steps) /\ p # <<>>
  BY <1>t, LockAssumption DEF Orderly
<1>2. TypeOK'
  BY <1>1 DEF FlowInv, TypeOK, Begin
<1>3. Following'
  <2>1. ASSUME NEW u \in Threads
        PROVE  IF section'[u] # <<>>
               THEN /\ section'[u] \in Sections[mode']
                    /\ pc'[u] \in 1..Len(section'[u])
                    /\ held'[u] = HeldAt(section'[u], pc'[u])
               ELSE held'[u] = {}
    <3>1. CASE u = t
      <4>1. held[t] = {}
        BY DEF FlowInv, Following, Begin
      <4>2. 1 \in 1..Len(p)
        BY <1>1
      <4> QED
        BY <3>1, <4>1, <4>2, <1>t, <1>1, HeldFirst DEF Begin
    <3>2. CASE u # t
      BY <3>2, <1>t DEF FlowInv, Following, Busy, Begin
    <3> QED
      BY <3>1, <3>2
  <2> QED
    BY <2>1 DEF Following, Busy
<1>4. Covered'
  BY DEF FlowInv, Covered, Begin
<1> QED
  BY <1>2, <1>3, <1>4 DEF FlowInv

\* A wait keeps the invariant: what it brings to zero is held by the thread.
LEMMA WaitFlow ==
    ASSUME Orderly, FlowInv, NEW t \in Threads, sem_wait(t)
    PROVE  FlowInv'
<1> DEFINE p == section[t]
           S == NextStep(t).sems
<1>t. /\ held \in [Threads -> SUBSET Semaphores] /\ mode \in Modes
      /\ sem \in [Semaphores -> Nat]
  BY DEF FlowInv, TypeOK
<1>1. Busy(t)
  BY DEF sem_wait
<1>2. /\ p \in Seq(Steps) /\ pc[t] \in 1..Len(p) /\ held[t] = HeldAt(p, pc[t])
      /\ S \subseteq Semaphores
  BY <1>1, BusyFacts
<1>3. HeldAt(p, pc[t] + 1) = held[t] \cup S
  BY <1>2, HeldAfterWait DEF sem_wait, NextStep
<1>4. held' = [held EXCEPT ![t] = HeldAt(p, pc[t] + 1)]
  BY <1>3 DEF sem_wait
<1>5. /\ section' \in [Threads -> Seq(Steps)] /\ pc' \in [Threads -> Nat]
      /\ Following'
  BY <1>1, <1>4, AdvanceFollows DEF sem_wait
<1>6. sem' \in [Semaphores -> Nat]
  BY <1>t DEF sem_wait
<1>7. held' \in [Threads -> SUBSET Semaphores]
  BY <1>2, <1>3, <1>4, <1>t
<1>8. TypeOK'
  BY <1>t, <1>5, <1>6, <1>7 DEF TypeOK, sem_wait
<1>9. ASSUME NEW s \in Semaphores, sem'[s] = 0
      PROVE  \E u \in Threads : s \in held'[u]
  <2>1. CASE s \in S
    BY <2>1, <1>3, <1>4, <1>t
  <2>2. CASE s \notin S
    <3>1. sem[s] = 0
      BY <2>2, <1>9 DEF sem_wait
    <3>2. PICK u \in Threads : s \in held[u]
      BY <3>1 DEF FlowInv, Covered
    <3> QED
      BY <3>2, <1>3, <1>4, <1>t
  <2> QED
    BY <2>1, <2>2
<1> QED
  BY <1>5, <1>8, <1>9 DEF FlowInv, Covered

\* A post keeps the invariant: what it takes from the thread is above zero.
LEMMA PostFlow ==
    ASSUME Orderly, FlowInv, NEW t \in Threads, sem_post(t)
    PROVE  FlowInv'
<1> DEFINE p == section[t]
           S == NextStep(t).sems
<1>t. /\ held \in [Threads -> SUBSET Semaphores] /\ mode \in Modes
      /\ sem \in [Semaphores -> Nat]
  BY DEF FlowInv, TypeOK
<1>1. Busy(t)
  BY DEF sem_post
<1>2. /\ p \in Seq(Steps) /\ pc[t] \in 1..Len(p) /\ held[t] = HeldAt(p, pc[t])
      /\ S \subseteq Semaphores
  BY <1>1, BusyFacts
<1>3. HeldAt(p, pc[t] + 1) = held[t] \ S
  BY <1>2, HeldAfterPost DEF sem_post, NextStep
<1>4. held' = [held EXCEPT ![t] = HeldAt(p, pc[t] + 1)]
  BY <1>3 DEF sem_post
<1>5. /\ section' \in [Threads -> Seq(Steps)] /\ pc' \in [Threads -> Nat]
      /\ Following'
  BY <1>1, <1>4, AdvanceFollows DEF sem_post
<1>6. sem' \in [Semaphores -> Nat]
  BY <1>t DEF sem_post
<1>7. held' \in [Threads -> SUBSET Semaphores]
  BY <1>2, <1>3, <1>4, <1>t
<1>8. TypeOK'
  BY <1>t, <1>5, <1>6, <1>7 DEF TypeOK, sem_post
<1>9. ASSUME NEW s \in Semaphores, sem'[s] = 0
      PROVE  \E u \in Threads : s \in held'[u]
  <2>1. s \notin S /\ sem[s] = 0
    BY <1>9, <1>t DEF sem_post
  <2>2. PICK u \in Threads : s \in held[u]
    BY <2>1 DEF FlowInv, Covered
  <2> QED
    BY <2>1, <2>2, <1>3, <1>4, <1>t
<1> QED
  BY <1>5, <1>8, <1>9 DEF FlowInv, Covered

\* The answer of a CPU changes no semaphore.
LEMMA AwaitFlow ==
    ASSUME Orderly, FlowInv, NEW t \in Threads, Await(t)
    PROVE  FlowInv'
<1> DEFINE p == section[t]
<1>1. Busy(t) /\ held \in [Threads -> SUBSET Semaphores]
  BY DEF Await, FlowInv, TypeOK
<1>2. p \in Seq(Steps) /\ pc[t] \in 1..Len(p) /\ held[t] = HeldAt(p, pc[t])
  BY <1>1, BusyFacts
<1>3. HeldAt(p, pc[t] + 1) = held[t]
  BY <1>2, HeldAfterAwait DEF Await, NextStep
<1>4. held' = [held EXCEPT ![t] = HeldAt(p, pc[t] + 1)]
  BY <1>1, <1>3 DEF Await
<1>5. /\ section' \in [Threads -> Seq(Steps)] /\ pc' \in [Threads -> Nat]
      /\ Following'
  BY <1>1, <1>4, AdvanceFollows DEF Await
<1>6. TypeOK'
  BY <1>5 DEF FlowInv, TypeOK, Await
<1>7. Covered'
  BY DEF FlowInv, Covered, Await
<1> QED
  BY <1>5, <1>6, <1>7 DEF FlowInv

-----------------------------------------------------------------------------
\* The invariant holds at first and is kept by every step.
LEMMA FlowInit == Init => FlowInv
BY LockAssumption DEF Init, FlowInv, TypeOK, Following, Covered, Busy

LEMMA FlowNext ==
    ASSUME Orderly, FlowInv, [Next]_vars
    PROVE  FlowInv'
<1>1. CASE UNCHANGED vars
  BY <1>1 DEF vars, FlowInv, TypeOK, Following, Covered, Busy
<1>2. ASSUME NEW t \in Threads, NEW p \in Sections[mode], Begin(t, p)
      PROVE  FlowInv'
  BY <1>2, BeginFlow
<1>3. ASSUME NEW t \in Threads, sem_wait(t)
      PROVE  FlowInv'
  BY <1>3, WaitFlow
<1>4. ASSUME NEW t \in Threads, sem_post(t)
      PROVE  FlowInv'
  BY <1>4, PostFlow
<1>5. ASSUME NEW t \in Threads, Await(t)
      PROVE  FlowInv'
  BY <1>5, AwaitFlow
<1> QED
  BY <1>1, <1>2, <1>3, <1>4, <1>5 DEF Next

\* A set of numbers that is not empty has a least element.
LEMMA LeastNumber ==
    ASSUME NEW T \in SUBSET Nat, T # {}
    PROVE  \E x \in T : \A y \in T : ~(y < x)
<1> DEFINE R == OpToRel(<, Nat)
<1>1. IsWellFoundedOn(R, Nat)
  BY NatLessThanWellFounded
<1>2. \E x \in T : \A y \in T : ~(<<y, x>> \in R)
  <2> HIDE DEF R
  <2> QED
    BY <1>1, WFMin
<1>3. PICK x \in T : \A y \in T : ~(<<y, x>> \in R)
  BY <1>2
<1>4. ASSUME NEW y \in T, y < x
      PROVE  <<y, x>> \in R
  BY <1>4 DEF OpToRel
<1> QED
  BY <1>3, <1>4

\* Threads follow their sections, so they wait in order.
LEMMA OrderFollows ==
    ASSUME Orderly, FlowInv
    PROVE  WaitsInOrder
<1> SUFFICES ASSUME NEW t \in Threads, Busy(t), NextStep(t).op = "wait",
                    NEW s \in NextStep(t).sems, NEW r \in held[t]
             PROVE  Height[s] < Height[r]
  BY DEF WaitsInOrder
<1>1. /\ section[t] \in Sections[mode] /\ mode \in Modes
      /\ pc[t] \in 1..Len(section[t])
      /\ held[t] = HeldAt(section[t], pc[t])
  BY BusyFacts DEF FlowInv, TypeOK
<1> QED
  BY <1>1 DEF Orderly, NextStep

\* If every thread inside a section waited for a semaphore at zero, the lowest of
\* these would be held by a thread that waits for a lower one.
LEMMA OrderNoDeadlock ==
    ASSUME FlowInv, WaitsInOrder
    PROVE  NoDeadlock
<1> SUFFICES ASSUME NEW t0 \in Threads, Busy(t0),
                    \A t \in Threads : Busy(t) =>
                        /\ NextStep(t).op = "wait"
                        /\ \E s \in NextStep(t).sems : ~(sem[s] > 0)
             PROVE  FALSE
  BY DEF NoDeadlock, CanGoOn, Awaits
<1> DEFINE Wanted == {s \in Semaphores : sem[s] = 0 /\
                        \E t \in Threads : Busy(t) /\ s \in NextStep(t).sems}
           T == {Height[s] : s \in Wanted}
<1>1. ASSUME NEW t \in Threads, Busy(t)
      PROVE  \E s \in Wanted : s \in NextStep(t).sems
  <2>1. PICK s \in NextStep(t).sems : ~(sem[s] > 0)
    BY <1>1
  <2>2. s \in Semaphores
    BY <1>1, BusyFacts
  <2>3. sem[s] = 0
    BY <2>1, <2>2 DEF FlowInv, TypeOK
  <2> QED
    BY <1>1, <2>2, <2>3
<1>2. T \in SUBSET Nat /\ T # {}
  BY <1>1, LockAssumption
<1>3. PICK s \in Wanted : \A r \in Wanted : ~(Height[r] < Height[s])
  <2> HIDE DEF Wanted
  <2>1. PICK x \in T : \A y \in T : ~(y < x)
    BY <1>2, LeastNumber
  <2> QED
    BY <2>1
<1>4. PICK u \in Threads : s \in held[u]
  BY DEF FlowInv, Covered
<1>5. Busy(u)
  BY <1>4 DEF FlowInv, Following
<1>6. PICK r \in Wanted : r \in NextStep(u).sems
  BY <1>1, <1>5
<1>7. Height[r] < Height[s]
  BY <1>4, <1>5, <1>6 DEF WaitsInOrder
<1> QED
  BY <1>3, <1>7

\* For any number of threads: a thread that is about to wait holds only higher
\* semaphores, whatever the others do meanwhile.
THEOREM OrderKept == Orderly /\ Spec => []WaitsInOrder
<1>1. Orderly /\ FlowInv /\ [Next]_vars => FlowInv'
  BY FlowNext
<1>2. Orderly /\ FlowInv => WaitsInOrder
  BY OrderFollows
<1>3. Orderly => Orderly'
  BY DEF Orderly
<1> QED
  BY FlowInit, <1>1, <1>2, <1>3, PTL DEF Spec

\* For any number of threads, in every state of every behaviour: sections that
\* keep the discipline never leave all threads waiting for semaphores that the
\* others hold.
THEOREM DeadlockFree == Orderly /\ Spec => []NoDeadlock
<1>1. Orderly /\ FlowInv /\ [Next]_vars => FlowInv'
  BY FlowNext
<1>2. Orderly /\ FlowInv => NoDeadlock
  BY OrderFollows, OrderNoDeadlock
<1>3. Orderly => []Orderly
  <2>1. Orderly => Orderly'
    BY DEF Orderly
  <2> QED
    BY <2>1, PTL
<1> QED
  BY FlowInit, <1>1, <1>2, <1>3, PTL DEF Spec

-----------------------------------------------------------------------------
\* A thread posts only guarding semaphores that it holds.
LEMMA PostsWhatItHolds ==
    ASSUME Guarded, FlowInv, NEW t \in Threads, sem_post(t),
           NEW s \in Guarding[mode], s \in NextStep(t).sems
    PROVE  s \in held[t]
<1> DEFINE p == section[t]
<1>1. /\ p \in Sections[mode] /\ mode \in Modes /\ p \in Seq(Steps)
      /\ pc[t] \in 1..Len(p) /\ held[t] = HeldAt(p, pc[t])
  BY BusyFacts DEF FlowInv, TypeOK, sem_post
<1>2. s \in Semaphores
  BY <1>1, LockAssumption
<1>3. p \in AllSections
  BY <1>1 DEF AllSections
<1>4. s \notin Overposted[p]
  BY <1>1 DEF Guarded
<1>5. s \notin {r \in Semaphores : \E i \in 1..Len(p) :
                p[i].op = "post" /\ r \in p[i].sems /\ r \notin HeldAt(p, i)}
  BY <1>3, <1>4 DEF Overposted
<1> QED
  BY <1>1, <1>2, <1>5 DEF sem_post, NextStep

LEMMA SingleInit == Init => Single
BY LockAssumption DEF Init, Single

\* A semaphore above zero is held by nobody; one that is posted was held by the
\* thread that posts it.
LEMMA SingleNext ==
    ASSUME Orderly, Guarded, FlowInv, Single, [Next]_vars
    PROVE  Single'
<1>t. /\ held \in [Threads -> SUBSET Semaphores] /\ mode \in Modes
      /\ sem \in [Semaphores -> Nat]
      /\ Guarding[mode] \subseteq Semaphores
  BY LockAssumption DEF FlowInv, TypeOK
<1>1. CASE UNCHANGED vars
  BY <1>1 DEF vars, Single
<1>2. ASSUME NEW t \in Threads, NEW p \in Sections[mode], Begin(t, p)
      PROVE  Single'
  BY <1>2 DEF Begin, Single
<1>3. ASSUME NEW t \in Threads, sem_wait(t)
      PROVE  Single'
  <2> SUFFICES ASSUME NEW s \in Guarding[mode]
               PROVE  /\ \A v, u \in Threads : s \in held'[v] /\ s \in held'[u] => v = u
                      /\ sem'[s] \in {0, 1}
                      /\ sem'[s] = 1 <=> \A u \in Threads : s \notin held'[u]
    BY <1>3 DEF sem_wait, Single
  <2>1. CASE s \in NextStep(t).sems
    <3>1. sem[s] = 1 /\ sem'[s] = 0
      BY <2>1, <1>3, <1>t DEF sem_wait, Single
    <3>2. \A u \in Threads : s \notin held[u]
      BY <3>1 DEF Single
    <3>3. \A u \in Threads : s \in held'[u] <=> u = t
      BY <2>1, <3>2, <1>3, <1>t DEF sem_wait
    <3> QED
      BY <3>1, <3>3
  <2>2. CASE s \notin NextStep(t).sems
    <3>1. sem'[s] = sem[s]
      BY <2>2, <1>3, <1>t DEF sem_wait
    <3>2. \A u \in Threads : s \in held'[u] <=> s \in held[u]
      BY <2>2, <1>3, <1>t DEF sem_wait
    <3> QED
      BY <3>1, <3>2 DEF Single
  <2> QED
    BY <2>1, <2>2
<1>4. ASSUME NEW t \in Threads, sem_post(t)
      PROVE  Single'
  <2> SUFFICES ASSUME NEW s \in Guarding[mode]
               PROVE  /\ \A v, u \in Threads : s \in held'[v] /\ s \in held'[u] => v = u
                      /\ sem'[s] \in {0, 1}
                      /\ sem'[s] = 1 <=> \A u \in Threads : s \notin held'[u]
    BY <1>4 DEF sem_post, Single
  <2>1. CASE s \in NextStep(t).sems
    <3>1. s \in held[t]
      BY <2>1, <1>4, PostsWhatItHolds
    <3>2. sem[s] = 0 /\ sem'[s] = 1
      BY <2>1, <3>1, <1>4, <1>t DEF sem_post, Single
    <3>3. \A u \in Threads : s \notin held'[u]
      BY <2>1, <3>1, <1>4, <1>t DEF sem_post, Single
    <3> QED
      BY <3>2, <3>3
  <2>2. CASE s \notin NextStep(t).sems
    <3>1. sem'[s] = sem[s]
      BY <2>2, <1>4, <1>t DEF sem_post
    <3>2. \A u \in Threads : s \in held'[u] <=> s \in held[u]
      BY <2>2, <1>4, <1>t DEF sem_post
    <3> QED
      BY <3>1, <3>2 DEF Single
  <2> QED
    BY <2>1, <2>2
<1>5. ASSUME NEW t \in Threads, Await(t)
      PROVE  Single'
  BY <1>5 DEF Await, Single
<1> QED
  BY <1>1, <1>2, <1>3, <1>4, <1>5 DEF Next

\* For any number of threads: a guarding semaphore admits one thread at a time,
\* a thread outside a section holds nothing, and a guarding semaphore is free when
\* no thread is in a section.
THEOREM GuardingExcludes == Orderly /\ Guarded /\ Spec => [](Exclusive /\ NothingKept)
<1>1. Orderly /\ FlowInv /\ [Next]_vars => FlowInv'
  BY FlowNext
<1>2. Orderly /\ Guarded /\ FlowInv /\ Single /\ [Next]_vars => Single'
  BY SingleNext
<1>3. FlowInv /\ Single => Exclusive /\ NothingKept
  <2>1. Single => Exclusive
    BY DEF Single, Exclusive
  <2>2. ASSUME FlowInv, Single, \A t \in Threads : ~Busy(t), NEW s \in Guarding[mode]
        PROVE  sem[s] = 1
    BY <2>2 DEF FlowInv, Following, Single
  <2>3. FlowInv => \A t \in Threads : ~Busy(t) => held[t] = {}
    BY DEF FlowInv, Following
  <2> QED
    BY <2>1, <2>2, <2>3 DEF NothingKept
<1>4. Orderly /\ Guarded => Orderly' /\ Guarded'
  BY DEF Orderly, Guarded
<1> QED
  BY FlowInit, SingleInit, <1>1, <1>2, <1>3, <1>4, PTL DEF Spec

-----------------------------------------------------------------------------
(* The sections of the kernel *)

\* The constants of LockDiscipline are those of the kernel.
Kernel ==
    /\ Semaphores = KernelSemaphores /\ Modes = KernelModes
    /\ Sections = KernelSections /\ Height = KernelHeight /\ Guarding = KernelGuarding

\* h is what a thread holds before each step of p and after its last: nothing at
\* the ends, a semaphore taken only under higher ones, and none but those of X
\* posted without being held; an answer is awaited only if X has "await".
Trace(p, h, X) ==
    /\ h[1] = {} /\ h[Len(p) + 1] = {}
    /\ \A i \in 1..Len(p) :
        \/ /\ p[i].op = "wait" /\ h[i + 1] = h[i] \cup p[i].sems
           /\ \A s \in p[i].sems, r \in h[i] : Height[s] < Height[r]
        \/ /\ p[i].op = "post" /\ h[i + 1] = h[i] \ p[i].sems
           /\ p[i].sems \ X \subseteq h[i]
        \/ p[i].op = "await" /\ h[i + 1] = h[i] /\ "await" \in X

\* A stretch of a section that has such a trace and takes only semaphores below b:
\* it may run while semaphores of height b or more are held.
Calm(p, b, X) ==
    /\ p \in Seq(Steps)
    /\ \E h \in [1..(Len(p) + 1) -> SUBSET Semaphores] :
        /\ Trace(p, h, X)
        /\ \A i \in 1..(Len(p) + 1) : \A s \in h[i] : Height[s] < b

\* Names from higher to lower, all of them from low up to below b.
Descends(names, low, b) ==
    /\ names \in Seq(Semaphores) /\ names # <<>>
    /\ \A i \in 1..Len(names) : low <= Height[names[i]] /\ Height[names[i]] < b
    /\ \A i, j \in 1..Len(names) : i < j => Height[names[j]] < Height[names[i]]

-----------------------------------------------------------------------------
(* Traces *)

\* The trace of a section is what HeldAt computes from it.
LEMMA TraceHeld ==
    ASSUME NEW p \in Seq(Steps), NEW X, NEW h, Trace(p, h, X)
    PROVE  \A i \in 1..(Len(p) + 1) : HeldAt(p, i) = h[i]
<1> DEFINE T == { i \in 1..(Len(p) + 1) : HeldAt(p, i) # h[i] }
<1> SUFFICES ASSUME T # {} PROVE FALSE
  OBVIOUS
<1>0. Len(p) \in Nat
  OBVIOUS
<1>1. PICK x \in T : \A y \in T : ~(y < x)
  <2>1. T \in SUBSET Nat
    BY <1>0
  <2> HIDE DEF T
  <2> QED
    BY <2>1, LeastNumber
<1>2. x \in 1..(Len(p) + 1) /\ x # 1
  BY HeldFirst DEF Trace
<1>3. PICK i \in 1..Len(p) : x = i + 1
  <2>1. x - 1 \in 1..Len(p) /\ x = (x - 1) + 1
    BY <1>0, <1>2
  <2> QED
    BY <2>1
<1>4. HeldAt(p, i) = h[i]
  <2>1. i \in 1..(Len(p) + 1) /\ i < x
    BY <1>0, <1>3
  <2> QED
    BY <1>1, <2>1
<1>5. HeldAt(p, i + 1) = h[i + 1]
  <2>1. CASE p[i].op = "wait" /\ h[i + 1] = h[i] \cup p[i].sems
    BY <1>4, <2>1, HeldAfterWait
  <2>2. CASE p[i].op = "post" /\ h[i + 1] = h[i] \ p[i].sems
    BY <1>4, <2>2, HeldAfterPost
  <2>3. CASE p[i].op = "await" /\ h[i + 1] = h[i]
    BY <1>4, <2>3, HeldAfterAwait
  <2> QED
    BY <2>1, <2>2, <2>3 DEF Trace
<1> QED
  BY <1>3, <1>5

\* A calm section keeps the discipline, and posts only what it holds, but for X.
LEMMA CalmSection ==
    ASSUME NEW p, NEW b, NEW X, Calm(p, b, X)
    PROVE  /\ HeldAt(p, Len(p) + 1) = {}
           /\ \A i \in 1..Len(p) : p[i].op = "wait" =>
                \A s \in p[i].sems, r \in HeldAt(p, i) : Height[s] < Height[r]
           /\ \A i \in 1..Len(p) : p[i].op = "post" => p[i].sems \ X \subseteq HeldAt(p, i)
           /\ \A i \in 1..Len(p) : p[i].op = "await" => "await" \in X
<1>1. PICK h : Trace(p, h, X)
  BY DEF Calm
<1>2. p \in Seq(Steps) /\ Len(p) \in Nat
  BY DEF Calm
<1>3. \A i \in 1..(Len(p) + 1) : HeldAt(p, i) = h[i]
  BY <1>1, <1>2, TraceHeld
<1>4. Len(p) + 1 \in 1..(Len(p) + 1) /\ \A i \in 1..Len(p) : i \in 1..(Len(p) + 1)
  BY <1>2
<1> QED
  BY <1>1, <1>3, <1>4 DEF Trace

\* Doing nothing is calm.
LEMMA NothingCalm ==
    ASSUME NEW b, NEW X
    PROVE  Calm(<<>>, b, X)
<1> DEFINE h == [i \in 1..1 |-> {}]
<1>1. <<>> \in Seq(Steps) /\ Len(<<>>) = 0
  OBVIOUS
<1>2. h \in [1..(Len(<<>>) + 1) -> SUBSET Semaphores]
  BY <1>1
<1>3. Trace(<<>>, h, X)
  BY <1>1 DEF Trace
<1>4. \A i \in 1..(Len(<<>>) + 1) : \A s \in h[i] : Height[s] < b
  BY <1>1
<1> QED
  BY <1>1, <1>2, <1>3, <1>4 DEF Calm

\* A calm stretch is calm under higher semaphores, and when more may be posted.
LEMMA CalmMore ==
    ASSUME NEW b \in Nat, NEW c \in Nat, b <= c, NEW X, NEW Y, X \subseteq Y,
           NEW p, Calm(p, b, X)
    PROVE  Calm(p, c, Y)
<1>1. PICK h \in [1..(Len(p) + 1) -> SUBSET Semaphores] :
        Trace(p, h, X) /\ \A i \in 1..(Len(p) + 1) : \A s \in h[i] : Height[s] < b
  BY DEF Calm
<1>2. Trace(p, h, Y)
  BY <1>1 DEF Trace
<1>3. \A i \in 1..(Len(p) + 1) : \A s \in h[i] : Height[s] < c
  <2> SUFFICES ASSUME NEW i \in 1..(Len(p) + 1), NEW s \in h[i] PROVE Height[s] < c
    OBVIOUS
  <2>1. Height[s] \in Nat /\ Height[s] < b
    BY <1>1, LockAssumption
  <2> QED
    BY <2>1
<1> QED
  BY <1>1, <1>2, <1>3 DEF Calm

-----------------------------------------------------------------------------
(* How sections are put together *)

\* One calm stretch after another.
LEMMA CalmThen ==
    ASSUME NEW b, NEW X, NEW p, NEW q, Calm(p, b, X), Calm(q, b, X)
    PROVE  Calm(p \o q, b, X)
<1>1. PICK g \in [1..(Len(p) + 1) -> SUBSET Semaphores] :
        Trace(p, g, X) /\ \A i \in 1..(Len(p) + 1) : \A s \in g[i] : Height[s] < b
  BY DEF Calm
<1>2. PICK k \in [1..(Len(q) + 1) -> SUBSET Semaphores] :
        Trace(q, k, X) /\ \A i \in 1..(Len(q) + 1) : \A s \in k[i] : Height[s] < b
  BY DEF Calm
<1> DEFINE u == p \o q
           m == Len(p)
           n == Len(q)
           h == [i \in 1..(m + n + 1) |-> IF i <= m THEN g[i] ELSE k[i - m]]
<1>3. /\ p \in Seq(Steps) /\ q \in Seq(Steps) /\ m \in Nat /\ n \in Nat
      /\ u \in Seq(Steps) /\ Len(u) = m + n
      /\ \A i \in 1..(m + n) : u[i] = IF i <= m THEN p[i] ELSE q[i - m]
  BY DEF Calm
<1>4. h \in [1..(Len(u) + 1) -> SUBSET Semaphores]
  <2>1. \A i \in 1..(m + n + 1) : IF i <= m THEN i \in 1..(m + 1) ELSE i - m \in 1..(n + 1)
    BY <1>3
  <2> QED
    BY <1>3, <2>1
<1> HIDE DEF u, m, n
<1>5. \A i \in 1..(m + n + 1) :
        /\ h[i] = IF i <= m THEN g[i] ELSE k[i - m]
        /\ i <= m + 1 => h[i] = g[i]
  <2>1. g[m + 1] = {} /\ k[1] = {}
    BY <1>1, <1>2 DEF Trace, m
  <2>2. ASSUME NEW i \in 1..(m + n + 1), i <= m + 1 PROVE h[i] = g[i]
    <3>1. CASE i <= m
      BY <3>1
    <3>2. CASE i = m + 1
      <4>1. ~(i <= m) /\ i - m = 1
        BY <1>3, <3>2
      <4> QED
        BY <2>1, <3>2, <4>1
    <3> QED
      BY <1>3, <2>2, <3>1, <3>2
  <2> QED
    BY <2>2
<1> HIDE DEF h
<1>6. Trace(u, h, X)
  <2>1. h[1] = {} /\ h[Len(u) + 1] = {}
    <3>1. h[1] = g[1]
      <4>1. 1 \in 1..(m + n + 1) /\ 1 <= m + 1
        BY <1>3
      <4> QED
        BY <1>5, <4>1
    <3>2. h[m + n + 1] = k[n + 1]
      <4>1. m + n + 1 \in 1..(m + n + 1) /\ ~(m + n + 1 <= m) /\ (m + n + 1) - m = n + 1
        BY <1>3
      <4> QED
        BY <1>5, <4>1
    <3> QED
      BY <1>1, <1>2, <1>3, <3>1, <3>2 DEF Trace, m, n
  <2>2. ASSUME NEW i \in 1..Len(u), i <= m
        PROVE  i \in 1..Len(p) /\ u[i] = p[i] /\ h[i] = g[i] /\ h[i + 1] = g[i + 1]
    <3>1. i \in 1..(m + n) /\ i \in 1..(m + n + 1) /\ i + 1 \in 1..(m + n + 1) /\ i + 1 <= m + 1
      BY <1>3, <2>2
    <3> QED
      BY <1>3, <1>5, <2>2, <3>1 DEF m
  <2>3. ASSUME NEW i \in 1..Len(u), ~(i <= m)
        PROVE  /\ i - m \in 1..Len(q) /\ u[i] = q[i - m]
               /\ h[i] = k[i - m] /\ h[i + 1] = k[(i - m) + 1]
    <3>1. /\ i \in 1..(m + n) /\ i \in 1..(m + n + 1) /\ i + 1 \in 1..(m + n + 1)
          /\ ~(i + 1 <= m) /\ (i + 1) - m = (i - m) + 1 /\ i - m \in 1..n
      BY <1>3, <2>3
    <3> QED
      BY <1>3, <1>5, <2>3, <3>1 DEF n
  <2>4. ASSUME NEW i \in 1..Len(u)
        PROVE  \/ /\ u[i].op = "wait" /\ h[i + 1] = h[i] \cup u[i].sems
                  /\ \A s \in u[i].sems, r \in h[i] : Height[s] < Height[r]
               \/ /\ u[i].op = "post" /\ h[i + 1] = h[i] \ u[i].sems
                  /\ u[i].sems \ X \subseteq h[i]
               \/ u[i].op = "await" /\ h[i + 1] = h[i] /\ "await" \in X
    <3>1. CASE i <= m
      BY <1>1, <2>2, <3>1 DEF Trace
    <3>2. CASE ~(i <= m)
      <4>1. PICK j \in 1..Len(q) : j = i - m
        BY <2>3, <3>2
      <4>2. u[i] = q[j] /\ h[i] = k[j] /\ h[i + 1] = k[j + 1]
        BY <2>3, <3>2, <4>1
      <4> QED
        BY <1>2, <4>2 DEF Trace
    <3> QED
      BY <3>1, <3>2
  <2> QED
    BY <2>1, <2>4 DEF Trace
<1>7. \A i \in 1..(Len(u) + 1) : \A s \in h[i] : Height[s] < b
  <2> SUFFICES ASSUME NEW i \in 1..(Len(u) + 1), NEW s \in h[i] PROVE Height[s] < b
    OBVIOUS
  <2>1. i \in 1..(m + n + 1)
    BY <1>3
  <2>2. CASE i <= m
    <3>1. i \in 1..(Len(p) + 1) /\ h[i] = g[i]
      BY <1>3, <1>5, <2>1, <2>2 DEF m
    <3> QED
      BY <1>1, <3>1
  <2>3. CASE ~(i <= m)
    <3>1. i - m \in 1..(Len(q) + 1) /\ h[i] = k[i - m]
      BY <1>3, <1>5, <2>1, <2>3 DEF n
    <3> QED
      BY <1>2, <3>1
  <2> QED
    BY <2>2, <2>3
<1> QED
  BY <1>3, <1>4, <1>6, <1>7 DEF Calm, u

\* A calm stretch within semaphores that are above it.
LEMMA CalmWithin ==
    ASSUME NEW names, NEW low \in Nat, NEW b \in Nat, Descends(names, low, b), NEW X,
           \A i \in 1..Len(names) : names[i] \notin X,
           NEW p, Calm(p, low, X)
    PROVE  LET u == Lock(names) \o p \o Unlock({names[i] : i \in 1..Len(names)})
           IN  Calm(u, b, X) /\ u # <<>>
<1>1. PICK k \in [1..(Len(p) + 1) -> SUBSET Semaphores] :
        Trace(p, k, X) /\ \A i \in 1..(Len(p) + 1) : \A s \in k[i] : Height[s] < low
  BY DEF Calm
<1> DEFINE n == Len(names)
           m == Len(p)
           S == {names[i] : i \in 1..n}
           u == Lock(names) \o p \o Unlock(S)
           Taken(i) == {names[j] : j \in 1..(i - 1)}
           h == [i \in 1..(n + m + 2) |->
                    IF i <= n THEN Taken(i) ELSE IF i <= n + m + 1 THEN S \cup k[i - n] ELSE {}]
<1>2. /\ names \in Seq(Semaphores) /\ n \in Nat /\ n > 0 /\ p \in Seq(Steps) /\ m \in Nat
      /\ \A i \in 1..n : /\ names[i] \in Semaphores /\ Height[names[i]] \in Nat
                         /\ low <= Height[names[i]] /\ Height[names[i]] < b
      /\ \A i, j \in 1..n : i < j => Height[names[j]] < Height[names[i]]
  BY LockAssumption DEF Descends, Calm
<1>3. S \subseteq Semaphores /\ \A s \in S : Height[s] \in Nat /\ low <= Height[s] /\ Height[s] < b
  BY <1>2
<1>4. /\ u \in Seq(Steps) /\ Len(u) = n + m + 1 /\ u # <<>>
      /\ \A i \in 1..n : u[i] = [op |-> "wait", sems |-> {names[i]}]
      /\ \A i \in 1..m : u[n + i] = p[i]
      /\ u[n + m + 1] = [op |-> "post", sems |-> S]
  <2>1. \A i \in 1..n : [op |-> "wait", sems |-> {names[i]}] \in Steps
    BY <1>2 DEF Steps
  <2>2. Lock(names) \in Seq(Steps) /\ Len(Lock(names)) = n
        /\ \A i \in 1..n : Lock(names)[i] = [op |-> "wait", sems |-> {names[i]}]
    BY <1>2, <2>1 DEF Lock
  <2>3. [op |-> "post", sems |-> S] \in Steps
    BY <1>3 DEF Steps
  <2>4. Unlock(S) \in Seq(Steps) /\ Len(Unlock(S)) = 1 /\ Unlock(S)[1] = [op |-> "post", sems |-> S]
    BY <2>3 DEF Unlock
  <2> HIDE DEF S, n
  <2>5. PICK a \in Seq(Steps) : a = Lock(names)
    BY <2>2
  <2>6. PICK z \in Seq(Steps) : z = Unlock(S)
    BY <2>4
  <2>7. /\ a \o p \in Seq(Steps) /\ Len(a \o p) = n + m
        /\ \A i \in 1..(n + m) : (a \o p)[i] = IF i <= n THEN a[i] ELSE p[i - n]
    <3>1. /\ a \o p \in Seq(Steps) /\ Len(a \o p) = Len(a) + Len(p)
          /\ \A i \in 1..(Len(a) + Len(p)) : (a \o p)[i] = IF i <= Len(a) THEN a[i] ELSE p[i - Len(a)]
      BY <1>2
    <3>2. Len(a) = n /\ Len(p) = m
      BY <2>2, <2>5
    <3> QED
      BY <3>1, <3>2
  <2>8. PICK w \in Seq(Steps) : w = a \o p
    BY <2>7
  <2>9. /\ w \o z \in Seq(Steps) /\ Len(w \o z) = n + m + 1
        /\ \A i \in 1..(n + m + 1) : (w \o z)[i] = IF i <= n + m THEN w[i] ELSE z[i - (n + m)]
    <3>1. /\ w \o z \in Seq(Steps) /\ Len(w \o z) = Len(w) + Len(z)
          /\ \A i \in 1..(Len(w) + Len(z)) : (w \o z)[i] = IF i <= Len(w) THEN w[i] ELSE z[i - Len(w)]
      OBVIOUS
    <3>2. Len(w) = n + m /\ Len(z) = 1
      BY <2>4, <2>6, <2>7, <2>8
    <3> QED
      BY <3>1, <3>2
  <2>10. u = w \o z
    BY <2>5, <2>6, <2>8
  <2> HIDE DEF u
  <2>11. \A i \in 1..n : u[i] = a[i]
    <3> SUFFICES ASSUME NEW i \in 1..n PROVE u[i] = a[i]
      OBVIOUS
    <3>1. i \in 1..(n + m) /\ i \in 1..(n + m + 1) /\ i <= n /\ i <= n + m
      BY <1>2
    <3> QED
      BY <2>7, <2>8, <2>9, <2>10, <3>1
  <2>12. \A i \in 1..m : u[n + i] = p[i]
    <3> SUFFICES ASSUME NEW i \in 1..m PROVE u[n + i] = p[i]
      OBVIOUS
    <3>1. /\ n + i \in 1..(n + m) /\ n + i \in 1..(n + m + 1)
          /\ ~(n + i <= n) /\ n + i <= n + m /\ (n + i) - n = i
      BY <1>2
    <3> QED
      BY <2>7, <2>8, <2>9, <2>10, <3>1
  <2>13. u[n + m + 1] = z[1]
    <3>1. n + m + 1 \in 1..(n + m + 1) /\ ~(n + m + 1 <= n + m) /\ (n + m + 1) - (n + m) = 1
      BY <1>2
    <3> QED
      BY <2>9, <2>10, <3>1
  <2>14. u # <<>>
    BY <1>2, <2>9, <2>10
  <2> QED
    BY <2>2, <2>4, <2>5, <2>6, <2>9, <2>10, <2>11, <2>12, <2>13, <2>14
<1>5. /\ k[1] = {} /\ k[m + 1] = {}
      /\ \A i \in 1..m :
        \/ /\ p[i].op = "wait" /\ k[i + 1] = k[i] \cup p[i].sems
           /\ \A s \in p[i].sems, r \in k[i] : Height[s] < Height[r]
        \/ /\ p[i].op = "post" /\ k[i + 1] = k[i] \ p[i].sems
           /\ p[i].sems \ X \subseteq k[i]
        \/ p[i].op = "await" /\ k[i + 1] = k[i] /\ "await" \in X
  BY <1>1 DEF Trace
<1>6. \A i \in 1..(m + 1) : k[i] \subseteq Semaphores /\ \A s \in k[i] : Height[s] \in Nat /\ Height[s] < low
  BY <1>1, LockAssumption
<1> HIDE DEF u
<1>7. /\ \A i \in 1..(n + 1) : Taken(i) \subseteq S
      /\ Taken(1) = {} /\ Taken(n + 1) = S
      /\ \A i \in 1..n : Taken(i + 1) = Taken(i) \cup {names[i]}
  <2>1. Taken(1) = {} /\ Taken(n + 1) = S
    BY <1>2
  <2>2. \A i \in 1..(n + 1) : \A j \in 1..(i - 1) : j \in 1..n
    BY <1>2
  <2>3. \A i \in 1..n : 1..((i + 1) - 1) = 1..(i - 1) \cup {i}
    BY <1>2
  <2> QED
    BY <2>1, <2>2, <2>3
<1>8. \A i \in 1..n : \A r \in Taken(i) : Height[names[i]] < Height[r]
  <2>1. \A i \in 1..n : \A j \in 1..(i - 1) : j \in 1..n /\ j < i
    BY <1>2
  <2> QED
    BY <1>2, <2>1
<1>9. \A s \in S : s \notin X
  OBVIOUS
<1> HIDE DEF S, Taken
<1>10. /\ \A i \in 1..(n + 1) : h[i] = Taken(i)
       /\ \A i \in 1..(m + 1) : h[n + i] = S \cup k[i]
       /\ h[n + m + 2] = {}
  <2>1. /\ \A i \in 1..(n + 1) : i \in 1..(n + m + 2) /\ (i <= n \/ i = n + 1)
        /\ n + 1 \in 1..(n + m + 2) /\ ~(n + 1 <= n) /\ n + 1 <= n + m + 1 /\ (n + 1) - n = 1
        /\ \A i \in 1..(m + 1) : /\ n + i \in 1..(n + m + 2) /\ ~(n + i <= n) /\ n + i <= n + m + 1
                                 /\ (n + i) - n = i
        /\ n + m + 2 \in 1..(n + m + 2) /\ ~(n + m + 2 <= n) /\ ~(n + m + 2 <= n + m + 1)
    BY <1>2
  <2>2. ASSUME NEW i \in 1..(n + 1) PROVE h[i] = Taken(i)
    <3>1. CASE i <= n
      BY <2>1, <3>1
    <3>2. CASE i = n + 1
      <4>1. h[n + 1] = S \cup k[1]
        BY <2>1
      <4> QED
        BY <1>5, <1>7, <3>2, <4>1
    <3> QED
      BY <2>1, <3>1, <3>2
  <2> QED
    BY <2>1, <2>2
<1>11. h \in [1..(Len(u) + 1) -> SUBSET Semaphores]
  <2>1. ASSUME NEW i \in 1..(n + m + 2)
        PROVE  (IF i <= n THEN Taken(i) ELSE IF i <= n + m + 1 THEN S \cup k[i - n] ELSE {})
                  \subseteq Semaphores
    <3>1. CASE i <= n
      <4>1. i \in 1..(n + 1)
        BY <1>2, <3>1
      <4> QED
        BY <1>3, <1>7, <3>1, <4>1
    <3>2. CASE ~(i <= n) /\ i <= n + m + 1
      <4>1. i - n \in 1..(m + 1)
        BY <1>2, <3>2
      <4> QED
        BY <1>3, <1>6, <3>2, <4>1
    <3>3. CASE ~(i <= n) /\ ~(i <= n + m + 1)
      BY <3>3
    <3> QED
      BY <3>1, <3>2, <3>3
  <2>2. 1..(Len(u) + 1) = 1..(n + m + 2)
    BY <1>2, <1>4
  <2> QED
    BY <2>1, <2>2
<1> HIDE DEF h, n, m
<1>12. /\ n \in Nat /\ m \in Nat /\ n > 0 /\ Len(u) = n + m + 1
       /\ \A i \in 1..Len(u) : \/ i \in 1..n
                               \/ \E j \in 1..m : i = n + j
                               \/ i = n + m + 1
  <2>1. ASSUME NEW i \in 1..(n + m + 1)
        PROVE  i \in 1..n \/ (i - n \in 1..m /\ i = n + (i - n)) \/ i = n + m + 1
    <3>1. n \in Nat /\ m \in Nat
      BY <1>2
    <3> QED
      BY <3>1
  <2> QED
    BY <1>2, <1>4, <2>1
<1>13. Trace(u, h, X)
  <2>1. h[1] = {} /\ h[Len(u) + 1] = {}
    <3>1. 1 \in 1..(n + 1) /\ Len(u) + 1 = n + m + 2
      BY <1>12
    <3> QED
      BY <1>7, <1>10, <3>1
  <2>2. ASSUME NEW i \in 1..n
        PROVE  /\ u[i].op = "wait" /\ h[i + 1] = h[i] \cup u[i].sems
               /\ \A s \in u[i].sems, r \in h[i] : Height[s] < Height[r]
    <3>1. i \in 1..(n + 1) /\ i + 1 \in 1..(n + 1)
      BY <1>12
    <3>2. u[i].op = "wait" /\ u[i].sems = {names[i]}
      <4>1. u[i] = [op |-> "wait", sems |-> {names[i]}]
        BY <1>4
      <4> QED
        BY <4>1
    <3>3. h[i] = Taken(i) /\ h[i + 1] = Taken(i) \cup {names[i]}
      BY <1>7, <1>10, <3>1
    <3> QED
      BY <1>8, <3>2, <3>3
  <2>3. ASSUME NEW j \in 1..m
        PROVE  \/ /\ u[n + j].op = "wait" /\ h[n + j + 1] = h[n + j] \cup u[n + j].sems
                  /\ \A s \in u[n + j].sems, r \in h[n + j] : Height[s] < Height[r]
               \/ /\ u[n + j].op = "post" /\ h[n + j + 1] = h[n + j] \ u[n + j].sems
                  /\ u[n + j].sems \ X \subseteq h[n + j]
               \/ u[n + j].op = "await" /\ h[n + j + 1] = h[n + j] /\ "await" \in X
    <3>1. j \in 1..(m + 1) /\ j + 1 \in 1..(m + 1) /\ n + j + 1 = n + (j + 1)
      BY <1>12
    <3>2. u[n + j] = p[j] /\ h[n + j] = S \cup k[j] /\ h[n + j + 1] = S \cup k[j + 1]
      BY <1>4, <1>10, <3>1
    <3>3. CASE /\ p[j].op = "wait" /\ k[j + 1] = k[j] \cup p[j].sems
               /\ \A s \in p[j].sems, r \in k[j] : Height[s] < Height[r]
      <4>1. \A s \in p[j].sems : Height[s] \in Nat /\ Height[s] < low
        BY <1>6, <3>1, <3>3
      <4>2. \A s \in p[j].sems, r \in S : Height[s] < Height[r]
        BY <1>3, <4>1
      <4> QED
        BY <3>2, <3>3, <4>2
    <3>4. CASE /\ p[j].op = "post" /\ k[j + 1] = k[j] \ p[j].sems
               /\ p[j].sems \ X \subseteq k[j]
      <4>1. \A s \in S : s \notin k[j]
        BY <1>3, <1>6, <3>1
      <4>2. \A s \in S : s \notin p[j].sems
        BY <1>9, <3>4, <4>1
      <4> QED
        BY <3>2, <3>4, <4>2
    <3>5. CASE p[j].op = "await" /\ k[j + 1] = k[j] /\ "await" \in X
      BY <3>2, <3>5
    <3> QED
      BY <1>5, <3>3, <3>4, <3>5
  <2>4. /\ u[n + m + 1].op = "post" /\ h[n + m + 2] = h[n + m + 1] \ u[n + m + 1].sems
        /\ u[n + m + 1].sems \ X \subseteq h[n + m + 1]
    <3>1. m + 1 \in 1..(m + 1) /\ n + m + 1 = n + (m + 1)
      BY <1>12
    <3>2. h[n + m + 1] = S
      <4>1. h[n + (m + 1)] = S \cup k[m + 1]
        BY <1>10, <3>1
      <4> QED
        BY <1>5, <3>1, <4>1
    <3> QED
      BY <1>4, <1>10, <3>2
  <2>5. n + m + 1 + 1 = n + m + 2
    BY <1>12
  <2>6. ASSUME NEW i \in 1..Len(u)
        PROVE  \/ /\ u[i].op = "wait" /\ h[i + 1] = h[i] \cup u[i].sems
                  /\ \A s \in u[i].sems, r \in h[i] : Height[s] < Height[r]
               \/ /\ u[i].op = "post" /\ h[i + 1] = h[i] \ u[i].sems
                  /\ u[i].sems \ X \subseteq h[i]
               \/ u[i].op = "await" /\ h[i + 1] = h[i] /\ "await" \in X
    <3>1. CASE i \in 1..n
      BY <2>2, <3>1
    <3>2. CASE \E j \in 1..m : i = n + j
      BY <2>3, <3>2
    <3>3. CASE i = n + m + 1
      BY <2>4, <2>5, <3>3
    <3> QED
      BY <1>12, <3>1, <3>2, <3>3
  <2> QED
    BY <2>1, <2>6 DEF Trace
<1>14. \A i \in 1..(Len(u) + 1) : \A s \in h[i] : Height[s] < b
  <2> SUFFICES ASSUME NEW i \in 1..(Len(u) + 1), NEW s \in h[i] PROVE Height[s] < b
    OBVIOUS
  <2>1. \/ i \in 1..(n + 1)
        \/ i - n \in 1..(m + 1) /\ i = n + (i - n)
        \/ i = n + m + 2
    BY <1>12
  <2>2. low < b
    <3>1. 1 \in 1..n
      BY <1>12
    <3>2. Height[names[1]] \in Nat /\ low <= Height[names[1]] /\ Height[names[1]] < b
      BY <1>2, <3>1 DEF n
    <3> QED
      BY <3>2
  <2>3. CASE i \in 1..(n + 1)
    BY <1>3, <1>7, <1>10, <2>3
  <2>4. CASE i - n \in 1..(m + 1) /\ i = n + (i - n)
    <3>1. s \in S \cup k[i - n]
      BY <1>10, <2>4
    <3>2. CASE s \in S
      BY <1>3, <3>2
    <3>3. CASE s \in k[i - n]
      <4>1. Height[s] \in Nat /\ Height[s] < low
        BY <1>6, <2>4, <3>3
      <4> QED
        BY <2>2, <4>1
    <3> QED
      BY <3>1, <3>2, <3>3
  <2>5. CASE i = n + m + 2
    BY <1>10, <2>5
  <2> QED
    BY <2>1, <2>3, <2>4, <2>5
<1>15. Calm(u, b, X)
  BY <1>4, <1>11, <1>13, <1>14 DEF Calm
<1> QED
  BY <1>4, <1>15 DEF u, S, n

\* The semaphores are taken in turn and posted at once.
LEMMA CalmAll ==
    ASSUME NEW names, NEW low \in Nat, NEW b \in Nat, Descends(names, low, b)
    PROVE  Calm(All(names), b, {}) /\ All(names) # <<>>
<1> DEFINE S == {names[i] : i \in 1..Len(names)}
<1>1. Calm(<<>>, low, {})
  BY NothingCalm
<1>2. Calm(Lock(names) \o <<>> \o Unlock(S), b, {}) /\ Lock(names) \o <<>> \o Unlock(S) # <<>>
  BY <1>1, CalmWithin
<1>3. Lock(names) \in Seq(Steps)
  <2>1. names \in Seq(Semaphores) /\ Len(names) \in Nat
    BY DEF Descends
  <2>2. \A i \in 1..Len(names) : [op |-> "wait", sems |-> {names[i]}] \in Steps
    BY <2>1 DEF Steps
  <2> QED
    BY <2>1, <2>2 DEF Lock
<1>4. Lock(names) \o <<>> = Lock(names)
  BY <1>3, ConcatEmptySeq
<1> QED
  BY <1>2, <1>4 DEF All

\* One name.
LEMMA Descend1 ==
    ASSUME NEW a \in Semaphores, NEW low \in Nat, NEW b \in Nat, low <= Height[a], Height[a] < b
    PROVE  Descends(<<a>>, low, b)
<1>1. <<a>> \in Seq(Semaphores) /\ Len(<<a>>) = 1 /\ <<a>>[1] = a /\ <<a>> # <<>>
  OBVIOUS
<1>2. \A i \in 1..1 : i = 1
  OBVIOUS
<1> QED
  BY <1>1, <1>2 DEF Descends

\* Two names, each lower than the one before.
LEMMA Descend2 ==
    ASSUME NEW a1 \in Semaphores, NEW a2 \in Semaphores, NEW low \in Nat, NEW b \in Nat,
           low <= Height[a2], Height[a2] < Height[a1], Height[a1] < b
    PROVE  Descends(<<a1, a2>>, low, b)
<1> DEFINE w == <<a1, a2>>
<1>1. w \in Seq(Semaphores) /\ Len(w) = 2 /\ w[1] = a1 /\ w[2] = a2 /\ w # <<>>
  OBVIOUS
<1>2. \A i \in 1..2 : i = 1 \/ i = 2
  OBVIOUS
<1>3. Height[a1] \in Nat /\ Height[a2] \in Nat
  BY LockAssumption
<1> HIDE DEF w
<1>4. Descends(w, low, b)
  BY <1>1, <1>2, <1>3 DEF Descends
<1> QED
  BY <1>4 DEF w

\* Three names, each lower than the one before.
LEMMA Descend3 ==
    ASSUME NEW a1 \in Semaphores, NEW a2 \in Semaphores, NEW a3 \in Semaphores,
           NEW low \in Nat, NEW b \in Nat,
           low <= Height[a3], Height[a3] < Height[a2], Height[a2] < Height[a1], Height[a1] < b
    PROVE  Descends(<<a1, a2, a3>>, low, b)
<1> DEFINE w == <<a1, a2, a3>>
<1>1. w \in Seq(Semaphores) /\ Len(w) = 3 /\ w[1] = a1 /\ w[2] = a2 /\ w[3] = a3 /\ w # <<>>
  OBVIOUS
<1>2. \A i \in 1..3 : i = 1 \/ i = 2 \/ i = 3
  OBVIOUS
<1>3. Height[a1] \in Nat /\ Height[a2] \in Nat /\ Height[a3] \in Nat
  BY LockAssumption
<1> HIDE DEF w
<1>4. Descends(w, low, b)
  BY <1>1, <1>2, <1>3 DEF Descends
<1> QED
  BY <1>4 DEF w

\* Four names, each lower than the one before.
LEMMA Descend4 ==
    ASSUME NEW a1 \in Semaphores, NEW a2 \in Semaphores, NEW a3 \in Semaphores,
           NEW a4 \in Semaphores, NEW low \in Nat, NEW b \in Nat,
           low <= Height[a4], Height[a4] < Height[a3], Height[a3] < Height[a2],
           Height[a2] < Height[a1], Height[a1] < b
    PROVE  Descends(<<a1, a2, a3, a4>>, low, b)
<1> DEFINE w == <<a1, a2, a3, a4>>
<1>1. /\ w \in Seq(Semaphores) /\ Len(w) = 4 /\ w # <<>>
      /\ w[1] = a1 /\ w[2] = a2 /\ w[3] = a3 /\ w[4] = a4
  OBVIOUS
<1>2. \A i \in 1..4 : i = 1 \/ i = 2 \/ i = 3 \/ i = 4
  OBVIOUS
<1>3. Height[a1] \in Nat /\ Height[a2] \in Nat /\ Height[a3] \in Nat /\ Height[a4] \in Nat
  BY LockAssumption
<1> HIDE DEF w
<1>4. Descends(w, low, b)
  BY <1>1, <1>2, <1>3 DEF Descends
<1> QED
  BY <1>4 DEF w

\* Five names, each lower than the one before.
LEMMA Descend5 ==
    ASSUME NEW a1 \in Semaphores, NEW a2 \in Semaphores, NEW a3 \in Semaphores,
           NEW a4 \in Semaphores, NEW a5 \in Semaphores, NEW low \in Nat, NEW b \in Nat,
           low <= Height[a5], Height[a5] < Height[a4], Height[a4] < Height[a3],
           Height[a3] < Height[a2], Height[a2] < Height[a1], Height[a1] < b
    PROVE  Descends(<<a1, a2, a3, a4, a5>>, low, b)
<1> DEFINE w == <<a1, a2, a3, a4, a5>>
<1>1. /\ w \in Seq(Semaphores) /\ Len(w) = 5 /\ w # <<>>
      /\ w[1] = a1 /\ w[2] = a2 /\ w[3] = a3 /\ w[4] = a4 /\ w[5] = a5
  OBVIOUS
<1>2. \A i \in 1..5 : i = 1 \/ i = 2 \/ i = 3 \/ i = 4 \/ i = 5
  OBVIOUS
<1>3. /\ Height[a1] \in Nat /\ Height[a2] \in Nat /\ Height[a3] \in Nat
      /\ Height[a4] \in Nat /\ Height[a5] \in Nat
  BY LockAssumption
<1> HIDE DEF w
<1>4. Descends(w, low, b)
  BY <1>1, <1>2, <1>3, SMTT(30) DEF Descends
<1> QED
  BY <1>4 DEF w

-----------------------------------------------------------------------------
(* The order of the kernel's semaphores *)

\* A semaphore of Order has the height of its place.
LEMMA HeightOf ==
    ASSUME NEW i \in 1..12
    PROVE  Order[i] \in KernelSemaphores /\ KernelHeight[Order[i]] = 12 - i
<1>1. /\ Len(Order) = 12 /\ DOMAIN Order = 1..12
      /\ Order[1] = "io_connections" /\ Order[2] = "io_requests" /\ Order[3] = "io_queue"
      /\ Order[4] = "cpu_connections" /\ Order[5] = "ready" /\ Order[6] = "cpu"
      /\ Order[7] = "new" /\ Order[8] = "exec" /\ Order[9] = "blocked"
      /\ Order[10] = "susp_blocked" /\ Order[11] = "susp_ready" /\ Order[12] = "exit"
  BY DEF Order
<1>2. \A j \in 1..12 : j = 1 \/ j = 2 \/ j = 3 \/ j = 4 \/ j = 5 \/ j = 6 \/ j = 7 \/ j = 8
                       \/ j = 9 \/ j = 10 \/ j = 11 \/ j = 12
  OBVIOUS
<1>3. Order[i] \in KernelSemaphores
  BY <1>1, <1>2 DEF KernelSemaphores
<1>4. ASSUME NEW j \in 1..12, Order[j] = Order[i] PROVE j = i
  BY <1>1, <1>2, <1>4
<1>5. (CHOOSE j \in DOMAIN Order : Order[j] = Order[i]) = i
  BY <1>1, <1>4
<1> QED
  BY <1>1, <1>3, <1>5 DEF KernelHeight

\* The heights of the kernel's semaphores.
LEMMA Heights ==
    ASSUME Kernel
    PROVE  /\ Height["io_connections"] = 11 /\ Height["io_requests"] = 10
           /\ Height["io_queue"] = 9 /\ Height["cpu_connections"] = 8 /\ Height["ready"] = 7
           /\ Height["cpu"] = 6 /\ Height["new"] = 5 /\ Height["exec"] = 4
           /\ Height["blocked"] = 3 /\ Height["susp_blocked"] = 2
           /\ Height["susp_ready"] = 1 /\ Height["exit"] = 0
           /\ "io_connections" \in Semaphores /\ "io_requests" \in Semaphores
           /\ "io_queue" \in Semaphores /\ "cpu_connections" \in Semaphores
           /\ "ready" \in Semaphores /\ "cpu" \in Semaphores /\ "new" \in Semaphores
           /\ "exec" \in Semaphores /\ "blocked" \in Semaphores
           /\ "susp_blocked" \in Semaphores /\ "susp_ready" \in Semaphores
           /\ "exit" \in Semaphores
<1>1. /\ Order[1] = "io_connections" /\ Order[2] = "io_requests" /\ Order[3] = "io_queue"
      /\ Order[4] = "cpu_connections" /\ Order[5] = "ready" /\ Order[6] = "cpu"
      /\ Order[7] = "new" /\ Order[8] = "exec" /\ Order[9] = "blocked"
      /\ Order[10] = "susp_blocked" /\ Order[11] = "susp_ready" /\ Order[12] = "exit"
  BY DEF Order
<1>2. \A i \in 1..12 : Height[Order[i]] = 12 - i /\ Order[i] \in Semaphores
  BY HeightOf DEF Kernel
<1> QED
  BY <1>1, <1>2

-----------------------------------------------------------------------------
(* Sets of sections *)

\* Every stretch of a set is calm, and none is empty.
Calms(P, b, X) == \A p \in P : Calm(p, b, X)
Begun(P) == <<>> \notin P

\* The stretches of a set under semaphores that are above them.
LEMMA WithinCalms ==
    ASSUME NEW names, NEW low \in Nat, NEW b \in Nat, Descends(names, low, b), NEW X,
           \A i \in 1..Len(names) : names[i] \notin X,
           NEW inner, Calms(inner, low, X)
    PROVE  Calms(Within(names, inner), b, X) /\ Begun(Within(names, inner))
<1> SUFFICES ASSUME NEW u \in Within(names, inner) PROVE Calm(u, b, X) /\ u # <<>>
  BY DEF Calms, Begun
<1>1. PICK p \in inner : u = Lock(names) \o p \o Unlock({names[i] : i \in 1..Len(names)})
  BY DEF Within
<1>2. Calm(p, low, X)
  BY DEF Calms
<1> QED
  BY <1>1, <1>2, CalmWithin

\* The stretches of one set after those of another.
LEMMA ThenCalms ==
    ASSUME NEW b, NEW X, NEW P, NEW Q, Calms(P, b, X), Calms(Q, b, X)
    PROVE  Calms(Then(P, Q), b, X) /\ (Begun(P) => Begun(Then(P, Q)))
<1> SUFFICES ASSUME NEW u \in Then(P, Q)
             PROVE  Calm(u, b, X) /\ (Begun(P) => u # <<>>)
  BY DEF Calms, Begun
<1>0. PICK p \in P, q \in Q : u = p \o q
  BY DEF Then
<1>1. Calm(p \o q, b, X)
  BY CalmThen DEF Calms
<1>2. p \in Seq(Steps) /\ q \in Seq(Steps)
  BY DEF Calms, Calm
<1>3. p # <<>> => p \o q # <<>>
  BY <1>2, ConcatEqualIffEmpty, ConcatProperties
<1> QED
  BY <1>0, <1>1, <1>3 DEF Begun

\* CalmMore for a set.
LEMMA CalmsMore ==
    ASSUME NEW b \in Nat, NEW c \in Nat, b <= c, NEW X, NEW Y, X \subseteq Y,
           NEW P, Calms(P, b, X)
    PROVE  Calms(P, c, Y)
BY CalmMore DEF Calms

-----------------------------------------------------------------------------
(* The schedulers *)

\* What run_short_scheduler may post without holding it, and that it may await.
Extra(m) == IF m = "preemptive" THEN {"exec", "await"} ELSE {}

\* The paths of run_short_scheduler that do not preempt.
LEMMA ShortPlain ==
    ASSUME Kernel
    PROVE  Calms(short_plain, 9, {}) /\ Begun(short_plain)
<1>1. Descends(<<"cpu_connections", "ready">>, 0, 9)
  BY Heights, Descend2
<1>2. Descends(<<"cpu_connections", "ready", "cpu">>, 0, 9)
  BY Heights, Descend3
<1>3. Descends(<<"cpu_connections", "ready", "cpu", "exec">>, 0, 9)
  BY Heights, Descend4
<1>4. /\ Calm(All(<<"cpu_connections", "ready">>), 9, {})
      /\ All(<<"cpu_connections", "ready">>) # <<>>
  BY <1>1, CalmAll
<1>5. /\ Calm(All(<<"cpu_connections", "ready", "cpu">>), 9, {})
      /\ All(<<"cpu_connections", "ready", "cpu">>) # <<>>
  BY <1>2, CalmAll
<1>6. /\ Calm(All(<<"cpu_connections", "ready", "cpu", "exec">>), 9, {})
      /\ All(<<"cpu_connections", "ready", "cpu", "exec">>) # <<>>
  BY <1>3, CalmAll
<1> QED
  BY <1>4, <1>5, <1>6 DEF short_plain, Calms, Begun

\* A sequence with one step more.
LEMMA OneMore ==
    ASSUME NEW s \in Seq(Steps), NEW t \in Seq(Steps), NEW x \in Steps, Len(t) = Len(s) + 1,
           \A i \in 1..Len(s) : t[i] = s[i], t[Len(s) + 1] = x
    PROVE  s \o <<x>> = t
<1>1. Append(s, x) \in Seq(Steps) /\ Len(Append(s, x)) = Len(t)
  OBVIOUS
<1>2. \A i \in 1..Len(t) : Append(s, x)[i] = t[i]
  OBVIOUS
<1>3. Append(s, x) = t
  BY <1>1, <1>2, SeqEqual
<1> QED
  BY <1>3, AppendIsConcat

\* The paths that preempt: sem_exec is posted in the middle, and once more at
\* the end if the answer was for another process.
LEMMA ShortPreempts ==
    ASSUME Kernel
    PROVE  Calms(short_preempts, 9, {"exec", "await"}) /\ Begun(short_preempts)
<1> DEFINE W(s) == [op |-> "wait", sems |-> {s}]
           X == {"exec", "await"}
           H == {"cpu_connections", "ready", "cpu"}
           w1 == W("cpu_connections")
           w2 == W("ready")
           w3 == W("cpu")
           w4 == W("exec")
           v == [op |-> "post", sems |-> {"exec"}]
           r == [op |-> "await", sems |-> {}]
           e == [op |-> "post", sems |-> {"cpu_connections", "ready", "cpu", "exec"}]
           a == <<w1, w2, w3, w4, v, r, w4, e>>
           z == <<w1, w2, w3, w4, v, r, e>>
           ha == <<{}, {"cpu_connections"}, {"cpu_connections", "ready"}, H, H \cup {"exec"}, H, H,
                   H \cup {"exec"}, {}>>
           hz == <<{}, {"cpu_connections"}, {"cpu_connections", "ready"}, H, H \cup {"exec"}, H, H, {}>>
<1>2. /\ w1 \in Steps /\ w2 \in Steps /\ w3 \in Steps /\ w4 \in Steps
      /\ v \in Steps /\ r \in Steps /\ e \in Steps
  BY DEF Steps, Kernel, KernelSemaphores
<1>1. short_preempts = {a, z}
  <2>1. /\ Lock(<<"cpu_connections", "ready", "cpu", "exec">>) = <<w1, w2, w3, w4>>
        /\ Lock(<<"exec">>) = <<w4>>
    <3>1. \A i \in 1..4 : i = 1 \/ i = 2 \/ i = 3 \/ i = 4
      OBVIOUS
    <3>2. Lock(<<"exec">>) = <<w4>>
      BY DEF Lock
    <3> QED
      BY <3>1, <3>2 DEF Lock
  <2>2. /\ <<w1, w2, w3, w4>> \o <<v>> = <<w1, w2, w3, w4, v>>
        /\ <<w1, w2, w3, w4, v>> \o <<r>> = <<w1, w2, w3, w4, v, r>>
        /\ <<w1, w2, w3, w4, v, r>> \o <<w4>> = <<w1, w2, w3, w4, v, r, w4>>
        /\ <<w1, w2, w3, w4, v, r, w4>> \o <<e>> = a
        /\ <<w1, w2, w3, w4, v, r>> \o <<e>> = z
    <3> HIDE DEF W, w1, w2, w3, w4, v, r, e
    <3>1. <<w1, w2, w3, w4>> \o <<v>> = <<w1, w2, w3, w4, v>>
      <4> DEFINE s == <<w1, w2, w3, w4>>
                 t == <<w1, w2, w3, w4, v>>
      <4>1. /\ s \in Seq(Steps) /\ t \in Seq(Steps) /\ Len(s) = 4 /\ Len(t) = 5
            /\ t[1] = s[1] /\ t[2] = s[2] /\ t[3] = s[3] /\ t[4] = s[4] /\ t[5] = v
        BY <1>2
      <4>2. \A i \in 1..4 : i = 1 \/ i = 2 \/ i = 3 \/ i = 4
        OBVIOUS
      <4> HIDE DEF s, t
      <4>3. (\A i \in 1..Len(s) : t[i] = s[i]) /\ Len(t) = Len(s) + 1 /\ t[Len(s) + 1] = v
        BY <4>1, <4>2
      <4>4. s \o <<v>> = t
        BY <1>2, <4>1, <4>3, OneMore
      <4> QED
        BY <4>4 DEF s, t
    <3>2. <<w1, w2, w3, w4, v>> \o <<r>> = <<w1, w2, w3, w4, v, r>>
      <4> DEFINE s == <<w1, w2, w3, w4, v>>
                 t == <<w1, w2, w3, w4, v, r>>
      <4>1. /\ s \in Seq(Steps) /\ t \in Seq(Steps) /\ Len(s) = 5 /\ Len(t) = 6
            /\ t[1] = s[1] /\ t[2] = s[2] /\ t[3] = s[3] /\ t[4] = s[4] /\ t[5] = s[5] /\ t[6] = r
        BY <1>2
      <4>2. \A i \in 1..5 : i = 1 \/ i = 2 \/ i = 3 \/ i = 4 \/ i = 5
        OBVIOUS
      <4> HIDE DEF s, t
      <4>3. (\A i \in 1..Len(s) : t[i] = s[i]) /\ Len(t) = Len(s) + 1 /\ t[Len(s) + 1] = r
        BY <4>1, <4>2
      <4>4. s \o <<r>> = t
        BY <1>2, <4>1, <4>3, OneMore
      <4> QED
        BY <4>4 DEF s, t
    <3>3. <<w1, w2, w3, w4, v, r>> \o <<w4>> = <<w1, w2, w3, w4, v, r, w4>>
      <4> DEFINE s == <<w1, w2, w3, w4, v, r>>
                 t == <<w1, w2, w3, w4, v, r, w4>>
      <4>1. /\ s \in Seq(Steps) /\ t \in Seq(Steps) /\ Len(s) = 6 /\ Len(t) = 7
            /\ t[1] = s[1] /\ t[2] = s[2] /\ t[3] = s[3] /\ t[4] = s[4] /\ t[5] = s[5]
            /\ t[6] = s[6] /\ t[7] = w4
        BY <1>2
      <4>2. \A i \in 1..6 : i = 1 \/ i = 2 \/ i = 3 \/ i = 4 \/ i = 5 \/ i = 6
        OBVIOUS
      <4> HIDE DEF s, t
      <4>3. (\A i \in 1..Len(s) : t[i] = s[i]) /\ Len(t) = Len(s) + 1 /\ t[Len(s) + 1] = w4
        BY <4>1, <4>2
      <4>4. s \o <<w4>> = t
        BY <1>2, <4>1, <4>3, OneMore
      <4> QED
        BY <4>4 DEF s, t
    <3>4. <<w1, w2, w3, w4, v, r, w4>> \o <<e>> = <<w1, w2, w3, w4, v, r, w4, e>>
      <4> DEFINE s == <<w1, w2, w3, w4, v, r, w4>>
                 t == <<w1, w2, w3, w4, v, r, w4, e>>
      <4>1. /\ s \in Seq(Steps) /\ t \in Seq(Steps) /\ Len(s) = 7 /\ Len(t) = 8
            /\ t[1] = s[1] /\ t[2] = s[2] /\ t[3] = s[3] /\ t[4] = s[4] /\ t[5] = s[5]
            /\ t[6] = s[6] /\ t[7] = s[7] /\ t[8] = e
        BY <1>2
      <4>2. \A i \in 1..7 : i = 1 \/ i = 2 \/ i = 3 \/ i = 4 \/ i = 5 \/ i = 6 \/ i = 7
        OBVIOUS
      <4> HIDE DEF s, t
      <4>3. (\A i \in 1..Len(s) : t[i] = s[i]) /\ Len(t) = Len(s) + 1 /\ t[Len(s) + 1] = e
        BY <4>1, <4>2
      <4>4. s \o <<e>> = t
        BY <1>2, <4>1, <4>3, OneMore
      <4> QED
        BY <4>4 DEF s, t
    <3>5. <<w1, w2, w3, w4, v, r>> \o <<e>> = <<w1, w2, w3, w4, v, r, e>>
      <4> DEFINE s == <<w1, w2, w3, w4, v, r>>
                 t == <<w1, w2, w3, w4, v, r, e>>
      <4>1. /\ s \in Seq(Steps) /\ t \in Seq(Steps) /\ Len(s) = 6 /\ Len(t) = 7
            /\ t[1] = s[1] /\ t[2] = s[2] /\ t[3] = s[3] /\ t[4] = s[4] /\ t[5] = s[5]
            /\ t[6] = s[6] /\ t[7] = e
        BY <1>2
      <4>2. \A i \in 1..6 : i = 1 \/ i = 2 \/ i = 3 \/ i = 4 \/ i = 5 \/ i = 6
        OBVIOUS
      <4> HIDE DEF s, t
      <4>3. (\A i \in 1..Len(s) : t[i] = s[i]) /\ Len(t) = Len(s) + 1 /\ t[Len(s) + 1] = e
        BY <4>1, <4>2
      <4>4. s \o <<e>> = t
        BY <1>2, <4>1, <4>3, OneMore
      <4> QED
        BY <4>4 DEF s, t
    <3> QED
      BY <3>1, <3>2, <3>3, <3>4, <3>5
  <2> QED
    BY <2>1, <2>2 DEF short_preempts, Unlock, Answer
<1>3. H \subseteq Semaphores /\ H \cup {"exec"} \subseteq Semaphores
  BY DEF Kernel, KernelSemaphores
<1>4. \A s \in H \cup {"exec"} : Height[s] < 9
  BY Heights
<1>5. Calm(a, 9, X)
  <2>1. a \in Seq(Steps) /\ Len(a) = 8
    BY <1>2
  <2>2. ha \in [1..(Len(a) + 1) -> SUBSET Semaphores]
    BY <1>3, <2>1
  <2>3. Trace(a, ha, X)
    <3> DEFINE Right(i) ==
                 \/ /\ a[i].op = "wait" /\ ha[i + 1] = ha[i] \cup a[i].sems
                    /\ \A s \in a[i].sems, k \in ha[i] : Height[s] < Height[k]
                 \/ /\ a[i].op = "post" /\ ha[i + 1] = ha[i] \ a[i].sems
                    /\ a[i].sems \ X \subseteq ha[i]
                 \/ a[i].op = "await" /\ ha[i + 1] = ha[i] /\ "await" \in X
    <3>0. ha[1] = {} /\ ha[Len(a) + 1] = {}
      BY <2>1
    <3>1. Right(1)
      BY Heights
    <3>2. Right(2)
      BY Heights
    <3>3. Right(3)
      BY Heights
    <3>4. Right(4)
      BY Heights
    <3>5. Right(5)
      BY Heights
    <3>6. Right(6)
      BY Heights
    <3>7. Right(7)
      BY Heights
    <3>8. Right(8)
      BY Heights
    <3>9. \A i \in 1..8 : i = 1 \/ i = 2 \/ i = 3 \/ i = 4 \/ i = 5 \/ i = 6 \/ i = 7 \/ i = 8
      OBVIOUS
    <3> HIDE DEF a, ha, X, Right
    <3>10. \A i \in 1..Len(a) : Right(i)
      BY <2>1, <3>1, <3>2, <3>3, <3>4, <3>5, <3>6, <3>7, <3>8, <3>9
    <3> QED
      BY <3>0, <3>10 DEF Trace, Right
  <2>4. \A i \in 1..(Len(a) + 1) : \A s \in ha[i] : Height[s] < 9
    BY <1>4, <2>1
  <2> QED
    BY <2>1, <2>2, <2>3, <2>4 DEF Calm
<1>6. Calm(z, 9, X)
  <2>1. z \in Seq(Steps) /\ Len(z) = 7
    BY <1>2
  <2>2. hz \in [1..(Len(z) + 1) -> SUBSET Semaphores]
    BY <1>3, <2>1
  <2>3. Trace(z, hz, X)
    <3> DEFINE Right(i) ==
                 \/ /\ z[i].op = "wait" /\ hz[i + 1] = hz[i] \cup z[i].sems
                    /\ \A s \in z[i].sems, k \in hz[i] : Height[s] < Height[k]
                 \/ /\ z[i].op = "post" /\ hz[i + 1] = hz[i] \ z[i].sems
                    /\ z[i].sems \ X \subseteq hz[i]
                 \/ z[i].op = "await" /\ hz[i + 1] = hz[i] /\ "await" \in X
    <3>0. hz[1] = {} /\ hz[Len(z) + 1] = {}
      BY <2>1
    <3>1. Right(1)
      BY Heights
    <3>2. Right(2)
      BY Heights
    <3>3. Right(3)
      BY Heights
    <3>4. Right(4)
      BY Heights
    <3>5. Right(5)
      BY Heights
    <3>6. Right(6)
      BY Heights
    <3>7. Right(7)
      BY Heights
    <3>8. \A i \in 1..7 : i = 1 \/ i = 2 \/ i = 3 \/ i = 4 \/ i = 5 \/ i = 6 \/ i = 7
      OBVIOUS
    <3> HIDE DEF z, hz, X, Right
    <3>9. \A i \in 1..Len(z) : Right(i)
      BY <2>1, <3>1, <3>2, <3>3, <3>4, <3>5, <3>6, <3>7, <3>8
    <3> QED
      BY <3>0, <3>9 DEF Trace, Right
  <2>4. \A i \in 1..(Len(z) + 1) : \A s \in hz[i] : Height[s] < 9
    BY <1>4, <2>1
  <2> QED
    BY <2>1, <2>2, <2>3, <2>4 DEF Calm
<1> QED
  BY <1>1, <1>5, <1>6 DEF Calms, Begun

\* run_short_scheduler.
LEMMA ShortScheduler ==
    ASSUME Kernel, NEW m
    PROVE  Calms(run_short_scheduler(m), 9, Extra(m)) /\ Begun(run_short_scheduler(m))
<1>1. CASE m = "preemptive"
  <2>1. Calms(short_plain, 9, {"exec", "await"})
    BY ShortPlain, CalmsMore
  <2> QED
    BY <1>1, <2>1, ShortPlain, ShortPreempts DEF Calms, Begun, Extra, run_short_scheduler
<1>2. CASE m # "preemptive"
  BY <1>2, ShortPlain DEF Extra, run_short_scheduler
<1> QED
  BY <1>1, <1>2

\* run_long_scheduler.
LEMMA LongScheduler ==
    ASSUME Kernel
    PROVE  Calms(run_long_scheduler, 8, {}) /\ Begun(run_long_scheduler)
<1>1. Descends(<<"susp_ready">>, 0, 8) /\ Descends(<<"ready">>, 0, 8)
  BY Heights, Descend1
<1>2. Descends(<<"ready", "new">>, 0, 8)
  BY Heights, Descend2
<1>3. /\ Calm(All(<<"susp_ready">>), 8, {}) /\ All(<<"susp_ready">>) # <<>>
      /\ Calm(All(<<"ready">>), 8, {})
  BY <1>1, CalmAll
<1>4. Calm(All(<<"ready", "new">>), 8, {})
  BY <1>2, CalmAll
<1>5. /\ Calms(Then({All(<<"susp_ready">>)}, {All(<<"ready">>)}), 8, {})
      /\ Begun(Then({All(<<"susp_ready">>)}, {All(<<"ready">>)}))
  BY <1>3, ThenCalms DEF Calms, Begun
<1>6. Then({All(<<"susp_ready">>)}, {All(<<"ready">>)}) = Resume
  BY DEF Then, Resume
<1>7. Calms({All(<<"susp_ready">>) \o All(<<"ready", "new">>)}, 8, {})
  BY <1>3, <1>4, CalmThen DEF Calms
<1> QED
  BY <1>5, <1>6, <1>7, ThenCalms DEF run_long_scheduler

\* run_medium_scheduler.
LEMMA MediumScheduler ==
    ASSUME Kernel
    PROVE  Calms(run_medium_scheduler, 12, {}) /\ Begun(run_medium_scheduler)
<1>1. Descends(<<"blocked">>, 0, 12)
  BY Heights, Descend1
<1>2. Descends(<<"blocked", "susp_blocked">>, 0, 12)
  BY Heights, Descend2
<1>3. Calm(All(<<"blocked">>), 12, {}) /\ All(<<"blocked">>) # <<>>
  BY <1>1, CalmAll
<1>4. /\ Calm(All(<<"blocked", "susp_blocked">>), 12, {})
      /\ All(<<"blocked", "susp_blocked">>) # <<>>
  BY <1>2, CalmAll
<1> QED
  BY <1>3, <1>4 DEF run_medium_scheduler, Calms, Begun

-----------------------------------------------------------------------------
(* System calls and devices *)

\* exit_routine, alone and under the lists its callers hold.
LEMMA Exits ==
    ASSUME Kernel
    PROVE  /\ Calms(exit_routine, 1, {})
           /\ Calms(Within(<<"exec">>, exit_routine), 11, {})
           /\ Begun(Within(<<"exec">>, exit_routine))
           /\ Calms(Within(<<"blocked">>, exit_routine), 11, {})
           /\ Calms(Within(<<"susp_blocked">>, exit_routine), 11, {})
           /\ Calms(Within(<<"ready", "blocked">>, exit_routine), 11, {})
           /\ Begun(Within(<<"ready", "blocked">>, exit_routine))
<1>1. Descends(<<"exit">>, 0, 1)
  BY Heights, Descend1
<1>2. Calms(exit_routine, 1, {})
  <2>1. Calm(All(<<"exit">>), 1, {})
    BY <1>1, CalmAll
  <2> QED
    BY <2>1 DEF exit_routine, Calms
<1>3. /\ Descends(<<"exec">>, 1, 11) /\ Descends(<<"blocked">>, 1, 11)
      /\ Descends(<<"susp_blocked">>, 1, 11)
  BY Heights, Descend1
<1>4. Descends(<<"ready", "blocked">>, 1, 11)
  BY Heights, Descend2
<1>5. /\ Calms(Within(<<"exec">>, exit_routine), 11, {})
      /\ Begun(Within(<<"exec">>, exit_routine))
  BY <1>2, <1>3, WithinCalms
<1>6. Calms(Within(<<"blocked">>, exit_routine), 11, {})
  BY <1>2, <1>3, WithinCalms
<1>7. Calms(Within(<<"susp_blocked">>, exit_routine), 11, {})
  BY <1>2, <1>3, WithinCalms
<1>8. /\ Calms(Within(<<"ready", "blocked">>, exit_routine), 11, {})
      /\ Begun(Within(<<"ready", "blocked">>, exit_routine))
  BY <1>2, <1>4, WithinCalms
<1> QED
  BY <1>2, <1>5, <1>6, <1>7, <1>8

\* The system calls.
LEMMA Syscalls ==
    ASSUME Kernel
    PROVE  LET P == handle_io_process_syscall \cup handle_init_proc_syscall
                    \cup exit_process_syscall \cup dump_memory_syscall
                    \cup initialize_root_process
           IN  Calms(P, 12, {}) /\ Begun(P)
<1>1. Calms(handle_io_process_syscall, 12, {}) /\ Begun(handle_io_process_syscall)
  <2>1. Descends(<<"io_requests">>, 0, 11)
    BY Heights, Descend1
  <2>2. Descends(<<"io_requests", "io_queue", "exec", "blocked">>, 0, 11)
    BY Heights, Descend4
  <2>3. Calm(All(<<"io_requests">>), 11, {})
    BY <2>1, CalmAll
  <2>4. Calm(All(<<"io_requests", "io_queue", "exec", "blocked">>), 11, {})
    BY <2>2, CalmAll
  <2> DEFINE P == handle_io_connection_not_found \cup
                  {All(<<"io_requests">>), All(<<"io_requests", "io_queue", "exec", "blocked">>)}
  <2>5. Calms(P, 11, {})
    BY <2>3, <2>4, Exits DEF Calms, handle_io_connection_not_found
  <2> HIDE DEF P
  <2>6. Descends(<<"io_connections">>, 11, 12)
    BY Heights, Descend1
  <2>7. Calms(Within(<<"io_connections">>, P), 12, {}) /\ Begun(Within(<<"io_connections">>, P))
    BY <2>5, <2>6, WithinCalms
  <2> QED
    BY <2>7 DEF handle_io_process_syscall, P
<1>2. Calms(handle_init_proc_syscall, 12, {}) /\ Begun(handle_init_proc_syscall)
  <2>1. Descends(<<"new", "exec">>, 0, 12)
    BY Heights, Descend2
  <2>2. Calm(All(<<"new", "exec">>), 12, {}) /\ All(<<"new", "exec">>) # <<>>
    BY <2>1, CalmAll
  <2> QED
    BY <2>2 DEF handle_init_proc_syscall, Calms, Begun
<1>3. Calms(exit_process_syscall, 12, {}) /\ Begun(exit_process_syscall)
  BY Exits, CalmsMore DEF exit_process_syscall
<1>4. Calms(dump_memory_syscall, 12, {}) /\ Begun(dump_memory_syscall)
  <2>1. Descends(<<"exec", "blocked">>, 0, 12) /\ Descends(<<"ready", "blocked">>, 0, 12)
    BY Heights, Descend2
  <2>2. /\ Calm(All(<<"exec", "blocked">>), 12, {}) /\ All(<<"exec", "blocked">>) # <<>>
        /\ Calm(All(<<"ready", "blocked">>), 12, {}) /\ All(<<"ready", "blocked">>) # <<>>
    BY <2>1, CalmAll
  <2>3. Calms(Within(<<"ready", "blocked">>, exit_routine), 12, {})
    BY Exits, CalmsMore
  <2> QED
    BY <2>2, <2>3, Exits DEF dump_memory_syscall, Calms, Begun
<1>5. Calms(initialize_root_process, 12, {}) /\ Begun(initialize_root_process)
  <2>1. Descends(<<"new">>, 0, 12)
    BY Heights, Descend1
  <2>2. Calm(All(<<"new">>), 12, {}) /\ All(<<"new">>) # <<>>
    BY <2>1, CalmAll
  <2> QED
    BY <2>2 DEF initialize_root_process, Calms, Begun
<1> QED
  BY <1>1, <1>2, <1>3, <1>4, <1>5 DEF Calms, Begun

\* The threads of the devices, but for a lost one.
LEMMA Devices ==
    ASSUME Kernel
    PROVE  LET P == process_new_device \cup process_pending_io \cup io_completion
           IN  Calms(P, 12, {}) /\ Begun(P)
<1>1. Calms(process_new_device, 12, {}) /\ Begun(process_new_device)
  <2>1. Descends(<<"io_connections", "io_requests">>, 0, 12)
    BY Heights, Descend2
  <2>2. /\ Calm(All(<<"io_connections", "io_requests">>), 12, {})
        /\ All(<<"io_connections", "io_requests">>) # <<>>
    BY <2>1, CalmAll
  <2> QED
    BY <2>2 DEF process_new_device, Calms, Begun
<1>2. Calms(process_pending_io, 12, {}) /\ Begun(process_pending_io)
  <2> DEFINE P == Nothing \cup {All(<<"blocked", "susp_blocked">>)}
             Q == Nothing \cup {All(<<"io_requests">>)} \cup
                  Within(<<"io_requests", "io_queue">>, P)
  <2>1. Descends(<<"blocked", "susp_blocked">>, 0, 9)
    BY Heights, Descend2
  <2>2. Descends(<<"io_requests", "io_queue">>, 9, 11)
    BY Heights, Descend2
  <2>3. Descends(<<"io_requests">>, 0, 11) /\ Descends(<<"io_connections">>, 11, 12)
    BY Heights, Descend1
  <2>4. Calms(P, 9, {})
    <3>1. Calm(All(<<"blocked", "susp_blocked">>), 9, {})
      BY <2>1, CalmAll
    <3> QED
      BY <3>1, NothingCalm DEF Calms, Nothing
  <2>5. Calms(Q, 11, {})
    <3>1. Calm(All(<<"io_requests">>), 11, {})
      BY <2>3, CalmAll
    <3> HIDE DEF P
    <3>2. Calms(Within(<<"io_requests", "io_queue">>, P), 11, {})
      BY <2>2, <2>4, WithinCalms
    <3> QED
      BY <3>1, <3>2, NothingCalm DEF Calms, Nothing
  <2> HIDE DEF Q
  <2>6. Calms(Within(<<"io_connections">>, Q), 12, {}) /\ Begun(Within(<<"io_connections">>, Q))
    BY <2>3, <2>5, WithinCalms
  <2> QED
    BY <2>6 DEF process_pending_io, Q
<1>3. Calms(io_completion, 12, {}) /\ Begun(io_completion)
  <2> DEFINE w == <<"io_connections", "ready", "blocked", "susp_blocked", "susp_ready">>
  <2>1. Descends(<<"io_connections">>, 0, 12)
    BY Heights, Descend1
  <2>2. Descends(w, 0, 12)
    <3>1. /\ Height["io_connections"] < 12 /\ Height["ready"] < Height["io_connections"]
          /\ Height["blocked"] < Height["ready"]
          /\ Height["susp_blocked"] < Height["blocked"]
          /\ Height["susp_ready"] < Height["susp_blocked"] /\ 0 <= Height["susp_ready"]
      BY Heights
    <3>2. /\ "io_connections" \in Semaphores /\ "ready" \in Semaphores
          /\ "blocked" \in Semaphores /\ "susp_blocked" \in Semaphores
          /\ "susp_ready" \in Semaphores
      BY Heights
    <3>3. 0 \in Nat /\ 12 \in Nat
      OBVIOUS
    <3> QED
      BY ONLY <3>1, <3>2, <3>3, Descend5, Zenon DEF w
  <2> HIDE DEF w
  <2>3. Calm(All(<<"io_connections">>), 12, {}) /\ All(<<"io_connections">>) # <<>>
    BY <2>1, CalmAll
  <2>4. Calm(All(w), 12, {}) /\ All(w) # <<>>
    BY <2>2, CalmAll
  <2> QED
    BY <2>3, <2>4 DEF io_completion, Calms, Begun, w
<1> QED
  BY <1>1, <1>2, <1>3 DEF Calms, Begun

\* A lost device: with its table locked, a process exits and both schedulers run.
LEMMA LostDevice ==
    ASSUME Kernel, NEW m
    PROVE  Calms(io_disconnected(m), 12, Extra(m)) /\ Begun(io_disconnected(m))
<1> DEFINE X == Extra(m)
           B == {All(<<"blocked">>)}
           E == Within(<<"susp_blocked">>, exit_routine)
           S == Nothing \cup run_short_scheduler(m)
           R == Then(run_long_scheduler, S)
           V == Then(E, R)
           Z == Then(B, V)
           P == Nothing \cup handle_found_process(m)
<1>1. Descends(<<"blocked">>, 0, 11) /\ Descends(<<"susp_blocked">>, 0, 11)
  BY Heights, Descend1
<1>2. Calm(All(<<"blocked">>), 11, {}) /\ Calm(All(<<"susp_blocked">>), 11, {})
  BY <1>1, CalmAll
<1>3. Calm(All(<<"blocked">>) \o All(<<"susp_blocked">>), 11, {})
  BY <1>2, CalmThen
<1> HIDE DEF X
<1>4. Calm(All(<<"blocked">>) \o All(<<"susp_blocked">>), 11, X) /\ Calms(B, 11, X)
  <2>1. Calms(B, 11, {}) /\ Calms({All(<<"blocked">>) \o All(<<"susp_blocked">>)}, 11, {})
    BY <1>2, <1>3 DEF Calms
  <2>2. Calms(B, 11, X) /\ Calms({All(<<"blocked">>) \o All(<<"susp_blocked">>)}, 11, X)
    BY <2>1, CalmsMore
  <2> QED
    BY <2>2 DEF Calms
<1>5. Calms(E, 11, X) /\ Calms(Within(<<"blocked">>, exit_routine), 11, X)
  BY Exits, CalmsMore
<1>6. Calms(run_long_scheduler, 11, X)
  BY LongScheduler, CalmsMore
<1>7. Calms(S, 11, X)
  <2>1. Calms(run_short_scheduler(m), 11, X)
    BY ShortScheduler, CalmsMore DEF X
  <2> QED
    BY <2>1, NothingCalm DEF Calms, Nothing
<1> HIDE DEF B, E, S
<1>8. Calms(R, 11, X)
  BY <1>6, <1>7, ThenCalms
<1> HIDE DEF R
<1>9. Calms(V, 11, X)
  BY <1>5, <1>8, ThenCalms
<1> HIDE DEF V
<1>10. Calms(Z, 11, X)
  BY <1>4, <1>9, ThenCalms
<1>11. handle_found_process(m) =
         Within(<<"blocked">>, exit_routine) \cup {All(<<"blocked">>) \o All(<<"susp_blocked">>)} \cup Z
  BY DEF handle_found_process, Z, V, R, S, E, B
<1> HIDE DEF Z
<1>12. Calms(P, 11, X)
  BY <1>4, <1>5, <1>10, <1>11, NothingCalm DEF Calms, Nothing
<1> HIDE DEF P
<1>13. Descends(<<"io_connections">>, 11, 12)
  BY Heights, Descend1
<1>14. \A i \in 1..Len(<<"io_connections">>) : <<"io_connections">>[i] \notin X
  BY DEF X, Extra
<1>15. Calms(Within(<<"io_connections">>, P), 12, X) /\ Begun(Within(<<"io_connections">>, P))
  BY <1>12, <1>13, <1>14, WithinCalms
<1> QED
  BY <1>15 DEF io_disconnected, P, X

-----------------------------------------------------------------------------
(* The kernel keeps the discipline *)

\* Every section of the kernel, in both modes.
LEMMA KernelCalm ==
    ASSUME Kernel, NEW m \in Modes, NEW p \in Sections[m]
    PROVE  Calm(p, 12, Extra(m)) /\ p # <<>>
<1> DEFINE P == handle_io_process_syscall \cup handle_init_proc_syscall
                \cup exit_process_syscall \cup dump_memory_syscall \cup initialize_root_process
           D == process_new_device \cup process_pending_io \cup io_completion
<1>1. m \in KernelModes /\ p \in KernelSections[m]
  BY DEF Kernel
<1>2. \/ p \in run_short_scheduler(m) \/ p \in run_medium_scheduler \/ p \in run_long_scheduler
      \/ p \in P \/ p \in D \/ p \in io_disconnected(m)
  BY <1>1 DEF KernelSections
<1>3. Calms(run_short_scheduler(m), 12, Extra(m)) /\ Begun(run_short_scheduler(m))
  BY ShortScheduler, CalmsMore
<1>4. Calms(run_medium_scheduler, 12, Extra(m)) /\ Begun(run_medium_scheduler)
  BY MediumScheduler, CalmsMore
<1>5. Calms(run_long_scheduler, 12, Extra(m)) /\ Begun(run_long_scheduler)
  BY LongScheduler, CalmsMore
<1>6. Calms(P, 12, Extra(m)) /\ Begun(P)
  <2>1. Calms(P, 12, {}) /\ Begun(P)
    BY Syscalls
  <2> HIDE DEF P
  <2> QED
    BY <2>1, CalmsMore
<1>7. Calms(D, 12, Extra(m)) /\ Begun(D)
  <2>1. Calms(D, 12, {}) /\ Begun(D)
    BY Devices
  <2> HIDE DEF D
  <2> QED
    BY <2>1, CalmsMore
<1> HIDE DEF P, D
<1> QED
  BY <1>2, <1>3, <1>4, <1>5, <1>6, <1>7, LostDevice DEF Calms, Begun

\* On every path, with the callers that hold something when they call it, each
\* handler and scheduler takes its semaphores downwards and gives back all it took.
THEOREM KernelOrderly == Kernel => Orderly
<1> SUFFICES ASSUME Kernel, NEW m \in Modes, NEW p \in Sections[m]
             PROVE  /\ p # <<>>
                    /\ HeldAt(p, Len(p) + 1) = {}
                    /\ \A i \in 1..Len(p) : p[i].op = "wait" =>
                        \A s \in p[i].sems, r \in HeldAt(p, i) : Height[s] < Height[r]
  BY DEF Orderly
<1>1. Calm(p, 12, Extra(m)) /\ p # <<>>
  BY KernelCalm
<1> QED
  BY <1>1, CalmSection

\* No path posts a semaphore it does not hold, but for sem_exec on the path of
\* run_short_scheduler whose interrupt was answered for another process.
THEOREM KernelGuarded == Kernel => Guarded
<1> SUFFICES ASSUME Kernel, NEW m \in Modes, NEW p \in Sections[m],
                    NEW s \in Guarding[m], s \in Overposted[p]
             PROVE  FALSE
  BY DEF Guarded
<1>1. Calm(p, 12, Extra(m))
  BY KernelCalm
<1>2. p \in AllSections
  BY DEF AllSections
<1>3. PICK i \in 1..Len(p) : p[i].op = "post" /\ s \in p[i].sems /\ s \notin HeldAt(p, i)
  BY <1>2 DEF Overposted
<1>4. s \in Extra(m)
  BY <1>1, <1>3, CalmSection
<1>5. s \in KernelGuarding[m] /\ m \in KernelModes
  BY DEF Kernel
<1>6. s \in KernelSemaphores /\ (m = "preemptive" => s # "exec")
  BY <1>5 DEF KernelGuarding
<1>7. s # "await"
  BY <1>6 DEF KernelSemaphores
<1> QED
  BY <1>4, <1>6, <1>7 DEF Extra

\* Without preemption no thread of the kernel awaits an answer that could depend
\* on a semaphore.
LEMMA PlainNeverAwaits ==
    ASSUME Kernel, FlowInv, mode = "plain", NEW t \in Threads
    PROVE  ~Awaits(t)
<1> SUFFICES ASSUME Awaits(t) PROVE FALSE
  OBVIOUS
<1>1. /\ Busy(t) /\ section[t] \in Sections[mode] /\ pc[t] \in 1..Len(section[t])
      /\ section[t][pc[t]].op = "await" /\ mode \in Modes
  BY BusyFacts DEF Awaits, NextStep, FlowInv, TypeOK
<1>2. Calm(section[t], 12, Extra(mode))
  BY <1>1, KernelCalm
<1>3. "await" \in Extra(mode)
  BY <1>1, <1>2, CalmSection
<1> QED
  BY <1>3 DEF Extra

\* For any number of threads in any combination of system calls, device events,
\* timers and scheduler runs: when the algorithm of READY does not preempt, one of
\* the threads inside a section can always go on; when it does, one can go on or
\* the answer of a CPU to an interrupt is awaited.
THEOREM KernelDeadlockFree ==
    Kernel /\ Spec => []/\ NoDeadlock
                        /\ mode = "plain" => \A t \in Threads : ~Awaits(t)
<1>1. Orderly /\ FlowInv /\ [Next]_vars => FlowInv'
  BY FlowNext
<1>2. Kernel /\ FlowInv => (mode = "plain" => \A t \in Threads : ~Awaits(t))
  BY PlainNeverAwaits
<1>3. (Kernel => Kernel') /\ (Orderly => Orderly')
  BY DEF Kernel, Orderly
<1> QED
  BY KernelOrderly, DeadlockFree, FlowInit, <1>1, <1>2, <1>3, PTL DEF Spec

\* Every thread of the kernel that waits for a semaphore holds only higher ones.
THEOREM KernelWaitsInOrder == Kernel /\ Spec => []WaitsInOrder
BY KernelOrderly, OrderKept, PTL

\* One thread at a time is inside a list or a table of the kernel, but for EXEC
\* when the algorithm of READY preempts, and no early return keeps a semaphore.
THEOREM KernelExcludes == Kernel /\ Spec => [](Exclusive /\ NothingKept)
BY KernelOrderly, KernelGuarded, GuardingExcludes, PTL
=============================================================================
