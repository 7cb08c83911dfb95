--------------------------- MODULE LockDiscipline ---------------------------
(***************************************************************************)
(* Threads that take and release semaphores along fixed sequences.         *)
(*                                                                         *)
(* A section begins and ends without a semaphore held: a sequence of       *)
(* steps, each a sem_wait on one semaphore, the sem_posts that follow one  *)
(* another, or the wait for an answer that may itself have to wait for     *)
(* semaphores.  A thread that is in none may begin any section of the mode *)
(* the kernel was started in.  KernelLocks has the sections of the kernel. *)
(*                                                                         *)
(* POSIX semaphores have no owner: a post of a semaphore the thread does   *)
(* not hold raises its value above 1.  held is what a thread waited for    *)
(* and did not post since.                                                 *)
(***************************************************************************)
EXTENDS Naturals, Sequences, FiniteSets

CONSTANTS
    Threads,
    Semaphores,
    Modes,           \* what the configuration may be
    Sections,        \* the sections a thread may go through in each mode
    Height,          \* a number for each semaphore: they are taken downwards
    Guarding,        \* the semaphores that are to guard what they stand for, by mode
    MaxValue         \* bound on the value a semaphore may be posted to

Steps == [op : {"wait", "post", "await"}, sems : SUBSET Semaphores]

ASSUME LockAssumption ==
    /\ Height \in [Semaphores -> Nat]
    /\ Sections \in [Modes -> SUBSET Seq(Steps)]
    /\ Guarding \in [Modes -> SUBSET Semaphores]

VARIABLES
    mode,            \* the configuration of the kernel
    sem,             \* the value of each semaphore
    section, pc,     \* the section each thread is in, and its next step; <<>> when in none
    held             \* the semaphores each thread holds

vars == <<mode, sem, section, pc, held>>

\* What a thread holds before step i of a section.
HeldAt(p, i) ==
    {s \in Semaphores : \E j \in 1..(i - 1) :
        /\ p[j].op = "wait" /\ s \in p[j].sems
        /\ \A k \in (j + 1)..(i - 1) : ~(p[k].op = "post" /\ s \in p[k].sems)}

\* The semaphores that each section posts without holding them.
AllSections == {<<>>} \cup UNION {Sections[m] : m \in Modes}
Overposted ==
    [p \in AllSections |->
        {s \in Semaphores : \E i \in 1..Len(p) :
            p[i].op = "post" /\ s \in p[i].sems /\ s \notin HeldAt(p, i)}]

Busy(t) == section[t] # <<>>
NextStep(t) == section[t][pc[t]]
Holders(s) == {t \in Threads : s \in held[t]}

Advance(t) ==
    IF pc[t] < Len(section[t])
    THEN pc' = [pc EXCEPT ![t] = @ + 1] /\ section' = section
    ELSE pc' = [pc EXCEPT ![t] = 1] /\ section' = [section EXCEPT ![t] = <<>>]

-----------------------------------------------------------------------------
\* The thread begins a section.  One that posts too often is begun only while
\* the semaphore stays within MaxValue.
Begin(t, p) ==
    /\ ~Busy(t)
    /\ p \in Sections[mode]
    /\ \A s \in Overposted[p] :
        sem[s] + Cardinality(Holders(s))
            + Cardinality({u \in Threads : s \in Overposted[section[u]]}) < MaxValue
    /\ section' = [section EXCEPT ![t] = p]
    /\ pc' = [pc EXCEPT ![t] = 1]
    /\ UNCHANGED <<mode, sem, held>>

sem_wait(t) ==
    /\ Busy(t)
    /\ NextStep(t).op = "wait"
    /\ \A s \in NextStep(t).sems : sem[s] > 0
    /\ sem' = [s \in Semaphores |-> IF s \in NextStep(t).sems THEN sem[s] - 1 ELSE sem[s]]
    /\ held' = [held EXCEPT ![t] = @ \cup NextStep(t).sems]
    /\ Advance(t)
    /\ mode' = mode

sem_post(t) ==
    /\ Busy(t)
    /\ NextStep(t).op = "post"
    /\ sem' = [s \in Semaphores |-> IF s \in NextStep(t).sems THEN sem[s] + 1 ELSE sem[s]]
    /\ held' = [held EXCEPT ![t] = @ \ NextStep(t).sems]
    /\ Advance(t)
    /\ mode' = mode

\* The answer has come.
Await(t) ==
    /\ Busy(t)
    /\ NextStep(t).op = "await"
    /\ Advance(t)
    /\ UNCHANGED <<mode, sem, held>>

Init ==
    /\ mode \in Modes
    /\ sem = [s \in Semaphores |-> 1]
    /\ section = [t \in Threads |-> <<>>]
    /\ pc = [t \in Threads |-> 1]
    /\ held = [t \in Threads |-> {}]

Next ==
    \E t \in Threads :
        \/ \E p \in Sections[mode] : Begin(t, p)
        \/ sem_wait(t)
        \/ sem_post(t)
        \/ Await(t)

Spec == Init /\ [][Next]_vars

-----------------------------------------------------------------------------
\* The discipline of the sections: none is empty, each gives back all it takes,
\* and takes a semaphore only when it holds none that is as low or lower.
Orderly ==
    \A m \in Modes : \A p \in Sections[m] :
        /\ p # <<>>
        /\ HeldAt(p, Len(p) + 1) = {}
        /\ \A i \in 1..Len(p) : p[i].op = "wait" =>
            \A s \in p[i].sems, r \in HeldAt(p, i) : Height[s] < Height[r]

\* No section posts a guarding semaphore that it does not hold.
Guarded == \A m \in Modes : \A p \in Sections[m] : Guarding[m] \cap Overposted[p] = {}

TypeOK ==
    /\ mode \in Modes
    /\ sem \in [Semaphores -> Nat]
    /\ section \in [Threads -> Seq(Steps)]
    /\ pc \in [Threads -> Nat]
    /\ held \in [Threads -> SUBSET Semaphores]

\* A thread about to wait for a semaphore holds only higher ones: every function
\* of the kernel, with the callers that hold something when they call it, takes
\* its locks in one order (the lock calls of handlers/ and kernel_logic/).
WaitsInOrder ==
    \A t \in Threads : Busy(t) /\ NextStep(t).op = "wait" =>
        \A s \in NextStep(t).sems, r \in held[t] : Height[s] < Height[r]

\* A thread waits for an answer, or has its next semaphores.
Awaits(t) == Busy(t) /\ NextStep(t).op = "await"
CanGoOn(t) ==
    /\ Busy(t) /\ ~Awaits(t)
    /\ NextStep(t).op = "wait" => \A s \in NextStep(t).sems : sem[s] > 0

\* When threads are inside sections, one of them can go on or waits for an answer:
\* no cycle of threads each waiting for a semaphore the next one holds, for any
\* combination of system calls, device events, timers and scheduler runs.  An
\* answer that is never given because the CPU waits for one of these threads is
\* not excluded.
NoDeadlock ==
    (\E t \in Threads : Busy(t)) => \E t \in Threads : CanGoOn(t) \/ Awaits(t)

\* One thread at a time is between the lock and the unlock of a list or table:
\* all of them without preemption, all but sem_exec with it.
Exclusive ==
    \A s \in Guarding[mode] : \A t, u \in Threads : s \in held[t] \cap held[u] => t = u

\* No early return and no error path keeps a lock or releases one twice: a thread
\* that is in no section holds nothing, and when none is in one, every guarding
\* semaphore is back at 1.
NothingKept ==
    /\ \A t \in Threads : ~Busy(t) => held[t] = {}
    /\ (\A t \in Threads : ~Busy(t)) => \A s \in Guarding[mode] : sem[s] = 1
=============================================================================
