--------------------------- MODULE MemoriaProofs ---------------------------
(* Frame ownership in the memory server, proved for every instance. *)
EXTENDS MemoriaFrames, FiniteSetTheorems, TLAPS

\* No entry of a list of frames repeats.
Distinct(s) == \A i, j \in DOMAIN s : s[i] = s[j] => i = j

-----------------------------------------------------------------------------
(* Lists of frames. *)

\* What a first-fit list is: distinct frames whose bit was clear.
LEMMA FirstFitLemma ==
    ASSUME NEW N \in Nat, NEW bitmap, NEW n \in Nat, NEW s \in FirstFit(0 .. N - 1, bitmap, n)
    PROVE  /\ s \in Seq(Nat) /\ Len(s) <= n
           /\ Range(s) \subseteq (0 .. N - 1) \ bitmap
           /\ Distinct(s)
<1>1. PICK m \in 0 .. n : s \in [1 .. m -> (0 .. N - 1) \ bitmap]
  BY DEF FirstFit
<1>2. s \in Seq(Nat) /\ Len(s) = m /\ DOMAIN s = 1 .. m
  BY <1>1
<1>3. Distinct(s)
  <2> SUFFICES ASSUME NEW i \in DOMAIN s, NEW j \in DOMAIN s, s[i] = s[j] PROVE i = j
    BY DEF Distinct
  <2>1. /\ i < j => s[i] < s[j]
        /\ j < i => s[j] < s[i]
    BY DEF FirstFit
  <2> QED BY <1>1, <1>2, <2>1
<1> QED BY <1>1, <1>2, <1>3 DEF Range

\* A list of distinct frames covers as many frames as it is long.
LEMMA RangeCard ==
    ASSUME NEW s \in Seq(Nat), Distinct(s)
    PROVE  IsFiniteSet(Range(s)) /\ Cardinality(Range(s)) = Len(s)
<1>1. Len(s) \in Nat /\ DOMAIN s = 1 .. Len(s)
  OBVIOUS
<1>2. IsFiniteSet(1 .. Len(s))
  BY <1>1, FS_Interval
<1>3. Cardinality(1 .. Len(s)) = IF 1 > Len(s) THEN 0 ELSE Len(s) - 1 + 1
  BY <1>1, FS_Interval
<1>4. Cardinality(1 .. Len(s)) = Len(s)
  BY <1>1, <1>3
<1>5. s \in [1 .. Len(s) -> Range(s)]
  BY <1>1 DEF Range
<1>6. s \in Surjection(1 .. Len(s), Range(s))
  BY <1>1, <1>5 DEF Surjection, Range
<1>7. s \in Injection(1 .. Len(s), Range(s))
  BY <1>1, <1>5 DEF Injection, IsInjective, Distinct
<1> QED BY <1>2, <1>4, <1>6, <1>7, FS_Surjection

\* With enough clear bits a first-fit list is as long as asked for.
LEMMA FirstFitFull ==
    ASSUME NEW N \in Nat, NEW bitmap, NEW n \in Nat, NEW s \in FirstFit(0 .. N - 1, bitmap, n),
           n <= Cardinality((0 .. N - 1) \ bitmap)
    PROVE  Len(s) = n
<1>1. s \in Seq(Nat) /\ Len(s) <= n /\ Range(s) \subseteq (0 .. N - 1) \ bitmap /\ Distinct(s)
  BY FirstFitLemma
<1>2. Cardinality(Range(s)) = Len(s)
  BY <1>1, RangeCard
<1>3. Len(s) # n => Range(s) = (0 .. N - 1) \ bitmap
  BY <1>1 DEF FirstFit
<1>4. Len(s) # n => Len(s) = Cardinality((0 .. N - 1) \ bitmap)
  BY <1>2, <1>3
<1>5. Len(s) \in Nat
  BY <1>1
<1> QED BY <1>1, <1>4, <1>5

\* Taking a set of clear bits lowers the number of free frames by its size.
LEMMA TakeCard ==
    ASSUME NEW N \in Nat, NEW B \in SUBSET (0 .. N - 1), NEW R \in SUBSET ((0 .. N - 1) \ B)
    PROVE  Cardinality((0 .. N - 1) \ (B \cup R))
              = Cardinality((0 .. N - 1) \ B) - Cardinality(R)
<1>1. IsFiniteSet(0 .. N - 1)
  BY FS_Interval
<1>2. IsFiniteSet((0 .. N - 1) \ B)
  BY <1>1, FS_Difference
<1>3. /\ Cardinality(((0 .. N - 1) \ B) \ R)
           = Cardinality((0 .. N - 1) \ B) - Cardinality(((0 .. N - 1) \ B) \cap R)
  BY <1>2, FS_Difference
<1>4. ((0 .. N - 1) \ B) \ R = (0 .. N - 1) \ (B \cup R) /\ ((0 .. N - 1) \ B) \cap R = R
  OBVIOUS
<1> QED BY <1>3, <1>4

\* Releasing a set of set bits raises it by its size.
LEMMA ReleaseCard ==
    ASSUME NEW N \in Nat, NEW B \in SUBSET (0 .. N - 1), NEW R \in SUBSET B
    PROVE  Cardinality((0 .. N - 1) \ (B \ R))
              = Cardinality((0 .. N - 1) \ B) + Cardinality(R)
<1>1. /\ B \ R \in SUBSET (0 .. N - 1) /\ R \in SUBSET ((0 .. N - 1) \ (B \ R))
      /\ (B \ R) \cup R = B
  OBVIOUS
<1>2. Cardinality((0 .. N - 1) \ ((B \ R) \cup R))
        = Cardinality((0 .. N - 1) \ (B \ R)) - Cardinality(R)
  BY <1>1, TakeCard
<1>5. IsFiniteSet(0 .. N - 1)
  BY FS_Interval
<1>6. R \in SUBSET (0 .. N - 1) /\ (0 .. N - 1) \ (B \ R) \in SUBSET (0 .. N - 1)
  OBVIOUS
<1>3. IsFiniteSet(R) /\ IsFiniteSet((0 .. N - 1) \ (B \ R))
  BY <1>5, <1>6, FS_Subset
<1>4. Cardinality(R) \in Nat /\ Cardinality((0 .. N - 1) \ (B \ R)) \in Nat
  BY <1>3, FS_CardinalityType
<1> QED BY <1>1, <1>2, <1>4

\* The two facts above for a list of frames, as the allocators use them.
LEMMA TakeList ==
    ASSUME NEW N \in Nat, NEW B \in SUBSET (0 .. N - 1), NEW s \in Seq(Nat), Distinct(s),
           Range(s) \in SUBSET ((0 .. N - 1) \ B)
    PROVE  Cardinality((0 .. N - 1) \ (B \cup Range(s))) = Cardinality((0 .. N - 1) \ B) - Len(s)
<1>1. Cardinality((0 .. N - 1) \ (B \cup Range(s)))
        = Cardinality((0 .. N - 1) \ B) - Cardinality(Range(s))
  BY TakeCard
<1>2. Cardinality(Range(s)) = Len(s)
  BY RangeCard
<1> QED BY <1>1, <1>2

\* Releasing a list of distinct frames that are all set raises the count by its length
\* (release_frames, swap_release_frames).
LEMMA ReleaseList ==
    ASSUME NEW N \in Nat, NEW B \in SUBSET (0 .. N - 1), NEW s \in Seq(Nat), Distinct(s),
           Range(s) \in SUBSET B
    PROVE  Cardinality((0 .. N - 1) \ (B \ Range(s))) = Cardinality((0 .. N - 1) \ B) + Len(s)
BY ReleaseCard, RangeCard

\* The number of free frames is between 0 and the number of frames.
LEMMA FreeBound ==
    ASSUME NEW N \in Nat, NEW B
    PROVE  Cardinality((0 .. N - 1) \ B) \in 0 .. N
<1>1. IsFiniteSet(0 .. N - 1)
  BY FS_Interval
<1>2. Cardinality(0 .. N - 1) = IF 0 > N - 1 THEN 0 ELSE N - 1 - 0 + 1
  BY FS_Interval
<1>3. Cardinality(0 .. N - 1) = N
  BY <1>2
<1>4. (0 .. N - 1) \ B \in SUBSET (0 .. N - 1)
  OBVIOUS
<1>5. Cardinality((0 .. N - 1) \ B) <= N /\ IsFiniteSet((0 .. N - 1) \ B)
  BY <1>1, <1>3, <1>4, FS_Subset
<1>6. Cardinality((0 .. N - 1) \ B) \in Nat
  BY <1>5, FS_CardinalityType
<1> QED BY <1>5, <1>6

\* The empty list.
LEMMA EmptyList == Range(<<>>) = {} /\ Distinct(<<>>) /\ <<>> \in Seq(Nat)
BY DEF Range, Distinct

-----------------------------------------------------------------------------
(* The inductive invariant. *)

\* TypeOK without the ranges of the two counts.
Types ==
    /\ frames_bitmap \subseteq Frames
    /\ swap_frames_bitmap \subseteq SwapFrames
    /\ process_list \subseteq Pids
    /\ allocated_frames \in [Pids -> Seq(Nat)]
    /\ page_table \in [Pids -> Seq(Nat)]
    /\ is_suspended \in [Pids -> BOOLEAN]
    /\ user_space \in [Frames -> Images]
    /\ swap_file \in [SwapFrames -> Images]
    /\ init_op \in InitOps
    /\ waiting \subseteq Requests
    /\ swap_op \in SwapOps

\* No list of frames repeats an entry.
Lists ==
    /\ \A p \in Pids : Distinct(allocated_frames[p])
    /\ Distinct(init_op.frames)
    /\ Distinct(swap_op.frames)

\* What the handlers under way know: the process being created is not in the
\* list yet, the one being moved is, and stays in the state it was found in.
Ops ==
    /\ init_op.pc # "assign" => init_op.frames = <<>>
    /\ init_op.pc # "idle" => init_op.pid \in Pids \ process_list
    /\ swap_op.pc \in {"idle", "alloc"} => swap_op.frames = <<>>
    /\ swap_op.pc # "idle" => /\ swap_op.pid \in process_list
                              /\ is_suspended[swap_op.pid] = (swap_op.kind = "UNSUSPEND")

\* The user bitmap is partitioned among the processes and the handlers.
UserOwned ==
    /\ \A p \in Resident : Range(allocated_frames[p]) \subseteq frames_bitmap
    /\ OfInit \subseteq frames_bitmap
    /\ OfSwapIn \subseteq frames_bitmap
    /\ \A p, q \in Resident : p # q => Range(allocated_frames[p]) \cap Range(allocated_frames[q]) = {}
    /\ \A p \in Resident : Range(allocated_frames[p]) \cap OfInit = {}
    /\ \A p \in Resident : Range(allocated_frames[p]) \cap OfSwapIn = {}
    /\ OfInit \cap OfSwapIn = {}
    /\ \A f \in frames_bitmap : \/ \E p \in Resident : f \in Range(allocated_frames[p])
                                \/ f \in OfInit
                                \/ f \in OfSwapIn

\* The swap bitmap covers the suspended processes and the suspension under way.
SwapOwned ==
    /\ \A p \in Suspended : Range(allocated_frames[p]) \subseteq swap_frames_bitmap
    /\ OfSwapOut \subseteq swap_frames_bitmap
    /\ \A p, q \in Suspended : p # q => Range(allocated_frames[p]) \cap Range(allocated_frames[q]) = {}
    /\ \A p \in Suspended : Range(allocated_frames[p]) \cap OfSwapOut = {}

IndInv == Types /\ Lists /\ Ops /\ UserOwned /\ SwapOwned /\ FreeCountsExact

\* Initially nobody holds a frame.
LEMMA InitIndInv == Init => IndInv
<1> SUFFICES ASSUME Init PROVE IndInv
  OBVIOUS
<1> USE MemoriaAssumption, EmptyList DEF Init
<1>1. Types
  <2>1. NoInit \in InitOps /\ NoSwap \in SwapOps
    BY DEF NoInit, NoSwap, InitOps, SwapOps
  <2>2. NoImage \in Images
    BY DEF NoImage, Images
  <2> QED BY <2>1, <2>2 DEF Types
<1>2. Lists
  BY DEF Lists, NoInit, NoSwap
<1>3. Ops
  BY DEF Ops, NoInit, NoSwap
<1>4. UserOwned
  BY DEF UserOwned, Resident, OfInit, OfSwapIn, NoInit, NoSwap
<1>5. SwapOwned
  BY DEF SwapOwned, Suspended, OfSwapOut, NoSwap
<1>6. FreeCountsExact
  <2>1. FramesTotal = Cardinality(Frames \ {})
    <3>1. Cardinality(0 .. FramesTotal - 1)
            = IF 0 > FramesTotal - 1 THEN 0 ELSE FramesTotal - 1 - 0 + 1
      BY FS_Interval
    <3>2. Frames \ {} = 0 .. FramesTotal - 1
      BY DEF Frames
    <3> QED BY <3>1, <3>2
  <2>2. SwapTotal = Cardinality(SwapFrames \ {})
    <3>1. Cardinality(0 .. SwapTotal - 1)
            = IF 0 > SwapTotal - 1 THEN 0 ELSE SwapTotal - 1 - 0 + 1
      BY FS_Interval
    <3>2. SwapFrames \ {} = 0 .. SwapTotal - 1
      BY DEF SwapFrames
    <3> QED BY <3>1, <3>2
  <2> QED BY <2>1, <2>2 DEF FreeCountsExact
<1> QED BY <1>1, <1>2, <1>3, <1>4, <1>5, <1>6 DEF IndInv

\* The invariant says what the runs check.
LEMMA IndInvImplies ==
    IndInv => TypeOK /\ NoSharedFrame /\ NoSharedSwapFrame /\ NoFrameLeak /\ FreeCountsExact
<1> SUFFICES ASSUME IndInv
             PROVE  TypeOK /\ NoSharedFrame /\ NoSharedSwapFrame /\ NoFrameLeak /\ FreeCountsExact
  OBVIOUS
<1> USE DEF IndInv
<1>1. TypeOK
  <2>1. Cardinality((0 .. FramesTotal - 1) \ frames_bitmap) \in 0 .. FramesTotal
    BY MemoriaAssumption, FreeBound
  <2>2. Cardinality((0 .. SwapTotal - 1) \ swap_frames_bitmap) \in 0 .. SwapTotal
    BY MemoriaAssumption, FreeBound
  <2> QED BY <2>1, <2>2 DEF TypeOK, Types, FreeCountsExact, Frames, SwapFrames
<1>2. NoSharedFrame
  BY DEF NoSharedFrame, UserOwned, OfProcess, Resident
<1>3. NoSharedSwapFrame
  BY DEF NoSharedSwapFrame, SwapOwned, SwapOfProcess, Suspended
<1>4. NoFrameLeak
  <2>1. Resident \subseteq Pids
    BY DEF Resident, Types
  <2>2. \A p \in Pids : OfProcess(p) = IF p \in Resident THEN Range(allocated_frames[p]) ELSE {}
    BY DEF OfProcess
  <2>3. \A f \in frames_bitmap : (\E p \in Pids : f \in OfProcess(p)) \/ f \in OfInit \/ f \in OfSwapIn
    BY <2>1, <2>2 DEF UserOwned
  <2>4. \A f : (\E p \in Pids : f \in OfProcess(p)) \/ f \in OfInit \/ f \in OfSwapIn
               => f \in frames_bitmap
    BY <2>1, <2>2 DEF UserOwned
  <2> HIDE DEF IndInv
  <2>5. ASSUME NEW f
        PROVE  f \in UNION { OfProcess(p) : p \in Pids } <=> \E p \in Pids : f \in OfProcess(p)
    BY Zenon
  <2> DEFINE U == UNION { OfProcess(p) : p \in Pids }
  <2>6. \A f : f \in U <=> \E p \in Pids : f \in OfProcess(p)
    BY <2>5
  <2> HIDE DEF U
  <2>7. \A f : f \in frames_bitmap <=> f \in U \cup OfInit \cup OfSwapIn
    BY <2>3, <2>4, <2>6
  <2>8. frames_bitmap = U \cup OfInit \cup OfSwapIn
    BY <2>7
  <2> QED BY <2>8 DEF NoFrameLeak, U
<1> QED BY <1>1, <1>2, <1>3, <1>4

\* The counting lemmas for the two bitmaps.
LEMMA UserTake ==
    ASSUME IndInv, NEW s \in Seq(Nat), Distinct(s), Range(s) \subseteq Frames \ frames_bitmap
    PROVE  Cardinality(Frames \ (frames_bitmap \cup Range(s))) = Cardinality(Frames \ frames_bitmap) - Len(s)
<1>1. frames_bitmap \in SUBSET (0 .. FramesTotal - 1) /\ FramesTotal \in Nat
  BY MemoriaAssumption DEF IndInv, Types, Frames
<1> QED BY <1>1, TakeList DEF Frames

\* release_frames keeps the user count exact for a list of set bits.
LEMMA UserRelease ==
    ASSUME IndInv, NEW s \in Seq(Nat), Distinct(s), Range(s) \subseteq frames_bitmap
    PROVE  Cardinality(Frames \ (frames_bitmap \ Range(s))) = Cardinality(Frames \ frames_bitmap) + Len(s)
<1>1. frames_bitmap \in SUBSET (0 .. FramesTotal - 1) /\ FramesTotal \in Nat
  BY MemoriaAssumption DEF IndInv, Types, Frames
<1> QED BY <1>1, ReleaseList DEF Frames

\* swap_allocate_frames keeps the swap count exact for a list of clear bits.
LEMMA SwapTake ==
    ASSUME IndInv, NEW s \in Seq(Nat), Distinct(s), Range(s) \subseteq SwapFrames \ swap_frames_bitmap
    PROVE  Cardinality(SwapFrames \ (swap_frames_bitmap \cup Range(s)))
              = Cardinality(SwapFrames \ swap_frames_bitmap) - Len(s)
<1>1. swap_frames_bitmap \in SUBSET (0 .. SwapTotal - 1) /\ SwapTotal \in Nat
  BY MemoriaAssumption DEF IndInv, Types, SwapFrames
<1> QED BY <1>1, TakeList DEF SwapFrames

\* swap_release_frames keeps the swap count exact for a list of set bits.
LEMMA SwapRelease ==
    ASSUME IndInv, NEW s \in Seq(Nat), Distinct(s), Range(s) \subseteq swap_frames_bitmap
    PROVE  Cardinality(SwapFrames \ (swap_frames_bitmap \ Range(s)))
              = Cardinality(SwapFrames \ swap_frames_bitmap) + Len(s)
<1>1. swap_frames_bitmap \in SUBSET (0 .. SwapTotal - 1) /\ SwapTotal \in Nat
  BY MemoriaAssumption DEF IndInv, Types, SwapFrames
<1> QED BY <1>1, ReleaseList DEF SwapFrames

-----------------------------------------------------------------------------
(* One lemma per operation: it preserves the invariant. *)

\* create_process of a process without pages gives it no frames.
LEMMA CreateEmptyInv ==
    ASSUME IndInv, NEW p \in Pids, CreateEmpty(p) PROVE IndInv'
<1> USE EmptyList DEF IndInv, CreateEmpty, userVars, swapVars
<1>1. init_op.pc = "idle" /\ init_op.frames = <<>>
  BY DEF NoInit
<1>2. Types'
  BY DEF Types
<1>3. Lists'
  BY DEF Lists, Types
<1>4. Ops'
  BY <1>1 DEF Ops, Types
<1>8. /\ Resident' = Resident \cup {p} /\ Suspended' = Suspended
      /\ p \notin Suspended
      /\ Range(allocated_frames'[p]) = {}
      /\ \A q \in Pids \ {p} : Range(allocated_frames'[q]) = Range(allocated_frames[q])
      /\ Resident \subseteq Pids /\ Suspended \subseteq Pids
  BY DEF Types, Resident, Suspended
<1>9. OfInit' = OfInit /\ OfSwapIn' = OfSwapIn /\ OfSwapOut' = OfSwapOut
  BY DEF OfInit, OfSwapIn, OfSwapOut
<1>10. p \notin Resident
  BY DEF Resident
<1>5. UserOwned'
  <2> HIDE EmptyList DEF CreateEmpty, IndInv
  <2>1. UserOwned /\ frames_bitmap' = frames_bitmap
    BY DEF IndInv, CreateEmpty
  <2> QED BY <2>1, <1>8, <1>9, <1>10 DEF UserOwned
<1>6. SwapOwned'
  BY <1>8, <1>9 DEF SwapOwned
<1>7. FreeCountsExact'
  BY DEF FreeCountsExact
<1> QED BY <1>2, <1>3, <1>4, <1>5, <1>6, <1>7

\* The check of the free count before the mutex changes no holder.
LEMMA CreateCheckInv ==
    ASSUME IndInv, NEW p \in Pids, NEW n \in Sizes, CreateCheck(p, n) PROVE IndInv'
<1> USE EmptyList DEF IndInv, CreateCheck, userVars, swapVars, procVars
<1>1. init_op.frames = <<>> /\ init_op'.frames = <<>>
  BY DEF NoInit
<1>2. Types'
  BY MemoriaAssumption DEF Types, InitOps
<1>3. Lists'
  BY <1>1 DEF Lists
<1>4. Ops'
  BY <1>1 DEF Ops
<1>5. UserOwned'
  BY <1>1 DEF UserOwned, Resident, OfInit, OfSwapIn
<1>6. SwapOwned'
  BY DEF SwapOwned, Suspended, OfSwapOut
<1>7. FreeCountsExact'
  BY DEF FreeCountsExact
<1> QED BY <1>2, <1>3, <1>4, <1>5, <1>6, <1>7

\* The new list is taken from clear bits, so it is disjoint from every holder's.
LEMMA CreateAllocInv ==
    ASSUME IndInv, CreateAlloc PROVE IndInv'
<1> USE EmptyList, MemoriaAssumption DEF IndInv, CreateAlloc, userVars, swapVars, procVars
<1>0. init_op.frames = <<>> /\ init_op.pages \in Nat
  BY DEF Ops, Types, InitOps
<1>3. \/ init_op' = NoInit /\ UNCHANGED userVars
      \/ /\ init_op.pages <= frames_free_count
         /\ \E s \in FirstFit(Frames, frames_bitmap, init_op.pages) :
                /\ TakeUser(s)
                /\ init_op' = IF Len(s) = init_op.pages
                              THEN [init_op EXCEPT !.pc = "assign", !.frames = s]
                              ELSE NoInit
  OBVIOUS
<1>1. CASE init_op' = NoInit /\ UNCHANGED userVars
  <2>1. init_op'.frames = <<>> /\ init_op'.pc = "idle"
    BY <1>1 DEF NoInit
  <2>2. Types'
    BY <1>1 DEF Types, NoInit, InitOps
  <2>3. Lists' /\ Ops'
    BY <2>1 DEF Lists, Ops
  <2>4. UserOwned'
    BY <1>0, <1>1, <2>1 DEF UserOwned, Resident, OfInit, OfSwapIn
  <2>5. SwapOwned' /\ FreeCountsExact'
    BY <1>1 DEF SwapOwned, Suspended, OfSwapOut, FreeCountsExact
  <2> QED BY <2>2, <2>3, <2>4, <2>5
<1>2. CASE /\ init_op.pages <= frames_free_count
           /\ \E s \in FirstFit(Frames, frames_bitmap, init_op.pages) :
                /\ TakeUser(s)
                /\ init_op' = IF Len(s) = init_op.pages
                              THEN [init_op EXCEPT !.pc = "assign", !.frames = s]
                              ELSE NoInit
  <2>1. PICK s \in FirstFit(Frames, frames_bitmap, init_op.pages) :
          /\ TakeUser(s)
          /\ init_op' = IF Len(s) = init_op.pages
                        THEN [init_op EXCEPT !.pc = "assign", !.frames = s]
                        ELSE NoInit
    BY <1>2
  <2>2. /\ s \in Seq(Nat) /\ Range(s) \subseteq Frames \ frames_bitmap /\ Distinct(s)
        /\ Len(s) = init_op.pages
    BY <1>0, <1>2, <2>1, FirstFitLemma, FirstFitFull DEF Frames, FreeCountsExact
  <2>3. /\ init_op' = [init_op EXCEPT !.pc = "assign", !.frames = s]
        /\ init_op'.frames = s /\ init_op'.pc = "assign" /\ init_op'.pid = init_op.pid
    BY <2>1, <2>2 DEF Types, InitOps
  <2>4. frames_bitmap' = frames_bitmap \cup Range(s) /\ frames_free_count' = frames_free_count - Len(s)
    BY <2>1 DEF TakeUser
  <2>5. Types'
    BY <2>2, <2>3, <2>4 DEF Types, InitOps
  <2>6. Lists' /\ Ops'
    BY <2>2, <2>3 DEF Lists, Ops, Types, InitOps
  <2>7. UserOwned'
    <3>1. /\ Resident' = Resident /\ OfSwapIn' = OfSwapIn /\ OfInit' = Range(s) /\ OfInit = {}
          /\ allocated_frames' = allocated_frames
      BY <1>0, <2>3 DEF Resident, OfSwapIn, OfInit
    <3> QED BY <3>1, <2>2, <2>4 DEF UserOwned
  <2>8. SwapOwned'
    BY DEF SwapOwned, Suspended, OfSwapOut
  <2>9. FreeCountsExact'
    <3>1. Cardinality(Frames \ (frames_bitmap \cup Range(s))) = Cardinality(Frames \ frames_bitmap) - Len(s)
      BY <2>2, UserTake
    <3> QED BY <3>1, <2>4 DEF FreeCountsExact
  <2> QED BY <2>5, <2>6, <2>7, <2>8, <2>9
<1> QED BY <1>1, <1>2, <1>3

\* The frames of the handler become the frames of the new process, or go back.
LEMMA CreateAssignInv ==
    ASSUME IndInv, CreateAssign PROVE IndInv'
<1> USE EmptyList, MemoriaAssumption DEF IndInv, CreateAssign, swapVars
<1>0. /\ init_op.pid \in Pids \ process_list /\ init_op.frames \in Seq(Nat)
      /\ Distinct(init_op.frames) /\ Range(init_op.frames) \subseteq frames_bitmap
      /\ init_op'.frames = <<>> /\ init_op'.pc = "idle" /\ OfInit' = {}
  BY DEF Ops, Types, InitOps, NoInit, Lists, UserOwned, OfInit
<1>1. CASE init_op.pages <= TableCapacity
  <2>1. /\ process_list' = process_list \cup {init_op.pid}
        /\ allocated_frames' = [allocated_frames EXCEPT ![init_op.pid] = init_op.frames]
        /\ page_table' = [page_table EXCEPT ![init_op.pid] = init_op.frames]
        /\ is_suspended' = [is_suspended EXCEPT ![init_op.pid] = FALSE]
        /\ user_space' = [f \in Frames |->
                IF f \in Range(init_op.frames)
                THEN Image(init_op.pid, CHOOSE i \in DOMAIN init_op.frames : init_op.frames[i] = f)
                ELSE user_space[f]]
        /\ UNCHANGED <<frames_bitmap, frames_free_count>>
    <3>1. ~(init_op.pages > TableCapacity)
      BY <1>1 DEF Types, InitOps
    <3> HIDE DEF IndInv
    <3> QED BY <3>1, Zenon DEF userVars
  <2>2. Types'
    <3>1. user_space' \in [Frames -> Images]
      <4>1. ASSUME NEW f \in Frames, f \in Range(init_op.frames)
            PROVE  (CHOOSE i \in DOMAIN init_op.frames : init_op.frames[i] = f) \in Nat
        <5>1. \E i \in DOMAIN init_op.frames : init_op.frames[i] = f
          BY <4>1 DEF Range
        <5> QED BY <5>1, <1>0
      <4> QED BY <4>1, <2>1, <1>0 DEF Types, Images, Image
    <3>2. init_op' \in InitOps
      BY DEF NoInit, InitOps
    <3> QED BY <3>1, <3>2, <2>1, <1>0 DEF Types
  <2>3. Lists' /\ Ops'
    BY <2>1, <1>0 DEF Lists, Ops, Types, InitOps
  <2>4. /\ Resident' = Resident \cup {init_op.pid} /\ Suspended' = Suspended
        /\ init_op.pid \notin Resident /\ init_op.pid \notin Suspended
        /\ Resident \subseteq Pids /\ Suspended \subseteq Pids
        /\ Range(allocated_frames'[init_op.pid]) = OfInit
        /\ \A q \in Pids \ {init_op.pid} : Range(allocated_frames'[q]) = Range(allocated_frames[q])
        /\ OfSwapIn' = OfSwapIn /\ OfSwapOut' = OfSwapOut
    BY <2>1, <1>0 DEF Types, Resident, Suspended, OfInit, OfSwapIn, OfSwapOut
  <2> HIDE EmptyList, MemoriaAssumption DEF CreateAssign, IndInv
  <2>5. UserOwned /\ frames_bitmap' = frames_bitmap /\ SwapOwned /\ swap_frames_bitmap' = swap_frames_bitmap
    BY <2>1 DEF IndInv, CreateAssign
  <2>6. UserOwned'
    <3> DEFINE new == init_op.pid
               held(q) == Range(allocated_frames[q])
               next(q) == Range(allocated_frames'[q])
    <3>1. /\ \A q \in Resident' : q = new \/ (q \in Resident /\ next(q) = held(q))
          /\ next(new) = OfInit /\ new \in Resident' /\ OfInit' = {}
          /\ Resident \subseteq Resident' /\ \A q \in Resident : next(q) = held(q)
      BY <2>4, <1>0
    <3> HIDE DEF new, held, next
    <3>2. /\ \A q \in Resident : held(q) \subseteq frames_bitmap /\ held(q) \cap OfInit = {}
                                /\ held(q) \cap OfSwapIn = {}
          /\ \A p, q \in Resident : p # q => held(p) \cap held(q) = {}
          /\ OfInit \subseteq frames_bitmap /\ OfSwapIn \subseteq frames_bitmap
          /\ OfInit \cap OfSwapIn = {}
          /\ \A f \in frames_bitmap : (\E q \in Resident : f \in held(q)) \/ f \in OfInit \/ f \in OfSwapIn
      BY <2>5 DEF UserOwned, held
    <3>3. /\ \A q \in Resident' : next(q) \subseteq frames_bitmap /\ next(q) \cap OfSwapIn = {}
          /\ \A p, q \in Resident' : p # q => next(p) \cap next(q) = {}
          /\ \A f \in frames_bitmap : (\E q \in Resident' : f \in next(q)) \/ f \in OfSwapIn
      BY <3>1, <3>2
    <3> QED BY <3>1, <3>2, <3>3, <2>4, <2>5 DEF UserOwned, next
  <2>7. SwapOwned'
    BY <2>4, <2>5 DEF SwapOwned
  <2>8. FreeCountsExact'
    BY <2>1 DEF IndInv, CreateAssign, FreeCountsExact
  <2> QED BY <2>2, <2>3, <2>6, <2>7, <2>8 DEF IndInv
<1>2. CASE init_op.pages > TableCapacity
  <2>1. /\ frames_bitmap' = frames_bitmap \ Range(init_op.frames)
        /\ frames_free_count' = frames_free_count + Len(init_op.frames)
        /\ UNCHANGED <<process_list, allocated_frames, page_table, is_suspended, user_space>>
    BY <1>2, <1>0 DEF Types, InitOps, procVars, release_frames
  <2>2. Types'
    BY <2>1 DEF Types, NoInit, InitOps
  <2>3. Lists' /\ Ops'
    BY <2>1, <1>0 DEF Lists, Ops
  <2>4. Resident' = Resident /\ OfSwapIn' = OfSwapIn /\ OfInit = Range(init_op.frames)
    BY <2>1 DEF Resident, OfSwapIn, OfInit
  <2>5. UserOwned'
    BY <2>1, <2>4, <1>0 DEF UserOwned
  <2>6. SwapOwned'
    BY <2>1 DEF SwapOwned, Suspended, OfSwapOut
  <2>7. FreeCountsExact'
    <3>1. Cardinality(Frames \ (frames_bitmap \ Range(init_op.frames)))
            = Cardinality(Frames \ frames_bitmap) + Len(init_op.frames)
      BY <1>0, UserRelease
    <3> QED BY <3>1, <2>1 DEF FreeCountsExact
  <2> QED BY <2>2, <2>3, <2>5, <2>6, <2>7
<1> QED BY <1>0, <1>1, <1>2 DEF Types, InitOps

\* A SWAP or UNSUSPEND request that waits for sem_swap_file changes no holder.
LEMMA RequestInv ==
    ASSUME IndInv, NEW kind \in {"SWAP", "UNSUSPEND"}, NEW p \in Pids, Request(kind, p) PROVE IndInv'
<1> USE DEF IndInv, Request, userVars, swapVars, procVars
<1>1. Types'
  BY DEF Types, Requests
<1>2. Lists' /\ Ops'
  BY DEF Lists, Ops
<1>3. UserOwned' /\ SwapOwned' /\ FreeCountsExact'
  BY DEF UserOwned, SwapOwned, FreeCountsExact, Resident, Suspended, OfInit, OfSwapIn, OfSwapOut
<1> QED BY <1>1, <1>2, <1>3

\* The handler starts with no frames, whatever it decides.
LEMMA SwapLockInv ==
    ASSUME IndInv, NEW kind \in {"SWAP", "UNSUSPEND"}, NEW p \in Pids, SwapLock(kind, p) PROVE IndInv'
<1> USE EmptyList DEF IndInv, SwapLock, userVars, swapVars, procVars
<1>1. swap_op.frames = <<>> /\ swap_op'.frames = <<>>
  BY DEF Ops, NoSwap
<1>2. Types'
  BY DEF Types, Requests, SwapOps, NoSwap
<1>3. Lists'
  BY <1>1 DEF Lists
<1>4. Ops'
  BY <1>1 DEF Ops, NoSwap
<1>5. OfSwapIn = {} /\ OfSwapOut = {} /\ OfSwapIn' = {} /\ OfSwapOut' = {}
  BY <1>1 DEF OfSwapIn, OfSwapOut
<1>6. Resident' = Resident /\ Suspended' = Suspended /\ OfInit' = OfInit
  BY DEF Resident, Suspended, OfInit
<1>7. UserOwned' /\ SwapOwned' /\ FreeCountsExact'
  BY <1>5, <1>6 DEF UserOwned, SwapOwned, FreeCountsExact
<1> QED BY <1>2, <1>3, <1>4, <1>7

\* A handler that gives up leaves both bitmaps as they are, provided it held no
\* user frames; the swap frames of a failed suspension are only lost.
LEMMA GiveUpInv ==
    ASSUME IndInv, swap_op.pc # "idle", OfSwapIn = {}, swap_op' = NoSwap,
           UNCHANGED <<userVars, swapVars, procVars, init_op, waiting>>,
           user_space' \in [Frames -> Images], swap_file' \in [SwapFrames -> Images]
    PROVE  IndInv'
<1> USE EmptyList DEF IndInv, userVars, swapVars, procVars
<1>1. swap_op'.frames = <<>> /\ swap_op'.pc = "idle" /\ swap_op' \in SwapOps
  BY DEF NoSwap, SwapOps
<1>2. Types'
  BY <1>1 DEF Types
<1>3. Lists' /\ Ops'
  BY <1>1 DEF Lists, Ops
<1>4. /\ OfSwapIn' = {} /\ OfSwapOut' = {} /\ Resident' = Resident /\ Suspended' = Suspended
      /\ OfInit' = OfInit
  BY <1>1 DEF OfSwapIn, OfSwapOut, Resident, Suspended, OfInit
<1>5. UserOwned' /\ SwapOwned' /\ FreeCountsExact'
  BY <1>4 DEF UserOwned, SwapOwned, FreeCountsExact
<1> QED BY <1>2, <1>3, <1>5

\* A handler that goes from one phase to the next with the frames it has.
LEMMA SameHoldersInv ==
    ASSUME IndInv, swap_op.pc = "copy", swap_op' \in SwapOps,
           swap_op'.pc = "commit", swap_op'.kind = swap_op.kind,
           swap_op'.pid = swap_op.pid, swap_op'.frames = swap_op.frames,
           UNCHANGED <<userVars, swapVars, procVars, init_op, waiting>>,
           user_space' \in [Frames -> Images], swap_file' \in [SwapFrames -> Images]
    PROVE  IndInv'
<1> USE DEF IndInv, userVars, swapVars, procVars
<1>1. Types'
  BY DEF Types
<1>2. Lists' /\ Ops'
  BY DEF Lists, Ops
<1>3. /\ OfSwapIn' = OfSwapIn /\ OfSwapOut' = OfSwapOut /\ Resident' = Resident
      /\ Suspended' = Suspended /\ OfInit' = OfInit
  BY DEF OfSwapIn, OfSwapOut, Resident, Suspended, OfInit
<1>4. UserOwned' /\ SwapOwned' /\ FreeCountsExact'
  BY <1>3 DEF UserOwned, SwapOwned, FreeCountsExact
<1> QED BY <1>1, <1>2, <1>4

\* Like CreateAlloc, on the swap bitmap.
LEMMA SwapOutAllocInv ==
    ASSUME IndInv, SwapOutAlloc PROVE IndInv'
<1> DEFINE n == Len(allocated_frames[swap_op.pid])
<1>3. swap_op.pc = "alloc" /\ swap_op.kind = "SWAP"
  BY DEF SwapOutAlloc
<1>4. swap_op.frames = <<>> /\ swap_op.pid \in process_list
  BY <1>3 DEF IndInv, Ops
<1>5. n \in Nat
  BY <1>4 DEF IndInv, Types
<1>6. OfSwapIn = {} /\ OfSwapOut = {}
  BY <1>3, <1>4, EmptyList DEF OfSwapIn, OfSwapOut
<1>0. /\ swap_op.frames = <<>> /\ swap_op.pid \in process_list /\ n \in Nat
      /\ swap_op.pc = "alloc" /\ swap_op.kind = "SWAP" /\ OfSwapIn = {} /\ OfSwapOut = {}
  BY <1>3, <1>4, <1>5, <1>6
<1>1. CASE swap_op' = NoSwap /\ UNCHANGED swapVars
  BY <1>0, <1>1, GiveUpInv DEF SwapOutAlloc, IndInv, Types, userVars, procVars
<1>2. CASE /\ n <= swap_frames_free_count
           /\ \E s \in FirstFit(SwapFrames, swap_frames_bitmap, n) :
                 /\ TakeSwap(s)
                 /\ swap_op' = IF Len(s) = n
                               THEN [swap_op EXCEPT !.pc = "copy", !.frames = s]
                               ELSE NoSwap
  <2>1. PICK s \in FirstFit(SwapFrames, swap_frames_bitmap, n) :
          /\ TakeSwap(s)
          /\ swap_op' = IF Len(s) = n
                        THEN [swap_op EXCEPT !.pc = "copy", !.frames = s]
                        ELSE NoSwap
    BY <1>2
  <2>2. /\ s \in Seq(Nat) /\ Range(s) \subseteq SwapFrames \ swap_frames_bitmap /\ Distinct(s)
        /\ Len(s) = n
    BY <1>0, <1>2, <2>1, FirstFitLemma, FirstFitFull, MemoriaAssumption
       DEF SwapFrames, FreeCountsExact, IndInv
  <2>3. /\ swap_op' = [swap_op EXCEPT !.pc = "copy", !.frames = s]
        /\ swap_op' \in SwapOps
        /\ swap_op'.frames = s /\ swap_op'.pc = "copy" /\ swap_op'.pid = swap_op.pid
        /\ swap_op'.kind = "SWAP"
    BY <1>0, <2>1, <2>2 DEF Types, SwapOps, IndInv
  <2>4. /\ swap_frames_bitmap' = swap_frames_bitmap \cup Range(s)
        /\ swap_frames_free_count' = swap_frames_free_count - Len(s)
    BY <2>1 DEF TakeSwap
  <2> USE DEF IndInv, SwapOutAlloc, userVars, procVars
  <2>5. Types'
    BY <2>2, <2>3, <2>4 DEF Types
  <2>6. Lists' /\ Ops'
    <3>1. Lists'
      BY <2>2, <2>3 DEF Lists
    <3>2. Ops /\ UNCHANGED <<process_list, is_suspended, init_op>> /\ swap_op'.kind = swap_op.kind
      BY <1>0, <2>3
    <3> HIDE DEF SwapOutAlloc, IndInv
    <3>3. Ops'
      BY <1>0, <2>3, <3>2 DEF Ops
    <3> QED BY <3>1, <3>3
  <2>7. /\ Resident' = Resident /\ Suspended' = Suspended /\ OfInit' = OfInit
        /\ OfSwapIn' = {} /\ OfSwapOut' = Range(s)
    BY <2>3 DEF Resident, Suspended, OfInit, OfSwapIn, OfSwapOut
  <2>8. UserOwned'
    BY <1>0, <2>7 DEF UserOwned
  <2>9. SwapOwned'
    BY <1>0, <2>2, <2>4, <2>7 DEF SwapOwned
  <2>10. FreeCountsExact'
    <3>1. Cardinality(SwapFrames \ (swap_frames_bitmap \cup Range(s)))
            = Cardinality(SwapFrames \ swap_frames_bitmap) - Len(s)
      BY <2>2, SwapTake
    <3> QED BY <3>1, <2>4 DEF FreeCountsExact
  <2> QED BY <2>5, <2>6, <2>8, <2>9, <2>10
<1> QED BY <1>1, <1>2 DEF SwapOutAlloc

\* Copying page images moves no frame.
LEMMA SwapOutCopyInv ==
    ASSUME IndInv, SwapOutCopy PROVE IndInv'
<1> DEFINE from == allocated_frames[swap_op.pid]
           written(k) == [g \in SwapFrames |->
               IF \E i \in 1 .. k : swap_op.frames[i] = g
               THEN user_space[from[CHOOSE i \in 1 .. k : swap_op.frames[i] = g]]
               ELSE swap_file[g]]
<1>1. swap_op.pc = "copy" /\ swap_op.kind = "SWAP"
  BY DEF SwapOutCopy
<1>2. swap_op.pid \in Resident /\ OfSwapIn = {}
  BY <1>1 DEF IndInv, Ops, Resident, OfSwapIn
<1>3. from \in Seq(Nat) /\ Range(from) \subseteq Frames
  BY <1>2 DEF IndInv, UserOwned, Types, Resident
<1>4. ASSUME NEW k \in 0 .. Len(from) PROVE written(k) \in [SwapFrames -> Images]
  <2>1. ASSUME NEW g \in SwapFrames, \E i \in 1 .. k : swap_op.frames[i] = g
        PROVE  user_space[from[CHOOSE i \in 1 .. k : swap_op.frames[i] = g]] \in Images
    <3>1. (CHOOSE i \in 1 .. k : swap_op.frames[i] = g) \in 1 .. k
      BY <2>1
    <3>2. \A i \in 1 .. k : from[i] \in Frames
      BY <1>3, <1>4 DEF Range
    <3> QED BY <3>1, <3>2 DEF IndInv, Types
  <2>2. \A g \in SwapFrames : swap_file[g] \in Images
    BY DEF IndInv, Types
  <2> QED BY <2>1, <2>2
<1>5. CASE swap_file' = written(Len(from)) /\ swap_op' = [swap_op EXCEPT !.pc = "commit"]
  <2>0. Len(from) \in 0 .. Len(from)
    BY <1>3
  <2>1. swap_file' \in [SwapFrames -> Images]
    BY <1>4, <1>5, <2>0
  <2>2. /\ swap_op' \in SwapOps /\ swap_op'.pc = "commit" /\ swap_op'.kind = swap_op.kind
        /\ swap_op'.pid = swap_op.pid /\ swap_op'.frames = swap_op.frames
    BY <1>5 DEF IndInv, Types, SwapOps
  <2>3. UNCHANGED <<userVars, swapVars, procVars, user_space, init_op, waiting>> /\ IndInv
    BY DEF SwapOutCopy
  <2> QED BY <1>1, <2>1, <2>2, <2>3, SameHoldersInv DEF IndInv, Types
<1>6. CASE \E k \in 0 .. Len(from) - 1 : swap_file' = written(k) /\ swap_op' = NoSwap
  <2>1. PICK k \in 0 .. Len(from) - 1 : swap_file' = written(k) /\ swap_op' = NoSwap
    BY <1>6
  <2>2. k \in 0 .. Len(from)
    BY <1>3
  <2>3. swap_file' \in [SwapFrames -> Images]
    BY <1>4, <2>1, <2>2
  <2>4. UNCHANGED <<userVars, swapVars, procVars, user_space, init_op, waiting>>
    BY DEF SwapOutCopy
  <2> QED BY <1>1, <1>2, <2>1, <2>3, <2>4, GiveUpInv DEF IndInv, Types
<1> QED BY <1>5, <1>6 DEF SwapOutCopy

\* The user frames of the process go back; the swap frames of the handler
\* become its frames.
LEMMA SwapOutCommitInv ==
    ASSUME IndInv, SwapOutCommit PROVE IndInv'
<1> DEFINE p == swap_op.pid
<1>1. swap_op.pc = "commit" /\ swap_op.kind = "SWAP"
  BY DEF SwapOutCommit
<1>2. /\ p \in Resident /\ p \in Pids /\ p \in process_list /\ p \notin Suspended
      /\ OfSwapIn = {} /\ OfSwapOut = Range(swap_op.frames)
      /\ Resident \subseteq Pids /\ Suspended \subseteq Pids
  BY <1>1 DEF IndInv, Ops, Types, Resident, Suspended, OfSwapIn, OfSwapOut
<1>3. /\ allocated_frames[p] \in Seq(Nat) /\ Distinct(allocated_frames[p])
      /\ Range(allocated_frames[p]) \subseteq frames_bitmap
      /\ swap_op.frames \in Seq(Nat) /\ Distinct(swap_op.frames)
  BY <1>2 DEF IndInv, Types, Lists, UserOwned, SwapOps
<1>4. /\ frames_bitmap' = frames_bitmap \ Range(allocated_frames[p])
      /\ frames_free_count' = frames_free_count + Len(allocated_frames[p])
      /\ allocated_frames' = [allocated_frames EXCEPT ![p] = swap_op.frames]
      /\ is_suspended' = [is_suspended EXCEPT ![p] = TRUE]
      /\ swap_op' = NoSwap
      /\ UNCHANGED <<swap_frames_bitmap, swap_frames_free_count, process_list, page_table,
                     user_space, swap_file, init_op, waiting>>
  BY DEF SwapOutCommit, release_frames, swapVars
<1>5. swap_op'.frames = <<>> /\ swap_op'.pc = "idle" /\ swap_op' \in SwapOps
  BY <1>4, EmptyList DEF NoSwap, SwapOps
<1>6. /\ Resident' = Resident \ {p} /\ Suspended' = Suspended \cup {p}
      /\ Range(allocated_frames'[p]) = OfSwapOut
      /\ \A q \in Pids \ {p} : Range(allocated_frames'[q]) = Range(allocated_frames[q])
      /\ OfInit' = OfInit /\ OfSwapIn' = {} /\ OfSwapOut' = {}
  BY <1>2, <1>4, <1>5, EmptyList DEF IndInv, Types, Resident, Suspended, OfInit, OfSwapIn, OfSwapOut
<1>7. Types'
  BY <1>2, <1>3, <1>4, <1>5 DEF IndInv, Types
<1>8. Lists'
  BY <1>2, <1>3, <1>4, <1>5, EmptyList DEF IndInv, Lists, Types
<1>9. Ops'
  BY <1>4, <1>5 DEF IndInv, Ops
<1>10. UserOwned'
  BY <1>2, <1>4, <1>6 DEF IndInv, UserOwned
<1>11. SwapOwned'
  <2>1. /\ \A q \in Suspended' : q = p \/ (q \in Suspended /\ Range(allocated_frames'[q]) = Range(allocated_frames[q]))
        /\ swap_frames_bitmap' = swap_frames_bitmap
    BY <1>2, <1>4, <1>6
  <2> QED BY <2>1, <1>2, <1>6 DEF IndInv, SwapOwned
<1>12. FreeCountsExact'
  <2>1. Cardinality(Frames \ (frames_bitmap \ Range(allocated_frames[p])))
          = Cardinality(Frames \ frames_bitmap) + Len(allocated_frames[p])
    BY <1>3, UserRelease
  <2> QED BY <1>4, <2>1 DEF IndInv, FreeCountsExact
<1> QED BY <1>7, <1>8, <1>9, <1>10, <1>11, <1>12 DEF IndInv

\* Resumption competes with creation for the user bitmap, and wins clear bits only.
LEMMA SwapInAllocInv ==
    ASSUME IndInv, SwapInAlloc PROVE IndInv'
<1> DEFINE n == Len(allocated_frames[swap_op.pid])
<1>1. swap_op.pc = "alloc" /\ swap_op.kind = "UNSUSPEND"
  BY DEF SwapInAlloc
<1>2. swap_op.frames = <<>> /\ swap_op.pid \in process_list
  BY <1>1 DEF IndInv, Ops
<1>3. n \in Nat
  BY <1>2 DEF IndInv, Types
<1>4. OfSwapIn = {} /\ OfSwapOut = {}
  BY <1>1, <1>2, EmptyList DEF OfSwapIn, OfSwapOut
<1>5. CASE swap_op' = NoSwap /\ UNCHANGED userVars
  BY <1>1, <1>4, <1>5, GiveUpInv DEF SwapInAlloc, IndInv, Types, swapVars, procVars
<1>6. CASE /\ n <= frames_free_count
           /\ \E s \in FirstFit(Frames, frames_bitmap, n) :
                 /\ TakeUser(s)
                 /\ swap_op' = IF Len(s) = n
                               THEN [swap_op EXCEPT !.pc = "copy", !.frames = s]
                               ELSE NoSwap
  <2>1. PICK s \in FirstFit(Frames, frames_bitmap, n) :
          /\ TakeUser(s)
          /\ swap_op' = IF Len(s) = n
                        THEN [swap_op EXCEPT !.pc = "copy", !.frames = s]
                        ELSE NoSwap
    BY <1>6
  <2>2. /\ s \in Seq(Nat) /\ Range(s) \subseteq Frames \ frames_bitmap /\ Distinct(s)
        /\ Len(s) = n
    BY <1>3, <1>6, <2>1, FirstFitLemma, FirstFitFull, MemoriaAssumption
       DEF Frames, FreeCountsExact, IndInv
  <2>3. /\ swap_op' \in SwapOps
        /\ swap_op'.frames = s /\ swap_op'.pc = "copy" /\ swap_op'.pid = swap_op.pid
        /\ swap_op'.kind = swap_op.kind
    BY <2>1, <2>2 DEF Types, SwapOps, IndInv
  <2>4. /\ frames_bitmap' = frames_bitmap \cup Range(s)
        /\ frames_free_count' = frames_free_count - Len(s)
        /\ UNCHANGED <<swap_frames_bitmap, swap_frames_free_count, process_list,
                       allocated_frames, page_table, is_suspended, user_space, swap_file,
                       init_op, waiting>>
    BY <2>1 DEF TakeUser, SwapInAlloc, swapVars, procVars
  <2>5. Types'
    BY <2>2, <2>3, <2>4 DEF IndInv, Types
  <2>6. Lists'
    BY <2>2, <2>3, <2>4 DEF IndInv, Lists
  <2>7. Ops'
    BY <1>1, <2>3, <2>4 DEF IndInv, Ops
  <2>8. /\ Resident' = Resident /\ Suspended' = Suspended /\ OfInit' = OfInit
        /\ OfSwapIn' = Range(s) /\ OfSwapOut' = {}
    BY <1>1, <2>3, <2>4 DEF Resident, Suspended, OfInit, OfSwapIn, OfSwapOut
  <2>9. UserOwned'
    BY <1>4, <2>2, <2>4, <2>8 DEF IndInv, UserOwned
  <2>10. SwapOwned'
    BY <1>4, <2>4, <2>8 DEF IndInv, SwapOwned
  <2>11. FreeCountsExact'
    <3>1. Cardinality(Frames \ (frames_bitmap \cup Range(s))) = Cardinality(Frames \ frames_bitmap) - Len(s)
      BY <2>2, UserTake
    <3> QED BY <3>1, <2>4 DEF IndInv, FreeCountsExact
  <2> QED BY <2>5, <2>6, <2>7, <2>9, <2>10, <2>11 DEF IndInv
<1> QED BY <1>5, <1>6 DEF SwapInAlloc

\* The pages come back, or the user frames of the handler are released.
LEMMA SwapInCopyInv ==
    ASSUME IndInv, SwapInCopy PROVE IndInv'
<1> DEFINE from == allocated_frames[swap_op.pid]
           loaded(k) == [f \in Frames |->
               IF \E i \in 1 .. k : swap_op.frames[i] = f
               THEN swap_file[from[CHOOSE i \in 1 .. k : swap_op.frames[i] = f]]
               ELSE user_space[f]]
<1>1. swap_op.pc = "copy" /\ swap_op.kind = "UNSUSPEND"
  BY DEF SwapInCopy
<1>2. swap_op.pid \in Suspended /\ OfSwapIn = Range(swap_op.frames) /\ OfSwapOut = {}
  BY <1>1 DEF IndInv, Ops, Suspended, OfSwapIn, OfSwapOut
<1>3. from \in Seq(Nat) /\ Range(from) \subseteq SwapFrames
  BY <1>2 DEF IndInv, SwapOwned, Types, Suspended
<1>4. ASSUME NEW k \in 0 .. Len(from) PROVE loaded(k) \in [Frames -> Images]
  <2>1. ASSUME NEW f \in Frames, \E i \in 1 .. k : swap_op.frames[i] = f
        PROVE  swap_file[from[CHOOSE i \in 1 .. k : swap_op.frames[i] = f]] \in Images
    <3>1. (CHOOSE i \in 1 .. k : swap_op.frames[i] = f) \in 1 .. k
      BY <2>1
    <3>2. \A i \in 1 .. k : from[i] \in SwapFrames
      BY <1>3, <1>4 DEF Range
    <3> QED BY <3>1, <3>2 DEF IndInv, Types
  <2>2. \A f \in Frames : user_space[f] \in Images
    BY DEF IndInv, Types
  <2> QED BY <2>1, <2>2
<1>5. CASE user_space' = loaded(Len(from)) /\ swap_op' = [swap_op EXCEPT !.pc = "commit"] /\ UNCHANGED userVars
  <2>1. Len(from) \in 0 .. Len(from)
    BY <1>3
  <2>2. user_space' \in [Frames -> Images]
    BY <1>4, <1>5, <2>1
  <2>3. /\ swap_op' \in SwapOps /\ swap_op'.pc = "commit" /\ swap_op'.kind = swap_op.kind
        /\ swap_op'.pid = swap_op.pid /\ swap_op'.frames = swap_op.frames
    BY <1>5 DEF IndInv, Types, SwapOps
  <2>4. UNCHANGED <<userVars, swapVars, procVars, swap_file, init_op, waiting>>
    BY <1>5 DEF SwapInCopy
  <2> QED BY <1>1, <2>2, <2>3, <2>4, SameHoldersInv DEF IndInv, Types
<1>6. CASE \E k \in 0 .. Len(from) - 1 :
              user_space' = loaded(k) /\ release_frames(swap_op.frames) /\ swap_op' = NoSwap
  <2>1. PICK k \in 0 .. Len(from) - 1 :
              user_space' = loaded(k) /\ release_frames(swap_op.frames) /\ swap_op' = NoSwap
    BY <1>6
  <2>2. k \in 0 .. Len(from)
    BY <1>3
  <2>3. user_space' \in [Frames -> Images]
    BY <1>4, <2>1, <2>2
  <2>4. /\ swap_op.frames \in Seq(Nat) /\ Distinct(swap_op.frames)
        /\ Range(swap_op.frames) \subseteq frames_bitmap
    BY <1>2 DEF IndInv, Types, SwapOps, Lists, UserOwned
  <2>5. /\ frames_bitmap' = frames_bitmap \ OfSwapIn
        /\ frames_free_count' = frames_free_count + Len(swap_op.frames)
        /\ UNCHANGED <<swap_frames_bitmap, swap_frames_free_count, process_list,
                       allocated_frames, page_table, is_suspended, swap_file, init_op, waiting>>
    BY <1>2, <2>1 DEF release_frames, SwapInCopy, swapVars, procVars
  <2>6. swap_op'.frames = <<>> /\ swap_op'.pc = "idle" /\ swap_op' \in SwapOps
    BY <2>1, EmptyList DEF NoSwap, SwapOps
  <2>7. /\ Resident' = Resident /\ Suspended' = Suspended /\ OfInit' = OfInit
        /\ OfSwapIn' = {} /\ OfSwapOut' = {}
    BY <2>5, <2>6, EmptyList DEF Resident, Suspended, OfInit, OfSwapIn, OfSwapOut
  <2>8. Types'
    BY <2>3, <2>5, <2>6 DEF IndInv, Types
  <2>9. Lists' /\ Ops'
    BY <2>5, <2>6, EmptyList DEF IndInv, Lists, Ops
  <2>10. UserOwned'
    BY <2>5, <2>7 DEF IndInv, UserOwned
  <2>11. SwapOwned'
    BY <2>5, <2>7 DEF IndInv, SwapOwned
  <2>12. FreeCountsExact'
    <3>1. Cardinality(Frames \ (frames_bitmap \ Range(swap_op.frames)))
            = Cardinality(Frames \ frames_bitmap) + Len(swap_op.frames)
      BY <2>4, UserRelease
    <3> QED BY <3>1, <1>2, <2>5 DEF IndInv, FreeCountsExact
  <2> QED BY <2>8, <2>9, <2>10, <2>11, <2>12 DEF IndInv
<1> QED BY <1>5, <1>6 DEF SwapInCopy

\* The swap frames of the process go back; the user frames of the handler
\* become its frames.
LEMMA SwapInCommitInv ==
    ASSUME IndInv, SwapInCommit PROVE IndInv'
<1> DEFINE p == swap_op.pid
<1>1. swap_op.pc = "commit" /\ swap_op.kind = "UNSUSPEND"
  BY DEF SwapInCommit
<1>2. /\ p \in Suspended /\ p \in Pids /\ p \in process_list /\ p \notin Resident
      /\ OfSwapOut = {} /\ OfSwapIn = Range(swap_op.frames)
      /\ Resident \subseteq Pids /\ Suspended \subseteq Pids
  BY <1>1 DEF IndInv, Ops, Types, Resident, Suspended, OfSwapIn, OfSwapOut
<1>3. /\ allocated_frames[p] \in Seq(Nat) /\ Distinct(allocated_frames[p])
      /\ Range(allocated_frames[p]) \subseteq swap_frames_bitmap
      /\ swap_op.frames \in Seq(Nat) /\ Distinct(swap_op.frames)
  BY <1>2 DEF IndInv, Types, Lists, SwapOwned, SwapOps
<1>4. /\ swap_frames_bitmap' = swap_frames_bitmap \ Range(allocated_frames[p])
      /\ swap_frames_free_count' = swap_frames_free_count + Len(allocated_frames[p])
      /\ allocated_frames' = [allocated_frames EXCEPT ![p] = swap_op.frames]
      /\ is_suspended' = [is_suspended EXCEPT ![p] = FALSE]
      /\ swap_op' = NoSwap
      /\ UNCHANGED <<frames_bitmap, frames_free_count, process_list, page_table,
                     user_space, swap_file, init_op, waiting>>
  BY DEF SwapInCommit, swap_release_frames, userVars
<1>5. swap_op'.frames = <<>> /\ swap_op'.pc = "idle" /\ swap_op' \in SwapOps
  BY <1>4, EmptyList DEF NoSwap, SwapOps
<1>6. /\ Resident' = Resident \cup {p} /\ Suspended' = Suspended \ {p}
      /\ Range(allocated_frames'[p]) = OfSwapIn
      /\ \A q \in Pids \ {p} : Range(allocated_frames'[q]) = Range(allocated_frames[q])
      /\ OfInit' = OfInit /\ OfSwapIn' = {} /\ OfSwapOut' = {}
  BY <1>2, <1>4, <1>5, EmptyList DEF IndInv, Types, Resident, Suspended, OfInit, OfSwapIn, OfSwapOut
<1>7. Types'
  BY <1>2, <1>3, <1>4, <1>5 DEF IndInv, Types
<1>8. Lists'
  BY <1>2, <1>3, <1>4, <1>5, EmptyList DEF IndInv, Lists, Types
<1>9. Ops'
  BY <1>4, <1>5 DEF IndInv, Ops
<1>10. UserOwned'
  <2> DEFINE held(q) == Range(allocated_frames[q])
             next(q) == Range(allocated_frames'[q])
  <2>1. /\ \A q \in Resident' : q = p \/ (q \in Resident /\ next(q) = held(q))
        /\ next(p) = OfSwapIn /\ p \in Resident'
        /\ Resident \subseteq Resident' /\ \A q \in Resident : next(q) = held(q)
    BY <1>2, <1>6
  <2>2. /\ \A q \in Resident : held(q) \subseteq frames_bitmap /\ held(q) \cap OfInit = {}
                              /\ held(q) \cap OfSwapIn = {}
        /\ \A q, r \in Resident : q # r => held(q) \cap held(r) = {}
        /\ OfInit \subseteq frames_bitmap /\ OfSwapIn \subseteq frames_bitmap
        /\ OfInit \cap OfSwapIn = {}
        /\ \A f \in frames_bitmap : (\E q \in Resident : f \in held(q)) \/ f \in OfInit \/ f \in OfSwapIn
    BY DEF IndInv, UserOwned
  <2> HIDE DEF p, held, next
  <2>3. /\ \A q \in Resident' : next(q) \subseteq frames_bitmap /\ next(q) \cap OfInit = {}
        /\ \A q, r \in Resident' : q # r => next(q) \cap next(r) = {}
        /\ \A f \in frames_bitmap : (\E q \in Resident' : f \in next(q)) \/ f \in OfInit
    BY <2>1, <2>2
  <2> QED BY <1>4, <1>6, <2>2, <2>3 DEF UserOwned, next
<1>11. SwapOwned'
  BY <1>2, <1>4, <1>6 DEF IndInv, SwapOwned
<1>12. FreeCountsExact'
  <2>1. Cardinality(SwapFrames \ (swap_frames_bitmap \ Range(allocated_frames[p])))
          = Cardinality(SwapFrames \ swap_frames_bitmap) + Len(allocated_frames[p])
    BY <1>3, SwapRelease
  <2> QED BY <1>4, <2>1 DEF IndInv, FreeCountsExact
<1> QED BY <1>7, <1>8, <1>9, <1>10, <1>11, <1>12 DEF IndInv

\* A resident process gives its frames back when it is deleted.
LEMMA KillResidentInv ==
    ASSUME IndInv, NEW p \in Pids, KillResident(p) PROVE IndInv'
<1>1. /\ p \in Resident /\ p \notin Suspended /\ swap_op.pid # p
      /\ Resident \subseteq Pids /\ Suspended \subseteq Pids
  BY DEF KillResident, delete_process, NotSwapping, IndInv, Types, Resident, Suspended
<1>2. /\ allocated_frames[p] \in Seq(Nat) /\ Distinct(allocated_frames[p])
      /\ Range(allocated_frames[p]) \subseteq frames_bitmap
  BY <1>1 DEF IndInv, Types, Lists, UserOwned
<1>3. /\ frames_bitmap' = frames_bitmap \ Range(allocated_frames[p])
      /\ frames_free_count' = frames_free_count + Len(allocated_frames[p])
      /\ process_list' = process_list \ {p}
      /\ allocated_frames' = [allocated_frames EXCEPT ![p] = <<>>]
      /\ page_table' = [page_table EXCEPT ![p] = <<>>]
      /\ is_suspended' = [is_suspended EXCEPT ![p] = FALSE]
      /\ UNCHANGED <<swap_frames_bitmap, swap_frames_free_count, user_space, swap_file,
                     init_op, waiting, swap_op>>
  BY DEF KillResident, delete_process, release_frames, swapVars
<1>4. /\ Resident' = Resident \ {p} /\ Suspended' = Suspended
      /\ \A q \in Pids \ {p} : Range(allocated_frames'[q]) = Range(allocated_frames[q])
      /\ OfInit' = OfInit /\ OfSwapIn' = OfSwapIn /\ OfSwapOut' = OfSwapOut
  BY <1>1, <1>3 DEF IndInv, Types, Resident, Suspended, OfInit, OfSwapIn, OfSwapOut
<1>5. Types'
  BY <1>3, EmptyList DEF IndInv, Types
<1>6. Lists'
  BY <1>3, EmptyList DEF IndInv, Lists, Types
<1>7. Ops'
  BY <1>1, <1>3 DEF IndInv, Ops, Types
<1>8. UserOwned'
  BY <1>1, <1>3, <1>4 DEF IndInv, UserOwned
<1>9. SwapOwned'
  BY <1>1, <1>3, <1>4 DEF IndInv, SwapOwned
<1>10. FreeCountsExact'
  <2>1. Cardinality(Frames \ (frames_bitmap \ Range(allocated_frames[p])))
          = Cardinality(Frames \ frames_bitmap) + Len(allocated_frames[p])
    BY <1>2, UserRelease
  <2> QED BY <1>3, <2>1 DEF IndInv, FreeCountsExact
<1> QED BY <1>5, <1>6, <1>7, <1>8, <1>9, <1>10 DEF IndInv

\* Steps of other parts of the system preserve the invariant.
LEMMA StutterInv ==
    ASSUME IndInv, UNCHANGED vars PROVE IndInv'
<1> USE DEF IndInv, vars, userVars, swapVars, procVars
<1>1. Types' /\ Lists' /\ Ops'
  BY DEF Types, Lists, Ops
<1>2. UserOwned' /\ SwapOwned' /\ FreeCountsExact'
  BY DEF UserOwned, SwapOwned, FreeCountsExact, Resident, Suspended, OfInit, OfSwapIn, OfSwapOut
<1> QED BY <1>1, <1>2

\* Every step of every handler preserves the invariant: one case per operation.
LEMMA NextIndInv == IndInv /\ [Next]_vars => IndInv'
<1> SUFFICES ASSUME IndInv, [Next]_vars PROVE IndInv'
  OBVIOUS
<1>1. CASE Create
  BY <1>1, CreateEmptyInv, CreateCheckInv, CreateAllocInv, CreateAssignInv DEF Create
<1>2. CASE Suspension
  BY <1>2, RequestInv, SwapLockInv, SwapOutAllocInv, SwapOutCopyInv, SwapOutCommitInv,
     SwapInAllocInv, SwapInCopyInv, SwapInCommitInv DEF Suspension, SwapOut, SwapIn
<1>3. CASE \E p \in Pids : KillResident(p)
  BY <1>3, KillResidentInv
<1>4. CASE UNCHANGED vars
  BY <1>4, StutterInv
<1> QED BY <1>1, <1>2, <1>3, <1>4 DEF Next

-----------------------------------------------------------------------------
(* Theorems *)

\* IndInv is an invariant of the memory server, for any number of processes,
\* frames and swap frames.
THEOREM IndInvariant == Spec => []IndInv
<1> QED BY InitIndInv, NextIndInv, PTL DEF Spec

\* The tables keep their types and the free counts of allocate_frames and
\* release_frames, and of their swap counterparts, stay between zero and the
\* number of frames.
THEOREM TypeCorrect == Spec => []TypeOK
<1>1. IndInv => TypeOK
  BY IndInvImplies
<1> QED BY <1>1, IndInvariant, PTL

\* No user frame has two holders: neither two processes, nor a process and the
\* create_process or swap_in_process under way.
THEOREM FramesNotShared == Spec => []NoSharedFrame
<1>1. IndInv => NoSharedFrame
  BY IndInvImplies
<1> QED BY <1>1, IndInvariant, PTL

\* No swap frame has two holders (swap_allocate_frames, swap_release_frames).
THEOREM SwapFramesNotShared == Spec => []NoSharedSwapFrame
<1>1. IndInv => NoSharedSwapFrame
  BY IndInvImplies
<1> QED BY <1>1, IndInvariant, PTL

\* A bit of the user bitmap is set iff somebody holds the frame: no error path of
\* create_process or swap_in_process loses frames.
THEOREM FramesNotLost == Spec => []NoFrameLeak
<1>1. IndInv => NoFrameLeak
  BY IndInvImplies
<1> QED BY <1>1, IndInvariant, PTL

\* The free counts agree with the bitmaps in every state.
THEOREM CountsExact == Spec => []FreeCountsExact
<1>1. IndInv => FreeCountsExact
  BY IndInvImplies
<1> QED BY <1>1, IndInvariant, PTL

-----------------------------------------------------------------------------
(* What the frames contain *)

\* A handler that copies has a frame for each page of its process, and once it
\* has copied, the page is there.
Copying ==
    /\ swap_op.pc \in {"copy", "commit"} =>
          Len(swap_op.frames) = Len(allocated_frames[swap_op.pid])
    /\ swap_op.pc = "commit" => \A i \in DOMAIN swap_op.frames :
          /\ swap_op.kind = "SWAP" => swap_file[swap_op.frames[i]] = Image(swap_op.pid, i)
          /\ swap_op.kind = "UNSUSPEND" => user_space[swap_op.frames[i]] = Image(swap_op.pid, i)

ContentInv == ImagesIntact /\ Copying

\* A step that leaves lists and contents alone, and that ends the conversation of
\* the handler inside sem_swap_file or leaves it where it was.
LEMMA QuietContents ==
    ASSUME ContentInv,
           UNCHANGED <<process_list, allocated_frames, is_suspended, user_space, swap_file>>,
           swap_op' = swap_op \/ swap_op'.pc \in {"idle", "alloc"}
    PROVE  ContentInv'
<1>1. ImagesIntact'
  BY DEF ContentInv, ImagesIntact, Resident, Suspended
<1>2. Copying'
  BY DEF ContentInv, Copying
<1> QED BY <1>1, <1>2 DEF ContentInv

\* create_process of size 0: there is nothing to keep.
LEMMA CreateEmptyContents ==
    ASSUME IndInv, ContentInv, NEW p \in Pids, CreateEmpty(p) PROVE ContentInv'
<1>1. /\ p \notin process_list /\ process_list' = process_list \cup {p}
      /\ allocated_frames' = [allocated_frames EXCEPT ![p] = <<>>]
      /\ is_suspended' = [is_suspended EXCEPT ![p] = FALSE]
      /\ UNCHANGED <<user_space, swap_file, swap_op>>
  BY DEF CreateEmpty
<1>2. allocated_frames'[p] = <<>> /\ is_suspended'[p] = FALSE
  BY <1>1 DEF IndInv, Types
<1>3. \A q \in Pids : q # p => allocated_frames'[q] = allocated_frames[q] /\ is_suspended'[q] = is_suspended[q]
  BY <1>1 DEF IndInv, Types
<1>4. process_list \subseteq Pids
  BY DEF IndInv, Types
<1>5. ImagesIntact'
  BY <1>1, <1>2, <1>3, <1>4 DEF ContentInv, ImagesIntact, Resident, Suspended
<1>6. Copying'
  <2>1. swap_op.pc # "idle" => swap_op.pid \in process_list
    BY DEF IndInv, Ops
  <2> QED BY <1>1, <1>3, <1>4, <2>1 DEF ContentInv, Copying
<1> QED BY <1>5, <1>6 DEF ContentInv

\* create_process fills frames that nobody else holds.
LEMMA CreateAssignContents ==
    ASSUME IndInv, ContentInv, CreateAssign PROVE ContentInv'
<1> DEFINE p == init_op.pid
           s == init_op.frames
<1>1. p \in Pids /\ p \notin process_list /\ process_list \subseteq Pids
  BY DEF CreateAssign, IndInv, Ops, Types
<1>2. /\ s \in Seq(Nat) /\ Distinct(s) /\ Range(s) \subseteq Frames
      /\ \A q \in Resident : Range(allocated_frames[q]) \cap Range(s) = {}
      /\ Range(s) \cap OfSwapIn = {}
  BY DEF IndInv, Types, Lists, UserOwned, InitOps, OfInit
<1>3. CASE init_op.pages > TableCapacity /\ UNCHANGED <<procVars, user_space>>
  BY <1>3, QuietContents DEF CreateAssign, procVars
<1>4. CASE /\ process_list' = process_list \cup {p}
           /\ allocated_frames' = [allocated_frames EXCEPT ![p] = s]
           /\ is_suspended' = [is_suspended EXCEPT ![p] = FALSE]
           /\ user_space' = [f \in Frames |->
                IF f \in Range(s) THEN Image(p, CHOOSE i \in DOMAIN s : s[i] = f)
                ELSE user_space[f]]
  <2>1. UNCHANGED <<swap_file, swap_op>>
    BY DEF CreateAssign
  <2>2. /\ allocated_frames'[p] = s /\ is_suspended'[p] = FALSE
        /\ \A q \in Pids : q # p => allocated_frames'[q] = allocated_frames[q]
                                    /\ is_suspended'[q] = is_suspended[q]
    BY <1>1, <1>4 DEF IndInv, Types
  <2>3. ASSUME NEW i \in DOMAIN s PROVE user_space'[s[i]] = Image(p, i)
    <3>1. s[i] \in Range(s) /\ s[i] \in Frames
      BY <1>2 DEF Range
    <3>2. (CHOOSE j \in DOMAIN s : s[j] = s[i]) = i
      BY <1>2 DEF Distinct
    <3> QED BY <1>4, <3>1, <3>2
  <2>4. \A f \in Frames : f \notin Range(s) => user_space'[f] = user_space[f]
    BY <1>4
  <2>5. ASSUME NEW q \in Resident', NEW i \in DOMAIN allocated_frames'[q]
        PROVE  user_space'[allocated_frames'[q][i]] = Image(q, i)
    <3>1. CASE q = p
      BY <2>2, <2>3, <3>1
    <3>2. CASE q # p
      <4>1. q \in Resident /\ allocated_frames'[q] = allocated_frames[q]
        BY <1>1, <1>4, <2>2, <3>2 DEF Resident
      <4>2. allocated_frames[q][i] \in Range(allocated_frames[q])
        BY <4>1 DEF Range
      <4>3. allocated_frames[q][i] \in Frames /\ allocated_frames[q][i] \notin Range(s)
        BY <1>2, <4>1, <4>2 DEF IndInv, UserOwned, Types
      <4> QED BY <2>4, <4>1, <4>3 DEF ContentInv, ImagesIntact
    <3> QED BY <3>1, <3>2
  <2>6. ASSUME NEW q \in Suspended' PROVE q \in Suspended /\ allocated_frames'[q] = allocated_frames[q]
    BY <1>1, <1>4, <2>2 DEF Suspended
  <2>7. ImagesIntact'
    BY <2>1, <2>5, <2>6 DEF ContentInv, ImagesIntact
  <2>8. Copying'
    <3>1. swap_op.pc # "idle" => swap_op.pid \in process_list /\ swap_op.pid # p
      BY <1>1 DEF IndInv, Ops
    <3>2. ASSUME swap_op.kind = "UNSUSPEND", NEW i \in DOMAIN swap_op.frames
          PROVE  user_space'[swap_op.frames[i]] = user_space[swap_op.frames[i]]
      <4>1. swap_op.frames[i] \in OfSwapIn
        BY <3>2 DEF OfSwapIn, Range
      <4>2. swap_op.frames[i] \in Frames /\ swap_op.frames[i] \notin Range(s)
        BY <1>2, <4>1 DEF IndInv, UserOwned, Types
      <4> QED BY <2>4, <4>2
    <3> QED BY <1>1, <2>1, <2>2, <3>1, <3>2 DEF ContentInv, Copying
  <2> QED BY <2>7, <2>8 DEF ContentInv
<1> QED BY <1>3, <1>4 DEF CreateAssign

\* Both allocations for a move: as many frames as the process has pages, or the
\* handler gives up.
LEMMA AllocContents ==
    ASSUME IndInv, ContentInv, SwapOutAlloc \/ SwapInAlloc PROVE ContentInv'
<1>1. UNCHANGED <<process_list, allocated_frames, is_suspended, user_space, swap_file>>
  BY DEF SwapOutAlloc, SwapInAlloc, procVars
<1>2. CASE swap_op' = NoSwap
  <2>1. swap_op'.pc = "idle"
    BY <1>2 DEF NoSwap
  <2> QED BY <1>1, <2>1, QuietContents
<1>3. CASE \E s : /\ swap_op' = [swap_op EXCEPT !.pc = "copy", !.frames = s]
                  /\ Len(s) = Len(allocated_frames[swap_op.pid])
  <2>1. swap_op'.pc = "copy" /\ Len(swap_op'.frames) = Len(allocated_frames[swap_op.pid])
        /\ swap_op'.pid = swap_op.pid
    BY <1>3 DEF IndInv, Types, SwapOps
  <2>2. Copying'
    BY <1>1, <2>1 DEF Copying
  <2>3. ImagesIntact'
    BY <1>1 DEF ContentInv, ImagesIntact, Resident, Suspended
  <2> QED BY <2>2, <2>3 DEF ContentInv
<1> QED BY <1>2, <1>3 DEF SwapOutAlloc, SwapInAlloc

\* The copy of a suspension writes the swap frames of the handler only, and page
\* i into the i-th of them.
LEMMA SwapOutCopyContents ==
    ASSUME IndInv, ContentInv, SwapOutCopy PROVE ContentInv'
<1> DEFINE p == swap_op.pid
           s == swap_op.frames
           from == allocated_frames[p]
           written(k) == [g \in SwapFrames |->
               IF \E i \in 1 .. k : s[i] = g
               THEN user_space[from[CHOOSE i \in 1 .. k : s[i] = g]]
               ELSE swap_file[g]]
<1>1. /\ swap_op.pc = "copy" /\ swap_op.kind = "SWAP"
      /\ UNCHANGED <<process_list, allocated_frames, is_suspended, user_space>>
  BY DEF SwapOutCopy, procVars
<1>2. /\ p \in Resident /\ p \in Pids
      /\ s \in Seq(Nat) /\ Distinct(s) /\ from \in Seq(Nat) /\ Len(s) = Len(from)
  BY <1>1 DEF IndInv, Ops, Types, Lists, SwapOps, Resident, ContentInv, Copying
<1>3. /\ Range(s) \subseteq SwapFrames
      /\ \A q \in Suspended : /\ Range(allocated_frames[q]) \cap Range(s) = {}
                              /\ Range(allocated_frames[q]) \subseteq SwapFrames
  BY <1>1 DEF IndInv, Types, SwapOwned, OfSwapOut
<1>4. ASSUME NEW k \in 0 .. Len(from), swap_file' = written(k) PROVE ImagesIntact'
  <2>1. \A i \in 1 .. k : s[i] \in Range(s)
    BY <1>2, <1>4 DEF Range
  <2>2. \A g \in SwapFrames : g \notin Range(s) => swap_file'[g] = swap_file[g]
    BY <1>4, <2>1
  <2>3. ASSUME NEW q \in Suspended, NEW i \in DOMAIN allocated_frames[q]
        PROVE  swap_file'[allocated_frames[q][i]] = Image(q, i)
    <3>1. allocated_frames[q][i] \in Range(allocated_frames[q])
      BY DEF Range
    <3>2. swap_file'[allocated_frames[q][i]] = swap_file[allocated_frames[q][i]]
      BY <1>3, <2>2, <3>1
    <3> QED BY <3>2 DEF ContentInv, ImagesIntact
  <2>4. Suspended' = Suspended /\ Resident' = Resident
    BY <1>1 DEF Suspended, Resident
  <2> QED BY <1>1, <2>3, <2>4 DEF ContentInv, ImagesIntact
<1>5. CASE swap_file' = written(Len(from)) /\ swap_op' = [swap_op EXCEPT !.pc = "commit"]
  <2>1. Len(from) \in 0 .. Len(from) /\ DOMAIN s = 1 .. Len(from) /\ DOMAIN from = 1 .. Len(from)
    BY <1>2
  <2>2. ImagesIntact'
    BY <1>4, <1>5, <2>1
  <2>3. /\ swap_op'.pc = "commit" /\ swap_op'.kind = "SWAP"
        /\ swap_op'.pid = p /\ swap_op'.frames = s
    BY <1>1, <1>5 DEF IndInv, Types, SwapOps
  <2>4. ASSUME NEW i \in DOMAIN s PROVE swap_file'[s[i]] = Image(p, i)
    <3>1. s[i] \in SwapFrames
      BY <1>3 DEF Range
    <3>2. (CHOOSE j \in 1 .. Len(from) : s[j] = s[i]) = i
      BY <1>2, <2>1 DEF Distinct
    <3>3. swap_file'[s[i]] = user_space[from[i]]
      BY <1>5, <2>1, <3>1, <3>2
    <3>4. user_space[from[i]] = Image(p, i)
      BY <1>2, <2>1 DEF ContentInv, ImagesIntact
    <3> QED BY <3>3, <3>4
  <2>5. allocated_frames'[p] = from
    BY <1>1
  <2>6. Copying'
    BY <1>2, <2>3, <2>4, <2>5 DEF Copying
  <2> QED BY <2>2, <2>6 DEF ContentInv
<1>6. CASE \E k \in 0 .. Len(from) - 1 : swap_file' = written(k) /\ swap_op' = NoSwap
  <2>1. PICK k \in 0 .. Len(from) - 1 : swap_file' = written(k) /\ swap_op' = NoSwap
    BY <1>6
  <2>2. k \in 0 .. Len(from)
    BY <1>2
  <2>3. ImagesIntact'
    BY <1>4, <2>1, <2>2
  <2>4. swap_op'.pc = "idle"
    BY <2>1 DEF NoSwap
  <2> QED BY <2>3, <2>4 DEF ContentInv, Copying
<1> QED BY <1>5, <1>6 DEF SwapOutCopy

\* The copy of a resumption, in the other direction: it writes user frames that
\* no process holds, also when it fails half way.
LEMMA SwapInCopyContents ==
    ASSUME IndInv, ContentInv, SwapInCopy PROVE ContentInv'
<1> DEFINE p == swap_op.pid
           s == swap_op.frames
           from == allocated_frames[p]
           loaded(k) == [f \in Frames |->
               IF \E i \in 1 .. k : s[i] = f
               THEN swap_file[from[CHOOSE i \in 1 .. k : s[i] = f]]
               ELSE user_space[f]]
<1>1. /\ swap_op.pc = "copy" /\ swap_op.kind = "UNSUSPEND"
      /\ UNCHANGED <<process_list, allocated_frames, is_suspended, swap_file>>
  BY DEF SwapInCopy, procVars
<1>2. /\ p \in Suspended /\ p \in Pids
      /\ s \in Seq(Nat) /\ Distinct(s) /\ from \in Seq(Nat) /\ Len(s) = Len(from)
  BY <1>1 DEF IndInv, Ops, Types, Lists, SwapOps, Suspended, ContentInv, Copying
<1>3. /\ Range(s) \subseteq Frames
      /\ \A q \in Resident : /\ Range(allocated_frames[q]) \cap Range(s) = {}
                             /\ Range(allocated_frames[q]) \subseteq Frames
  BY <1>1 DEF IndInv, Types, UserOwned, OfSwapIn
<1>4. ASSUME NEW k \in 0 .. Len(from), user_space' = loaded(k) PROVE ImagesIntact'
  <2>1. \A i \in 1 .. k : s[i] \in Range(s)
    BY <1>2, <1>4 DEF Range
  <2>2. \A f \in Frames : f \notin Range(s) => user_space'[f] = user_space[f]
    BY <1>4, <2>1
  <2>3. ASSUME NEW q \in Resident, NEW i \in DOMAIN allocated_frames[q]
        PROVE  user_space'[allocated_frames[q][i]] = Image(q, i)
    <3>1. allocated_frames[q][i] \in Range(allocated_frames[q])
      BY DEF Range
    <3>2. user_space'[allocated_frames[q][i]] = user_space[allocated_frames[q][i]]
      BY <1>3, <2>2, <3>1
    <3> QED BY <3>2 DEF ContentInv, ImagesIntact
  <2>4. Suspended' = Suspended /\ Resident' = Resident
    BY <1>1 DEF Suspended, Resident
  <2> QED BY <1>1, <2>3, <2>4 DEF ContentInv, ImagesIntact
<1>5. CASE user_space' = loaded(Len(from)) /\ swap_op' = [swap_op EXCEPT !.pc = "commit"]
  <2>1. Len(from) \in 0 .. Len(from) /\ DOMAIN s = 1 .. Len(from) /\ DOMAIN from = 1 .. Len(from)
    BY <1>2
  <2>2. ImagesIntact'
    BY <1>4, <1>5, <2>1
  <2>3. /\ swap_op'.pc = "commit" /\ swap_op'.kind = "UNSUSPEND"
        /\ swap_op'.pid = p /\ swap_op'.frames = s
    BY <1>1, <1>5 DEF IndInv, Types, SwapOps
  <2>4. ASSUME NEW i \in DOMAIN s PROVE user_space'[s[i]] = Image(p, i)
    <3>1. s[i] \in Frames
      BY <1>3 DEF Range
    <3>2. (CHOOSE j \in 1 .. Len(from) : s[j] = s[i]) = i
      BY <1>2, <2>1 DEF Distinct
    <3>3. user_space'[s[i]] = swap_file[from[i]]
      BY <1>5, <2>1, <3>1, <3>2
    <3>4. swap_file[from[i]] = Image(p, i)
      BY <1>2, <2>1 DEF ContentInv, ImagesIntact
    <3> QED BY <3>3, <3>4
  <2>5. allocated_frames'[p] = from
    BY <1>1
  <2>6. Copying'
    BY <1>2, <2>3, <2>4, <2>5 DEF Copying
  <2> QED BY <2>2, <2>6 DEF ContentInv
<1>6. CASE \E k \in 0 .. Len(from) - 1 : user_space' = loaded(k) /\ swap_op' = NoSwap
  <2>1. PICK k \in 0 .. Len(from) - 1 : user_space' = loaded(k) /\ swap_op' = NoSwap
    BY <1>6
  <2>2. k \in 0 .. Len(from)
    BY <1>2
  <2>3. ImagesIntact'
    BY <1>4, <2>1, <2>2
  <2>4. swap_op'.pc = "idle"
    BY <2>1 DEF NoSwap
  <2> QED BY <2>3, <2>4 DEF ContentInv, Copying
<1> QED BY <1>5, <1>6 DEF SwapInCopy

\* Both commits: the frames the handler filled become those of the process.
LEMMA CommitContents ==
    ASSUME IndInv, ContentInv, SwapOutCommit \/ SwapInCommit PROVE ContentInv'
<1> DEFINE p == swap_op.pid
           out == swap_op.kind = "SWAP"
<1>1. /\ swap_op.pc = "commit" /\ swap_op' = NoSwap
      /\ allocated_frames' = [allocated_frames EXCEPT ![p] = swap_op.frames]
      /\ is_suspended' = [is_suspended EXCEPT ![p] = out]
      /\ UNCHANGED <<process_list, user_space, swap_file>>
  BY DEF SwapOutCommit, SwapInCommit
<1>2. p \in Pids /\ process_list \subseteq Pids
  BY <1>1 DEF IndInv, Ops, Types
<1>3. /\ allocated_frames'[p] = swap_op.frames /\ is_suspended'[p] = out
      /\ \A q \in Pids : q # p => allocated_frames'[q] = allocated_frames[q]
                                  /\ is_suspended'[q] = is_suspended[q]
  BY <1>1, <1>2 DEF IndInv, Types
<1>4. swap_op.kind \in {"SWAP", "UNSUSPEND"}
  BY DEF IndInv, Types, SwapOps
<1>5. \A i \in DOMAIN swap_op.frames :
        /\ out => swap_file[swap_op.frames[i]] = Image(p, i)
        /\ ~out => user_space[swap_op.frames[i]] = Image(p, i)
  BY <1>1, <1>4 DEF ContentInv, Copying
<1>6. ASSUME NEW q \in Resident', NEW i \in DOMAIN allocated_frames'[q]
      PROVE  user_space'[allocated_frames'[q][i]] = Image(q, i)
  <2>1. CASE q = p
    <3>1. ~out
      BY <1>3, <2>1 DEF Resident
    <3> HIDE DEF out
    <3> QED BY <1>1, <1>3, <1>5, <2>1, <3>1
  <2>2. CASE q # p
    <3>1. q \in Resident /\ allocated_frames'[q] = allocated_frames[q]
      BY <1>1, <1>2, <1>3, <2>2 DEF Resident
    <3> QED BY <1>1, <3>1 DEF ContentInv, ImagesIntact
  <2> QED BY <2>1, <2>2
<1>7. ASSUME NEW q \in Suspended', NEW i \in DOMAIN allocated_frames'[q]
      PROVE  swap_file'[allocated_frames'[q][i]] = Image(q, i)
  <2>1. CASE q = p
    <3>1. out
      BY <1>3, <2>1 DEF Suspended
    <3> HIDE DEF out
    <3> QED BY <1>1, <1>3, <1>5, <2>1, <3>1
  <2>2. CASE q # p
    <3>1. q \in Suspended /\ allocated_frames'[q] = allocated_frames[q]
      BY <1>1, <1>2, <1>3, <2>2 DEF Suspended
    <3> QED BY <1>1, <3>1 DEF ContentInv, ImagesIntact
  <2> QED BY <2>1, <2>2
<1>8. swap_op'.pc = "idle"
  BY <1>1 DEF NoSwap
<1> QED BY <1>6, <1>7, <1>8 DEF ContentInv, ImagesIntact, Copying

\* A deletion takes its own process away and leaves the others what they had.
LEMMA KillContents ==
    ASSUME IndInv, ContentInv, NEW p \in Pids, KillResident(p) PROVE ContentInv'
<1>1. /\ swap_op.pid # p /\ process_list' = process_list \ {p}
      /\ allocated_frames' = [allocated_frames EXCEPT ![p] = <<>>]
      /\ is_suspended' = [is_suspended EXCEPT ![p] = FALSE]
      /\ UNCHANGED <<user_space, swap_file, swap_op>>
  BY DEF KillResident, NotSwapping, delete_process
<1>2. /\ process_list \subseteq Pids
      /\ \A q : q # p => allocated_frames'[q] = allocated_frames[q]
                         /\ is_suspended'[q] = is_suspended[q]
  BY <1>1 DEF IndInv, Types
<1>3. ImagesIntact'
  BY <1>1, <1>2 DEF ContentInv, ImagesIntact, Resident, Suspended
<1>4. Copying'
  BY <1>1, <1>2 DEF ContentInv, Copying
<1> QED BY <1>3, <1>4 DEF ContentInv

\* Every step of every handler keeps the contents.
LEMMA NextContents == IndInv /\ ContentInv /\ [Next]_vars => ContentInv'
<1> SUFFICES ASSUME IndInv, ContentInv, [Next]_vars PROVE ContentInv'
  OBVIOUS
<1>1. CASE Create
  <2>1. CASE \E p \in Pids : CreateEmpty(p)
    BY <2>1, CreateEmptyContents
  <2>2. CASE CreateAlloc \/ \E p \in Pids, n \in Sizes : CreateCheck(p, n)
    BY <2>2, QuietContents DEF CreateAlloc, CreateCheck, procVars
  <2>3. CASE CreateAssign
    BY <2>3, CreateAssignContents
  <2> QED BY <1>1, <2>1, <2>2, <2>3 DEF Create
<1>2. CASE Suspension
  <2>1. ASSUME NEW kind \in {"SWAP", "UNSUSPEND"}, NEW p \in Pids, Request(kind, p)
        PROVE  ContentInv'
    BY <2>1, QuietContents DEF Request, procVars
  <2>2. ASSUME NEW kind \in {"SWAP", "UNSUSPEND"}, NEW p \in Pids, SwapLock(kind, p)
        PROVE  ContentInv'
    <3>1. swap_op'.pc \in {"idle", "alloc"}
      BY <2>2 DEF SwapLock, NoSwap
    <3> QED BY <2>2, <3>1, QuietContents DEF SwapLock, procVars
  <2>3. CASE SwapOut \/ SwapIn
    BY <2>3, AllocContents, SwapOutCopyContents, SwapInCopyContents, CommitContents DEF SwapOut, SwapIn
  <2> QED BY <1>2, <2>1, <2>2, <2>3 DEF Suspension
<1>3. CASE \E p \in Pids : KillResident(p)
  BY <1>3, KillContents
<1>4. CASE UNCHANGED vars
  BY <1>4, QuietContents DEF vars, procVars
<1> QED BY <1>1, <1>2, <1>3, <1>4 DEF Next

\* A page keeps its contents through any number of suspensions, resumptions,
\* creations and deletions, whichever of the two copies fail (swap_out_process,
\* swap_in_process, create_process).
THEOREM ContentsKept == Spec => []ImagesIntact
<1>1. Init => ContentInv
  BY DEF Init, ContentInv, ImagesIntact, Copying, Resident, Suspended, NoSwap
<1>2. ContentInv => ImagesIntact
  BY DEF ContentInv
<1> QED BY <1>1, <1>2, NextContents, IndInvariant, PTL DEF Spec
=============================================================================
