--------------------------- MODULE ReadQuery_proofs ---------------------------
(***************************************************************************)
(* Proofs about ReadQuery, for every stack of adapters, every query result *)
(* and every choice of allocators and buffers.                             *)
(***************************************************************************)
EXTENDS ReadQuery, TLAPS, SequenceTheorems

(***************************************************************************)
(* The handles of an adapter, and those given to a callback, are handles.  *)
(***************************************************************************)
LEMMA OwnedHandles ==
    ASSUME NEW k \in Layers
    PROVE  Owned(k) \subseteq Handles
<1>1. Stack[k] \in [kind : LayerKinds, args : Seq(Handles)]
  BY StackAssumption, ElementOfSeq DEF Layers
<1>2. \A i \in DOMAIN Stack[k].args : Stack[k].args[i] \in Handles
  BY <1>1
<1> QED  BY <1>2 DEF Owned

LEMMA GivenHandles ==
    ASSUME NEW k \in Layers
    PROVE  Given(k) \subseteq Handles
<1>1. CASE Stack[k].kind = "callback_var"
  <2>1. k - 1 \in Layers
    BY <1>1, StackAssumption DEF Layers
  <2> QED  BY <1>1, <2>1, OwnedHandles DEF Given
<1>2. CASE Stack[k].kind # "callback_var"
  BY <1>2, OwnedHandles DEF Given
<1> QED  BY <1>1, <1>2

-----------------------------------------------------------------------------
(***************************************************************************)
(* Allocators answer with spaces.                                          *)
(***************************************************************************)
LEMMA ReallocSpace ==
    ASSUME NEW a \in Allocators, NEW s \in Space
    PROVE  realloc(a, s) \in Space
<1>1. \A n \in Length : Grown(a.kind, n) \in Length /\ (n \in Nat => Grown(a.kind, n) \in Nat)
  BY DEF Grown, Length, NoBuffer
<1> QED  BY <1>1 DEF realloc, Space, Length, NoBuffer

LEMMA SpacesAreSpaces ==
    ASSUME NEW h \in Handles
    PROVE  Spaces(h) \subseteq Space
<1>1. CASE h \in Managed
  BY <1>1, HandleAssumption DEF Spaces, alloc, Allocators
<1>2. CASE h \notin Managed
  BY <1>2, HandleAssumption DEF Spaces
<1> QED  BY <1>1, <1>2

LEMMA ReallocManagedType ==
    ASSUME cap \in [Handles -> Space], NEW hs, ReallocManaged(hs)
    PROVE  cap' \in [Handles -> Space]
<1>1. \A h \in hs \cap Managed : realloc(Allocator[h], cap[h]) \in Space
  BY ReallocSpace, HandleAssumption
<1> QED  BY <1>1 DEF ReallocManaged

LEMMA AttachAllType ==
    ASSUME TypeOK, NEW hs \in SUBSET Handles, AttachAll(hs)
    PROVE  /\ size' \in [Handles -> Space]
           /\ reg' \in [Fields -> [handle : Handles \cup {NoHandle}, space : Space]]
<1>1. size' \in [Handles -> Space]
  BY DEF AttachAll, TypeOK, HandlesOK
<1>2. ASSUME NEW f \in Fields, \E h \in hs : FieldOf[h] = f
      PROVE  (CHOOSE h \in hs : FieldOf[h] = f) \in Handles
  BY <1>2
<1>3. reg' \in [Fields -> [handle : Handles \cup {NoHandle}, space : Space]]
  BY <1>2 DEF AttachAll, TypeOK, CoreOK, HandlesOK
<1> QED  BY <1>1, <1>3

(***************************************************************************)
(* What a submission leaves in the size pointers and in the buffers.       *)
(***************************************************************************)
LEMMA StartType ==
    ASSUME TypeOK
    PROVE  Start \in 0..NCells /\ Start \in Nat
BY FieldAssumption DEF TypeOK, CoreOK, Start

LEMMA CoreReturnsType ==
    ASSUME TypeOK, NEW n, CoreReturns(n)
    PROVE  /\ n \in Nat /\ Start + n \in 0..NCells
           /\ cursor' \in 0..NCells /\ batch' \in 0..cursor'
           /\ size' \in [Handles -> Space]
           /\ mem' \in [Handles -> Seq(1..NCells)]
           /\ reg' = reg /\ cap' = cap
<1>1. n \in Nat /\ Start + n \in 0..NCells /\ Start \in 0..NCells
  BY StartType, FieldAssumption DEF CoreReturns, Remaining
<1>2. cursor' \in 0..NCells /\ batch' \in 0..cursor'
  BY <1>1 DEF CoreReturns
<1>3. ASSUME NEW h \in Handles
      PROVE  CellEnd[FieldOf[h]][Start + n] - CellEnd[FieldOf[h]][Start] \in Nat
  <2> DEFINE f == FieldOf[h]
  <2>1. f \in Fields
    BY HandleAssumption
  <2> HIDE DEF f
  <2>2. CellEnd[f][Start + n] \in Nat /\ CellEnd[f][Start] \in Nat
    BY <2>1, <1>1, FieldAssumption
  <2>3. CellEnd[f][Start] <= CellEnd[f][Start + n]
    BY <2>1, <1>1, FieldAssumption
  <2> QED  BY <2>2, <2>3 DEF f
<1>4. size' \in [Handles -> Space]
  BY <1>1, <1>3 DEF CoreReturns, Space, Length, NoBuffer, TypeOK, HandlesOK
<1>5. [i \in 1..n |-> Start + i] \in Seq(1..NCells)
  <2> DEFINE c == Start
  <2> HIDE DEF c
  <2>1. c \in Nat /\ c + n <= NCells /\ n \in Nat
    BY <1>1, StartType, FieldAssumption DEF c
  <2>2. \A i \in 1..n : c + i \in 1..NCells
    BY <2>1, FieldAssumption
  <2>3. [i \in 1..n |-> c + i] \in [1..n -> 1..NCells]
    BY <2>2
  <2>4. [i \in 1..n |-> c + i] \in Seq(1..NCells)
    BY <2>1, <2>3
  <2> QED  BY <2>4 DEF c
<1>6. mem' \in [Handles -> Seq(1..NCells)]
  BY <1>5 DEF CoreReturns, TypeOK, HandlesOK
<1> QED  BY <1>1, <1>2, <1>4, <1>6 DEF CoreReturns
-----------------------------------------------------------------------------
(***************************************************************************)
(* What a callback is given, and what it is left with.                     *)
(***************************************************************************)
LEMMA NcellsType ==
    ASSUME TypeOK, NEW h \in Handles
    PROVE  last_read_ncells(h) \in Int
<1>1. FieldOf[h] \in Fields /\ CellValNum[FieldOf[h]] \in Nat \ {0}
  BY HandleAssumption, FieldAssumption
<1>2. size[h].data \in Nat /\ size[h].offsets \in Int
  BY DEF TypeOK, HandlesOK, Space, Length, NoBuffer
<1>3. \A m \in Nat, d \in Nat \ {0} : m \div d \in Int
  OBVIOUS
<1> QED  BY <1>1, <1>2, <1>3 DEF last_read_ncells

LEMMA ChunkType ==
    ASSUME TypeOK, NEW h \in Handles
    PROVE  Chunk(h) \in Seq(0..NCells)
<1> DEFINE m == last_read_ncells(h)
<1>1. m \in Int
  BY NcellsType
<1>2. mem[h] \in Seq(1..NCells)
  BY DEF TypeOK, HandlesOK
<1>3. \A i \in DOMAIN mem[h] : mem[h][i] \in 0..NCells
  BY <1>2, ElementOfSeq, FieldAssumption
<1>4. \A i \in 1..m : (IF i \in DOMAIN mem[h] THEN mem[h][i] ELSE Stale) \in 0..NCells
  BY <1>3, FieldAssumption DEF Stale
<1> HIDE DEF m
<1>5. Chunk(h) \in [1..m -> 0..NCells]
  BY <1>4 DEF Chunk, m
<1>6. \E n \in Nat : 1..m = 1..n
  <2>1. CASE m \in Nat
    BY <2>1
  <2>2. CASE m < 0
    <3>1. 1..m = 1..0
      BY <1>1, <2>2
    <3> QED  BY <3>1
  <2> QED  BY <1>1, <2>1, <2>2
<1>7. PICK n \in Nat : 1..m = 1..n
  BY <1>6
<1>8. ASSUME NEW c \in [1..n -> 0..NCells]
      PROVE  c \in Seq(0..NCells)
  <2>1. \A i \in 1..n : c[i] \in 0..NCells
    OBVIOUS
  <2>2. [i \in 1..n |-> c[i]] \in Seq(0..NCells)
    BY <2>1
  <2>3. c = [i \in 1..n |-> c[i]]
    OBVIOUS
  <2> QED  BY <2>2, <2>3
<1> QED  BY <1>5, <1>7, <1>8

LEMMA TakenType ==
    ASSUME TypeOK, NEW k \in Layers
    PROVE  Taken(k) \in [Handles -> Seq(0..NCells)]
<1>1. ASSUME NEW h \in Handles
      PROVE  acc[h] \in Seq(0..NCells) /\ acc[h] \o Chunk(h) \in Seq(0..NCells)
  BY ChunkType, ConcatProperties DEF TypeOK, CallbacksOK
<1> QED  BY <1>1 DEF Taken

LEMMA ClearType ==
    ASSUME TypeOK, NEW k \in Layers, Clear(k)
    PROVE  /\ callback' \in [Layers -> BOOLEAN]
           /\ acc' \in [Handles -> Seq(0..NCells)]
<1>1. <<>> \in Seq(0..NCells)
  OBVIOUS
<1> QED  BY <1>1 DEF TypeOK, CallbacksOK, Clear
-----------------------------------------------------------------------------
(***************************************************************************)
(* How the call moves.                                                     *)
(***************************************************************************)
LEMMA FailType ==
    ASSUME ControlOK, Fail
    PROVE  ControlOK'
BY StackAssumption DEF Fail, ControlOK

LEMMA ClimbType ==
    ASSUME ControlOK, NEW kinds, At(kinds),
           Climb("NotEnoughSpace") \/ Climb(base),
           UNCHANGED <<pc, driver, query, ret, errors>>
    PROVE  ControlOK'
<1>1. Len(Stack) \in Nat
  BY StackAssumption
<1> QED  BY <1>1 DEF At, Climb, ControlOK, Layers

LEMMA SubmitType ==
    ASSUME TypeOK, NEW n, CoreReturns(n),
           NEW s \in {"INCOMPLETE", "COMPLETED"},
           NEW o \in {"Intermediate", "Final"}, Submit(s, o)
    PROVE  TypeOK'
<1>1. /\ cursor' \in 0..NCells /\ batch' \in 0..cursor'
      /\ size' \in [Handles -> Space]
      /\ mem' \in [Handles -> Seq(1..NCells)]
      /\ reg' = reg /\ cap' = cap
  BY CoreReturnsType
<1>2. CoreOK' /\ HandlesOK'
  BY <1>1 DEF Submit, TypeOK, CoreOK, HandlesOK
<1>3. CallbacksOK'
  BY DEF Submit, callbacks, TypeOK, CallbacksOK
<1>4. ControlOK'
  <2>1. Len(Stack) \in Nat
    BY StackAssumption
  <2> QED  BY <2>1 DEF Submit, TypeOK, ControlOK
<1> QED  BY <1>2, <1>3, <1>4 DEF TypeOK
-----------------------------------------------------------------------------
(***************************************************************************)
(* Every reachable state is a state of the query.                          *)
(***************************************************************************)
THEOREM TypeCorrect == Spec => []TypeOK
<1> USE DEF core, handles, callbacks
<1>1. Init => TypeOK
  <2> SUFFICES ASSUME Init PROVE TypeOK
    OBVIOUS
  <2>1. NoSpace \in Space
    BY DEF NoSpace, Space, Length, NoBuffer
  <2>2. CoreOK
    BY <2>1, FieldAssumption DEF Init, CoreOK
  <2>3. HandlesOK
    <3>1. cap \in [Handles -> Space]
      BY SpacesAreSpaces DEF Init
    <3> QED  BY <3>1 DEF Init, HandlesOK
  <2>4. CallbacksOK
    BY DEF Init, CallbacksOK
  <2>5. ControlOK
    BY StackAssumption DEF Init, ControlOK
  <2> QED  BY <2>2, <2>3, <2>4, <2>5 DEF TypeOK
<1>2. TypeOK /\ [Next]_vars => TypeOK'
  <2> SUFFICES ASSUME TypeOK, [Next]_vars PROVE TypeOK'
    OBVIOUS
  <2>l. Len(Stack) \in Nat \ {0}
    BY StackAssumption, EmptySeq
  <2>1. ASSUME NEW d \in Drivers, Call(d) PROVE TypeOK'
    <3>1. CoreOK' /\ HandlesOK' /\ CallbacksOK'
      BY <2>1 DEF Call, TypeOK, CoreOK, HandlesOK, CallbacksOK
    <3>2. ControlOK'
      BY <2>1, <2>l DEF Call, TypeOK, ControlOK
    <3> QED  BY <3>1, <3>2 DEF TypeOK
  <2>2. CASE IntoIter
    <3>1. CoreOK' /\ HandlesOK' /\ CallbacksOK'
      BY <2>2 DEF IntoIter, TypeOK, CoreOK, HandlesOK, CallbacksOK
    <3>2. ControlOK'
      BY <2>2 DEF IntoIter, TypeOK, ControlOK
    <3> QED  BY <3>1, <3>2 DEF TypeOK
  <2>3. ASSUME NEW h \in Handles, ReplaceBuffers(h) PROVE TypeOK'
    <3>1. CoreOK' /\ CallbacksOK'
      BY <2>3 DEF ReplaceBuffers, TypeOK, CoreOK, CallbacksOK
    <3>2. HandlesOK'
      <4>1. h \in Handles \ Managed /\ UserSpaces[h] \subseteq Space
        BY <2>3, HandleAssumption DEF ReplaceBuffers
      <4>2. cap' \in [Handles -> Space]
        BY <2>3, <4>1 DEF ReplaceBuffers, TypeOK, HandlesOK
      <4>3. mem' \in [Handles -> Seq(1..NCells)]
        BY <2>3 DEF ReplaceBuffers, TypeOK, HandlesOK
      <4> QED  BY <2>3, <4>2, <4>3 DEF ReplaceBuffers, TypeOK, HandlesOK
    <3>3. ControlOK'
      BY <2>3 DEF ReplaceBuffers, TypeOK, ControlOK
    <3> QED  BY <3>1, <3>2, <3>3 DEF TypeOK
  <2>4. CASE Attach
    <3>1. layer \in Layers
      BY <2>4, <2>l DEF Attach, TypeOK, ControlOK, Layers
    <3>2. AttachAll(Owned(layer)) /\ Owned(layer) \subseteq Handles
      BY <2>4, <3>1, OwnedHandles DEF Attach
    <3>3. /\ size' \in [Handles -> Space]
          /\ reg' \in [Fields -> [handle : Handles \cup {NoHandle}, space : Space]]
      BY <3>2, AttachAllType
    <3>4. CoreOK' /\ HandlesOK' /\ CallbacksOK'
      BY <2>4, <3>3 DEF Attach, TypeOK, CoreOK, HandlesOK, CallbacksOK
    <3>5. ControlOK'
      BY <2>4, <2>l DEF Attach, TypeOK, ControlOK
    <3> QED  BY <3>4, <3>5 DEF TypeOK
  <2>5. CASE AttachFails
    <3>1. layer \in Layers
      BY <2>5, <2>l DEF AttachFails, TypeOK, ControlOK, Layers
    <3>2. \A j \in DOMAIN Stack[layer].args :
            {Stack[layer].args[i] : i \in 1..(j - 1)} \subseteq Handles
      <4>1. Stack[layer] \in [kind : LayerKinds, args : Seq(Handles)]
        BY <3>1, StackAssumption, ElementOfSeq DEF Layers
      <4> QED  BY <4>1, ElementOfSeq
    <3>3. /\ size' \in [Handles -> Space]
          /\ reg' \in [Fields -> [handle : Handles \cup {NoHandle}, space : Space]]
      BY <2>5, <3>2, AttachAllType DEF AttachFails
    <3>4. CoreOK' /\ HandlesOK' /\ CallbacksOK'
      BY <2>5, <3>3 DEF AttachFails, TypeOK, CoreOK, HandlesOK, CallbacksOK
    <3>5. ControlOK'
      BY <2>5, FailType DEF AttachFails, TypeOK
    <3> QED  BY <3>4, <3>5 DEF TypeOK
  <2>6. CASE SubmitComplete
    <3>1. CoreReturns(Remaining) /\ Submit("COMPLETED", "Final")
      BY <2>6 DEF SubmitComplete
    <3> QED  BY <3>1, SubmitType
  <2>7. CASE SubmitIncomplete
    <3>1. PICK n \in 0..Remaining : CoreReturns(n)
      BY <2>7 DEF SubmitIncomplete
    <3>2. Submit("INCOMPLETE", "Intermediate")
      BY <2>7 DEF SubmitIncomplete
    <3> QED  BY <3>1, <3>2, SubmitType
  <2>8. CASE SubmitFails
    <3>1. CoreOK' /\ HandlesOK' /\ CallbacksOK'
      BY <2>8 DEF SubmitFails, TypeOK, CoreOK, HandlesOK, CallbacksOK
    <3>2. ControlOK'
      BY <2>8, FailType DEF SubmitFails, TypeOK
    <3> QED  BY <3>1, <3>2 DEF TypeOK
  <2>9. CASE RawReturn
    <3>1. HandlesOK'
      BY <2>9, ReallocManagedType DEF RawReturn, TypeOK, HandlesOK
    <3>2. CoreOK' /\ CallbacksOK'
      BY <2>9 DEF RawReturn, TypeOK, CoreOK, CallbacksOK
    <3>3. ControlOK'
      BY <2>9, ClimbType DEF RawReturn, TypeOK
    <3> QED  BY <3>1, <3>2, <3>3 DEF TypeOK
  <2>10. CASE CallbackNotEnoughSpace
    <3>1. HandlesOK'
      BY <2>10, ReallocManagedType DEF CallbackNotEnoughSpace, TypeOK, HandlesOK
    <3>2. CoreOK' /\ CallbacksOK'
      BY <2>10 DEF CallbackNotEnoughSpace, TypeOK, CoreOK, CallbacksOK
    <3>3. ControlOK'
      BY <2>10, ClimbType DEF CallbackNotEnoughSpace, TypeOK
    <3> QED  BY <3>1, <3>2, <3>3 DEF TypeOK
  <2>11. CASE CallbackIntermediate
    <3>1. layer \in Layers
      BY <2>11 DEF CallbackIntermediate, CanRun, At
    <3>2. CallbacksOK'
      BY <2>11, <3>1, TakenType DEF CallbackIntermediate, TypeOK, CallbacksOK
    <3>3. CoreOK' /\ HandlesOK'
      BY <2>11 DEF CallbackIntermediate, TypeOK, CoreOK, HandlesOK
    <3>4. ControlOK'
      BY <2>11, ClimbType DEF CallbackIntermediate, CanRun, TypeOK
    <3> QED  BY <3>2, <3>3, <3>4 DEF TypeOK
  <2>12. CASE CallbackFinal
    <3>1. layer \in Layers
      BY <2>12 DEF CallbackFinal, CanRun, At
    <3>2. CallbacksOK'
      <4>1. /\ callback' \in [Layers -> BOOLEAN]
            /\ acc' \in [Handles -> Seq(0..NCells)]
        BY <2>12, <3>1, ClearType DEF CallbackFinal
      <4>2. out' \in [Handles -> Seq(0..NCells) \cup {NoResult}]
        BY <2>12, <3>1, TakenType DEF CallbackFinal, TypeOK, CallbacksOK
      <4>3. missed' \in [Layers -> BOOLEAN]
        BY <2>12 DEF CallbackFinal, TypeOK, CallbacksOK
      <4> QED  BY <4>1, <4>2, <4>3 DEF CallbacksOK
    <3>3. CoreOK' /\ HandlesOK'
      BY <2>12 DEF CallbackFinal, TypeOK, CoreOK, HandlesOK
    <3>4. ControlOK'
      BY <2>12, ClimbType DEF CallbackFinal, CanRun, TypeOK
    <3> QED  BY <3>2, <3>3, <3>4 DEF TypeOK
  <2>13. CASE CallbackFails
    <3>1. layer \in Layers
      BY <2>13 DEF CallbackFails, CanRun, At
    <3>2. CallbacksOK'
      <4>1. missed' \in [Layers -> BOOLEAN]
        BY <2>13 DEF CallbackFails, TypeOK, CallbacksOK
      <4>2. /\ callback' \in [Layers -> BOOLEAN]
            /\ acc' \in [Handles -> Seq(0..NCells)]
        BY <2>13, <3>1, ClearType DEF CallbackFails, TypeOK, CallbacksOK
      <4> QED  BY <2>13, <4>1, <4>2 DEF CallbackFails, TypeOK, CallbacksOK
    <3>3. CoreOK' /\ HandlesOK'
      BY <2>13 DEF CallbackFails, TypeOK, CoreOK, HandlesOK
    <3>4. ControlOK'
      BY <2>13, FailType DEF CallbackFails, TypeOK
    <3> QED  BY <3>2, <3>3, <3>4 DEF TypeOK
  <2>14. CASE CallbackPanics
    <3>1. CoreOK' /\ HandlesOK' /\ CallbacksOK'
      BY <2>14 DEF CallbackPanics, TypeOK, CoreOK, HandlesOK, CallbacksOK
    <3>2. ControlOK'
      BY <2>14 DEF CallbackPanics, TypeOK, ControlOK
    <3> QED  BY <3>1, <3>2 DEF TypeOK
  <2>15. CASE Return
    <3>1. CoreOK' /\ HandlesOK' /\ CallbacksOK'
      BY <2>15 DEF Return, TypeOK, CoreOK, HandlesOK, CallbacksOK
    <3>2. ControlOK'
      BY <2>15, <2>l DEF Return, TypeOK, ControlOK
    <3> QED  BY <3>1, <3>2 DEF TypeOK
  <2>16. CASE UNCHANGED vars
    BY <2>16 DEF vars, control, TypeOK, CoreOK, HandlesOK, CallbacksOK, ControlOK
  <2> QED  BY <2>1, <2>2, <2>3, <2>4, <2>5, <2>6, <2>7, <2>8, <2>9, <2>10,
              <2>11, <2>12, <2>13, <2>14, <2>15, <2>16 DEF Next, Running
<1> QED  BY <1>1, <1>2, PTL DEF Spec
-----------------------------------------------------------------------------
(***************************************************************************)
(* The inductive invariant of ReadQuery, one lemma for each of its parts,  *)
(* and the safety properties that follow from it.                          *)
(***************************************************************************)
(***************************************************************************)
(* The first so many cells, and those after them, are the first so many.   *)
(***************************************************************************)
LEMMA PrefixExtends ==
    ASSUME NEW m \in Nat, NEW n \in Nat
    PROVE  Prefix(m) \o [i \in 1..n |-> m + i] = Prefix(m + n)
<1> DEFINE s == [i \in 1..m |-> i]
           t == [i \in 1..n |-> m + i]
<1>1. s \in Seq(Int) /\ t \in Seq(Int) /\ Len(s) = m /\ Len(t) = n
  OBVIOUS
<1>2. s \o t = [i \in 1..(m + n) |-> IF i <= m THEN s[i] ELSE t[i - m]]
  BY <1>1
<1>3. \A i \in 1..(m + n) : (IF i <= m THEN s[i] ELSE t[i - m]) = i
  OBVIOUS
<1> HIDE DEF s, t
<1>4. s \o t = [i \in 1..(m + n) |-> i]
  BY <1>2, <1>3
<1> QED  BY <1>4 DEF Prefix, s, t

(***************************************************************************)
(* Counting fixed-size cells back from values loses nothing.               *)
(***************************************************************************)
LEMMA CellsOfValues ==
    ASSUME NEW n \in Nat, NEW s \in Nat, NEW d \in Nat \ {0}
    PROVE  ((s + n) * d - s * d) \div d = n
<1>1. (s + n) * d - s * d = n * d
  OBVIOUS
<1>2. (n * d) \div d = n
  BY SMT
<1> QED  BY <1>1, <1>2
-----------------------------------------------------------------------------
(***************************************************************************)
(* Reallocation: what comes back is still a space of the allocator, has    *)
(* the same buffers, and every one of them is longer.                      *)
(***************************************************************************)
LEMMA ReallocGrows ==
    ASSUME NEW a \in Allocators, NEW s \in Space,
           [kind |-> a.kind, space |-> s] \in Allocators
    PROVE  /\ [kind |-> a.kind, space |-> realloc(a, s)] \in Allocators
           /\ realloc(a, s).offsets # NoBuffer <=> s.offsets # NoBuffer
           /\ Roomier(realloc(a, s), s)
<1> DEFINE r == realloc(a, s)
<1>1. r \in Space
  BY ReallocSpace
<1>2. a.kind \in Kinds /\ s.data \in Nat /\ s.offsets \in Length /\ s.validity \in Length
  BY DEF Allocators, Space
<1>3. /\ r.data = Grown(a.kind, s.data)
      /\ r.offsets = Grown(a.kind, s.offsets)
      /\ r.validity = Grown(a.kind, s.validity)
  BY DEF realloc, Grown, Allocators
<1>4. ASSUME NEW n \in Length, a.kind = "FieldScratchAllocator" => n # 0
      PROVE  /\ Grown(a.kind, n) = NoBuffer <=> n = NoBuffer
             /\ n # NoBuffer => Grown(a.kind, n) > n
             /\ Grown(a.kind, n) # 0 \/ a.kind # "FieldScratchAllocator"
  BY <1>4 DEF Grown, Length, NoBuffer
<1>5. a.kind = "FieldScratchAllocator" => s.data # 0 /\ s.offsets # 0 /\ s.validity # 0
  BY <1>2 DEF Allocators, Length, NoBuffer
<1> HIDE DEF r
<1>6. Roomier(r, s)
  BY <1>2, <1>3, <1>4, <1>5 DEF Roomier, Length, NoBuffer
<1>7. [kind |-> a.kind, space |-> r] \in Allocators
  BY <1>1, <1>2, <1>3, <1>4, <1>5 DEF Allocators, Length, NoBuffer, Space
<1> QED  BY <1>2, <1>3, <1>4, <1>5, <1>6, <1>7 DEF r

LEMMA ShapedRealloc ==
    ASSUME TypeOK, Shaped, NEW hs, ReallocManaged(hs)
    PROVE  Shaped'
<1>1. ASSUME NEW h \in Managed
      PROVE  /\ [kind |-> Allocator[h].kind, space |-> realloc(Allocator[h], cap[h])] \in Allocators
             /\ realloc(Allocator[h], cap[h]).offsets # NoBuffer <=> cap[h].offsets # NoBuffer
  <2>1. Allocator[h] \in Allocators /\ cap[h] \in Space
    BY HandleAssumption DEF TypeOK, HandlesOK
  <2> QED  BY <2>1, ReallocGrows DEF Shaped
<1>2. Managed \subseteq Handles
  BY HandleAssumption
<1> QED  BY <1>1, <1>2 DEF Shaped, ReallocManaged

(***************************************************************************)
(* The lengths of the buffers change in three ways only.                   *)
(***************************************************************************)
LEMMA CapChanges ==
    ASSUME [Next]_vars
    PROVE  \/ cap' = cap
           \/ \E h \in Handles : ReplaceBuffers(h)
           \/ \E hs : ReallocManaged(hs)
BY DEF Next, Running, vars, core, handles, callbacks, control, Call, IntoIter,
       Attach, AttachFails, SubmitComplete, SubmitIncomplete, CoreReturns, SubmitFails,
       RawReturn, CallbackNotEnoughSpace, CallbackIntermediate, CallbackFinal,
       CallbackFails, CallbackPanics, Return

LEMMA ShapedNext ==
    ASSUME TypeOK, Shaped, [Next]_vars
    PROVE  Shaped'
<1>1. CASE cap' = cap
  BY <1>1 DEF Shaped
<1>2. ASSUME NEW h \in Handles, ReplaceBuffers(h) PROVE Shaped'
  <2>1. h \in Handles \ Managed
    BY <1>2 DEF ReplaceBuffers
  <2>2. PICK s \in UserSpaces[h] : cap' = [cap EXCEPT ![h] = s]
    BY <1>2 DEF ReplaceBuffers
  <2>3. s.offsets # NoBuffer <=> FieldOf[h] \in VarFields
    BY <2>1, HandleAssumption
  <2>4. Managed \subseteq Handles /\ cap \in [Handles -> Space]
    BY HandleAssumption DEF TypeOK, HandlesOK
  <2> QED  BY <2>1, <2>2, <2>3, <2>4 DEF Shaped
<1>3. ASSUME NEW hs, ReallocManaged(hs) PROVE Shaped'
  BY <1>3, ShapedRealloc
<1> QED  BY <1>1, <1>2, <1>3, CapChanges
-----------------------------------------------------------------------------
(***************************************************************************)
(* Two adapters share no handle, and neither do two callbacks.             *)
(***************************************************************************)
LEMMA GivenDisjoint ==
    ASSUME DistinctFields, NEW j \in Callbacks, NEW k \in Callbacks,
           NEW h \in Given(j), h \in Given(k)
    PROVE  j = k
<1> DEFINE from(m) == IF Stack[m].kind = "callback_var" THEN m - 1 ELSE m
<1>1. ASSUME NEW m \in Callbacks
      PROVE  /\ from(m) \in Layers /\ Given(m) = Owned(from(m))
             /\ Stack[from(m)].kind = "raw" <=> Stack[m].kind = "callback_var"
  <2>1. m \in Layers /\ m \in Int /\ Stack[m].kind # "raw"
    BY DEF Callbacks, Layers
  <2>2. CASE Stack[m].kind = "callback_var"
    <3>1. m > 1 /\ Stack[m - 1].kind = "raw"
      BY <2>1, <2>2, StackAssumption
    <3>2. m - 1 \in Layers
      BY <2>1, <3>1 DEF Layers
    <3> QED  BY <2>2, <3>1, <3>2 DEF Given
  <2>3. CASE Stack[m].kind # "callback_var"
    BY <2>1, <2>3 DEF Given
  <2> QED  BY <2>2, <2>3
<1>2. h \in Handles /\ j \in Layers /\ k \in Layers
  BY GivenHandles DEF Callbacks
<1> HIDE DEF from
<1>3. from(j) = from(k)
  BY <1>1, <1>2 DEF DistinctFields
<1> QED  BY <1>1, <1>2, <1>3 DEF from, Layers

(***************************************************************************)
(* Attaching the handles of one adapter registers each of them, and leaves *)
(* the fields of the other adapters alone.                                 *)
(***************************************************************************)
LEMMA AttachAllRegisters ==
    ASSUME TypeOK, DistinctFields, NEW k \in Layers, AttachAll(Owned(k))
    PROVE  /\ \A h \in Owned(k) :
                /\ reg'[FieldOf[h]] = [handle |-> h, space |-> cap[h]]
                /\ size'[h] = cap[h]
           /\ \A h \in Handles \ Owned(k) :
                /\ reg'[FieldOf[h]] = reg[FieldOf[h]]
                /\ size'[h] = size[h]
<1> DEFINE hs == Owned(k)
<1>1. hs \subseteq Handles /\ FieldOf \in [Handles -> Fields]
  BY OwnedHandles, HandleAssumption
<1>2. ASSUME NEW h \in hs
      PROVE  (CHOOSE g \in hs : FieldOf[g] = FieldOf[h]) = h
  <2>1. \A g \in hs : FieldOf[g] = FieldOf[h] => g = h
    BY <1>1 DEF DistinctFields
  <2> QED  BY <2>1
<1>3. ASSUME NEW h \in Handles \ hs
      PROVE  ~ \E g \in hs : FieldOf[g] = FieldOf[h]
  BY <1>1 DEF DistinctFields
<1> HIDE DEF hs
<1>4. AttachAll(hs)
  BY DEF hs
<1>5. ASSUME NEW h \in hs
      PROVE  /\ reg'[FieldOf[h]] = [handle |-> h, space |-> cap[h]]
             /\ size'[h] = cap[h]
  <2> DEFINE f == FieldOf[h]
             chosen == CHOOSE g \in hs : FieldOf[g] = f
  <2>1. f \in Fields /\ h \in Handles /\ chosen = h
    BY <1>1, <1>2
  <2>2. reg'[f] = [handle |-> chosen, space |-> cap[chosen]]
    BY <2>1, <1>4 DEF AttachAll
  <2>3. size'[h] = cap[h]
    BY <2>1, <1>4 DEF AttachAll
  <2> QED  BY <2>1, <2>2, <2>3
<1>6. \A h \in Handles \ hs : /\ reg'[FieldOf[h]] = reg[FieldOf[h]]
                              /\ size'[h] = size[h]
  BY <1>1, <1>3, <1>4 DEF AttachAll
<1> QED  BY <1>5, <1>6 DEF hs

(***************************************************************************)
(* Only Attach keeps a call on its way down.                               *)
(***************************************************************************)
LEMMA AttachedNext ==
    ASSUME TypeOK, DistinctFields, Attached, [Next]_vars
    PROVE  Attached'
<1> USE DEF core, handles, callbacks
<1>l. Len(Stack) \in Nat
  BY StackAssumption
<1>1. CASE Attach
  <2>1. layer \in Layers /\ AttachAll(Owned(layer)) /\ layer' = layer - 1
    BY <1>1, <1>l DEF Attach, TypeOK, ControlOK, Layers
  <2>2. ASSUME NEW j \in Layers, j > layer', NEW h \in Owned(j)
        PROVE  /\ reg'[FieldOf[h]] = [handle |-> h, space |-> cap[h]]
               /\ size'[h] = cap[h]
    <3>1. CASE j = layer
      BY <2>1, <2>2, <3>1, AttachAllRegisters
    <3>2. CASE j # layer
      <4>1. h \in Handles \ Owned(layer)
        BY <2>1, <3>2, OwnedHandles DEF DistinctFields
      <4>2. j > layer
        BY <2>1, <2>2, <3>2, <1>l DEF Layers
      <4>3. reg[FieldOf[h]] = [handle |-> h, space |-> cap[h]] /\ size[h] = cap[h]
        BY <4>2, <1>1 DEF Attached, Attach
      <4> QED  BY <2>1, <4>1, <4>3, AttachAllRegisters
    <3> QED  BY <3>1, <3>2
  <2> QED  BY <1>1, <2>2 DEF Attached, Attach
<1>2. ASSUME NEW d \in Drivers, Call(d) PROVE Attached'
  BY <1>2, <1>l DEF Call, Attached, Layers
<1>3. CASE Return
  BY <1>3, <1>l DEF Return, Attached, Layers
<1>4. CASE UNCHANGED vars
  BY <1>4 DEF vars, control, Attached
<1>5. CASE ~Attach /\ ~(\E d \in Drivers : Call(d)) /\ ~Return /\ ~UNCHANGED vars
  <2>1. pc' # "attach"
    BY <1>5 DEF Next, Running, IntoIter, ReplaceBuffers, AttachFails, Fail,
         SubmitComplete, SubmitIncomplete, Submit, SubmitFails, RawReturn, At,
         CallbackNotEnoughSpace, CallbackIntermediate, CallbackFinal, CanRun,
         CallbackFails, CallbackPanics
  <2> QED  BY <2>1 DEF Attached
<1> QED  BY <1>1, <1>2, <1>3, <1>4, <1>5
-----------------------------------------------------------------------------
(***************************************************************************)
(* What a submission leaves in the buffers and the size pointers, and that *)
(* it stays there on the way up.                                           *)
(***************************************************************************)
LEMMA SubmittedFresh ==
    ASSUME TypeOK, Shaped, Attached, pc = "attach", layer = 0,
           NEW n, CoreReturns(n)
    PROVE  /\ batch' = n /\ cursor' = Start + n
           /\ \A h \in Handles : last_read_ncells(h)' = batch' /\ mem'[h] = Batch'
<1>1. n \in Nat /\ Start \in Nat /\ Start + n \in 0..NCells /\ Start \in 0..NCells
  BY CoreReturnsType, StartType
<1>2. batch' = n /\ cursor' = Start + n
  BY DEF CoreReturns
<1>3. Batch' = [i \in 1..n |-> Start + i]
  <2> DEFINE s == Start
  <2> HIDE DEF s
  <2>1. s \in Nat /\ cursor' = s + n
    BY <1>1, <1>2 DEF s
  <2>2. \A i \in 1..n : cursor' - n + i = s + i
    BY <1>1, <2>1
  <2>3. Batch' = [i \in 1..n |-> s + i]
    BY <1>2, <2>2 DEF Batch
  <2> QED  BY <2>3 DEF s
<1>4. ASSUME NEW h \in Handles
      PROVE  last_read_ncells(h)' = n /\ mem'[h] = [i \in 1..n |-> Start + i]
  <2> DEFINE f == FieldOf[h]
  <2>1. f \in Fields /\ h \in DOMAIN size
    BY HandleAssumption DEF TypeOK, HandlesOK
  <2>2. Target(h) /\ size[h] = cap[h]
    <3>1. PICK k \in Layers : h \in Owned(k)
      BY StackAssumption
    <3>2. k > layer
      BY DEF Layers
    <3>3. reg[FieldOf[h]] = [handle |-> h, space |-> cap[h]] /\ size[h] = cap[h]
      BY <3>1, <3>2 DEF Attached
    <3> QED  BY <3>3 DEF Target
  <2>3. mem'[h] = [i \in 1..n |-> Start + i]
    BY <2>2 DEF CoreReturns
  <2>4. /\ size'[h].data = CellEnd[f][Start + n] - CellEnd[f][Start]
        /\ size[h].offsets # NoBuffer => size'[h].offsets = IF n = 0 THEN 0 ELSE n + 1
    BY <2>2 DEF CoreReturns
  <2>5. CASE f \in VarFields
    <3>1. size[h].offsets # NoBuffer
      BY <2>2, <2>5 DEF Shaped
    <3>2. last_read_ncells(h)' = n
      BY <1>1, <2>4, <2>5, <3>1 DEF last_read_ncells
    <3> QED  BY <2>3, <3>2
  <2>6. CASE f \notin VarFields
    <3>1. /\ CellEnd[f][Start + n] = (Start + n) * CellValNum[f]
          /\ CellEnd[f][Start] = Start * CellValNum[f]
          /\ CellValNum[f] \in Nat \ {0}
      BY <1>1, <2>1, <2>6, FieldAssumption
    <3>2. size'[h].data \div CellValNum[f] = n
      BY <1>1, <2>4, <3>1, CellsOfValues
    <3>3. last_read_ncells(h)' = n
      BY <2>6, <3>2 DEF last_read_ncells
    <3> QED  BY <2>3, <3>3
  <2> QED  BY <2>5, <2>6
<1> QED  BY <1>2, <1>3, <1>4

LEMMA FreshNext ==
    ASSUME TypeOK, Shaped, Attached, Fresh, [Next]_vars
    PROVE  Fresh'
<1> USE DEF core, handles, callbacks
<1>1. ASSUME NEW n, CoreReturns(n), pc = "attach", layer = 0
      PROVE  Fresh'
  BY <1>1, SubmittedFresh DEF Fresh
<1>2. CASE SubmitComplete \/ SubmitIncomplete
  BY <1>1, <1>2 DEF SubmitComplete, SubmitIncomplete, Submit
<1>3. CASE ~SubmitComplete /\ ~SubmitIncomplete
  <2> DEFINE offered(p, r) == p = "return" \/ (p = "idle" /\ r \in {"Intermediate", "Final"})
  <2>1. offered(pc', ret') => offered(pc, ret) /\ UNCHANGED <<size, mem, cursor, batch>>
    BY <1>3 DEF Next, Running, vars, control, Call, IntoIter, ReplaceBuffers, Attach,
         AttachFails, Fail, SubmitFails, RawReturn, At, CallbackNotEnoughSpace,
         CallbackIntermediate, CallbackFinal, CanRun, CallbackFails,
         CallbackPanics, Return
  <2>2. CASE UNCHANGED <<size, mem, cursor, batch>> /\ offered(pc, ret)
    BY <2>2 DEF Fresh, last_read_ncells, Batch
  <2>3. CASE ~offered(pc', ret')
    BY <2>3 DEF Fresh
  <2> QED  BY <2>1, <2>2, <2>3
<1> QED  BY <1>2, <1>3
-----------------------------------------------------------------------------
(***************************************************************************)
(* All the handles of an adapter are empty, or none is.                    *)
(***************************************************************************)
LEMMA EmptyTogether ==
    ASSUME TypeOK, Fresh, pc = "return",
           NEW k \in Layers, Stack[k].kind # "callback_var"
    PROVE  /\ DOMAIN Stack[k].args # {}
           /\ batch = 0 => EmptyArgs(k) = DOMAIN Stack[k].args
           /\ batch # 0 => EmptyArgs(k) = {}
<1>1. /\ Stack[k] \in [kind : LayerKinds, args : Seq(Handles)]
      /\ Stack[k].args # <<>>
  BY StackAssumption, ElementOfSeq DEF Layers
<1>2. DOMAIN Stack[k].args # {}
  <2> DEFINE a == Stack[k].args
  <2>1. a \in Seq(Handles) /\ a # <<>>
    BY <1>1
  <2> HIDE DEF a
  <2>2. Len(a) \in Nat \ {0} /\ DOMAIN a = 1..Len(a)
    BY <2>1, EmptySeq
  <2>3. 1 \in DOMAIN a
    BY <2>2
  <2> QED  BY <2>3 DEF a
<1>3. \A i \in DOMAIN Stack[k].args : last_read_ncells(Stack[k].args[i]) = batch
  BY <1>1, ElementOfSeq DEF Fresh
<1> QED  BY <1>2, <1>3 DEF EmptyArgs

LEMMA NoRoomMeansEmpty ==
    ASSUME TypeOK, Fresh, Judged, At({"callback", "callback_var"})
    PROVE  /\ NoRoom(layer) => batch = 0 /\ base # "Final" /\ ~BorrowedAtRealloc(layer)
           /\ NoRoom(layer) => base = "NotEnoughSpace" \/ layer = 1
           /\ ~NoRoom(layer) => base # "NotEnoughSpace" /\ (base = "Intermediate" => batch > 0)
<1>1. pc = "return" /\ layer \in Layers /\ batch \in Nat
  BY FieldAssumption DEF At, TypeOK, CoreOK
<1>l. layer \in Nat \ {0}
  BY <1>1 DEF Layers
<1>2. CASE Stack[layer].kind = "callback_var"
  <2>1. layer > 1 /\ Stack[layer].args = <<>>
    BY <1>1, <1>2, StackAssumption
  <2>2. DOMAIN Stack[layer].args = {}
    BY <2>1
  <2> QED  BY <1>1, <1>2, <2>1, <2>2 DEF NoRoom, Judged, BorrowedAtRealloc, TypeOK, ControlOK
<1>3. CASE Stack[layer].kind # "callback_var"
  <2>1. /\ DOMAIN Stack[layer].args # {}
        /\ batch = 0 => EmptyArgs(layer) = DOMAIN Stack[layer].args
        /\ batch # 0 => EmptyArgs(layer) = {}
    BY <1>1, <1>3, EmptyTogether
  <2>2. NoRoom(layer) <=> base # "Final" /\ batch = 0
    BY <1>3, <2>1 DEF NoRoom
  <2>3. batch = 0 => ~BorrowedAtRealloc(layer)
    <3>1. DOMAIN Stack[layer].args \subseteq Nat
      <4>1. Stack[layer] \in [kind : LayerKinds, args : Seq(Handles)]
        BY <1>1, StackAssumption, ElementOfSeq DEF Layers
      <4> QED  BY <4>1
    <3> QED  BY <2>1, <3>1 DEF BorrowedAtRealloc
  <2> QED  BY <1>1, <1>l, <2>2, <2>3 DEF Judged, TypeOK, ControlOK
<1> QED  BY <1>2, <1>3

LEMMA RawNoRoomMeansEmpty ==
    ASSUME TypeOK, Fresh, Judged, At({"raw"})
    PROVE  /\ RawNoRoom(layer) => batch = 0 /\ layer = 1
           /\ ~RawNoRoom(layer) => (base = "Intermediate" => batch > 0)
<1>1. pc = "return" /\ layer \in Layers /\ batch \in Nat /\ layer \in Nat \ {0}
  BY FieldAssumption DEF At, TypeOK, CoreOK, Layers
<1>2. /\ DOMAIN Stack[layer].args # {}
      /\ batch = 0 => EmptyArgs(layer) = DOMAIN Stack[layer].args
      /\ batch # 0 => EmptyArgs(layer) = {}
  BY <1>1, EmptyTogether DEF At
<1> QED  BY <1>1, <1>2 DEF RawNoRoom, Judged
-----------------------------------------------------------------------------
(***************************************************************************)
(* The first adapter to see a submission decides for all of them.          *)
(***************************************************************************)
LEMMA JudgedNext ==
    ASSUME TypeOK, Fresh, Judged, [Next]_vars
    PROVE  Judged'
<1> USE DEF core, handles, callbacks
<1>1. CASE SubmitComplete
  <2>1. cursor' = NCells
    BY <1>1, StartType, FieldAssumption DEF SubmitComplete, CoreReturns, Remaining
  <2> QED  BY <1>1, <2>1 DEF SubmitComplete, Submit, Judged
<1>2. CASE SubmitIncomplete
  BY <1>2 DEF SubmitIncomplete, Submit, Judged
<1>3. CASE RawReturn
  <2>0. /\ At({"raw"}) /\ pc = "return" /\ layer \in Nat \ {0}
        /\ layer' = layer + 1 /\ UNCHANGED <<pc, status, cursor, batch>>
    BY <1>3 DEF RawReturn, At, Climb, Layers
  <2>1. CASE base = "NotEnoughSpace" /\ base' = base
    BY <2>0, <2>1 DEF Judged
  <2>2. CASE RawNoRoom(layer) /\ base' = "NotEnoughSpace"
    <3>1. base = "Intermediate" /\ batch = 0
      BY <2>0, <2>2, RawNoRoomMeansEmpty DEF RawNoRoom
    <3> QED  BY <2>0, <2>2, <3>1 DEF Judged
  <2>3. CASE ~RawNoRoom(layer) /\ base # "NotEnoughSpace" /\ base' = base
    <3>1. base = "Intermediate" => batch > 0
      BY <2>0, <2>3, RawNoRoomMeansEmpty
    <3> QED  BY <2>0, <2>3, <3>1 DEF Judged
  <2> QED  BY <1>3, <2>1, <2>2, <2>3 DEF RawReturn, Climb
<1>4. CASE CallbackNotEnoughSpace
  BY <1>4, NoRoomMeansEmpty DEF CallbackNotEnoughSpace, At, Climb, Judged
<1>5. CASE CallbackIntermediate \/ CallbackFinal
  BY <1>5, NoRoomMeansEmpty DEF CallbackIntermediate, CallbackFinal, CanRun, At, Climb, Judged
<1>6. CASE UNCHANGED vars
  BY <1>6 DEF vars, control, Judged
<1>7. CASE IntoIter \/ \E h \in Handles : ReplaceBuffers(h)
  BY <1>7 DEF IntoIter, ReplaceBuffers, Judged
<1>8. CASE (\E d \in Drivers : Call(d)) \/ Attach \/ AttachFails \/ SubmitFails
           \/ CallbackFails \/ CallbackPanics \/ Return
  BY <1>8 DEF Call, Attach, AttachFails, Fail, SubmitFails, CallbackFails,
              CallbackPanics, Return, Judged
<1> QED  BY <1>1, <1>2, <1>3, <1>4, <1>5, <1>6, <1>7, <1>8 DEF Next, Running

(***************************************************************************)
(* Reallocating an adapter's buffers on the way up: they were the offered  *)
(* ones, and those of the other adapters stay as they are.                 *)
(***************************************************************************)
LEMMA OfferedRealloc ==
    ASSUME TypeOK, DistinctFields, Shaped, Offered, pc = "return", layer \in Layers,
           ReallocManaged(Owned(layer)), base = "NotEnoughSpace" \/ layer = 1,
           layer' = layer + 1, reg' = reg
    PROVE  Offered'
<1>l. Len(Stack) \in Nat
  BY StackAssumption
<1>1. SUFFICES ASSUME NEW j \in Layers, NEW h \in Owned(j)
      PROVE  /\ j >= layer + 1 => cap'[h] = reg[FieldOf[h]].space
             /\ /\ base' = "NotEnoughSpace" /\ j < layer + 1
                /\ h \in Managed /\ (j > 1 \/ Stack[j].kind # "raw")
                => Roomier(cap'[h], reg[FieldOf[h]].space)
  BY DEF Offered, Roomier
<1>2. h \in Handles
  BY OwnedHandles
<1>3. CASE j = layer
  <2>1. cap[h] = reg[FieldOf[h]].space
    BY <1>3, <1>l DEF Offered, Layers
  <2>2. ASSUME h \in Managed
        PROVE  Roomier(realloc(Allocator[h], cap[h]), cap[h])
    <3>1. Allocator[h] \in Allocators /\ cap[h] \in Space
      BY <1>2, <2>2, HandleAssumption DEF TypeOK, HandlesOK
    <3> QED  BY <2>2, <3>1, ReallocGrows DEF Shaped
  <2>3. h \in Managed => cap'[h] = realloc(Allocator[h], cap[h])
    BY <1>2, <1>3 DEF ReallocManaged
  <2> QED  BY <1>3, <1>l, <2>1, <2>2, <2>3 DEF Layers
<1>4. CASE j # layer
  <2>1. h \notin Owned(layer)
    BY <1>2, <1>4 DEF DistinctFields
  <2>2. cap'[h] = cap[h]
    BY <1>2, <2>1 DEF ReallocManaged
  <2>3. CASE j > layer
    BY <1>l, <2>2, <2>3 DEF Offered, Layers
  <2>4. CASE j < layer
    <3>1. base = "NotEnoughSpace"
      BY <1>l, <2>4 DEF Layers
    <3> QED  BY <1>l, <2>2, <2>4, <3>1 DEF Offered, Layers
  <2> QED  BY <1>4, <1>l, <2>3, <2>4 DEF Layers
<1> QED  BY <1>3, <1>4

LEMMA OfferedNext ==
    ASSUME TypeOK, DistinctFields, Shaped, Attached, Fresh, Judged, Offered, [Next]_vars
    PROVE  Offered'
<1> USE DEF core, handles, callbacks
<1>l. Len(Stack) \in Nat
  BY StackAssumption
<1>1. ASSUME NEW n, CoreReturns(n), pc = "attach", layer = 0, layer' = 1
      PROVE  Offered'
  <2>1. reg' = reg /\ cap' = cap
    BY <1>1 DEF CoreReturns
  <2>2. ASSUME NEW j \in Layers, NEW h \in Owned(j)
        PROVE  ~(j < 1) /\ cap[h] = reg[FieldOf[h]].space
    <3>1. j > layer /\ ~(j < 1)
      BY <1>1 DEF Layers
    <3>2. reg[FieldOf[h]] = [handle |-> h, space |-> cap[h]]
      BY <1>1, <3>1 DEF Attached
    <3> QED  BY <3>1, <3>2
  <2> QED  BY <1>1, <2>1, <2>2 DEF Offered
<1>2. CASE SubmitComplete \/ SubmitIncomplete
  BY <1>1, <1>2 DEF SubmitComplete, SubmitIncomplete, Submit
<1>3. CASE RawReturn
  <2>0. /\ At({"raw"}) /\ layer \in Layers /\ pc = "return"
        /\ layer' = layer + 1 /\ reg' = reg
    BY <1>3 DEF RawReturn, At, Climb
  <2>1. CASE base = "NotEnoughSpace" /\ ReallocManaged(Owned(layer))
    BY <2>0, <2>1, OfferedRealloc
  <2>2. CASE RawNoRoom(layer) /\ cap' = cap /\ base' = "NotEnoughSpace"
    <3>1. layer = 1 /\ Stack[1].kind = "raw"
      BY <2>0, <2>2, RawNoRoomMeansEmpty DEF At
    <3>2. \A j \in Layers : (j >= 2 => j >= layer) /\ (j < 2 => j = 1)
      BY <1>l, <3>1 DEF Layers
    <3> QED  BY <2>0, <2>2, <3>1, <3>2 DEF Offered
  <2>3. CASE base # "NotEnoughSpace" /\ cap' = cap /\ base' = base
    <3>1. \A j \in Layers : j >= layer + 1 => j >= layer
      BY <1>l, <2>0 DEF Layers
    <3> QED  BY <2>0, <2>3, <3>1 DEF Offered
  <2> QED  BY <1>3, <2>1, <2>2, <2>3 DEF RawReturn, Climb
<1>4. CASE CallbackNotEnoughSpace
  <2>1. /\ layer \in Layers /\ pc = "return" /\ NoRoom(layer)
        /\ At({"callback", "callback_var"})
        /\ layer' = layer + 1 /\ reg' = reg /\ ReallocManaged(Owned(layer))
    BY <1>4 DEF CallbackNotEnoughSpace, At, Climb
  <2> QED  BY <2>1, NoRoomMeansEmpty, OfferedRealloc
<1>5. CASE CallbackIntermediate \/ CallbackFinal
  <2>1. /\ layer \in Layers /\ pc = "return" /\ base # "NotEnoughSpace"
        /\ layer' = layer + 1 /\ reg' = reg /\ cap' = cap /\ base' = base
    BY <1>5 DEF CallbackIntermediate, CallbackFinal, CanRun, At, Climb
  <2>2. \A j \in Layers : j >= layer + 1 => j >= layer
    BY <1>l, <2>1 DEF Layers
  <2> QED  BY <2>1, <2>2 DEF Offered
<1>6. CASE UNCHANGED vars
  BY <1>6 DEF vars, control, Offered
<1>7. CASE IntoIter \/ \E h \in Handles : ReplaceBuffers(h)
  BY <1>7 DEF IntoIter, ReplaceBuffers, Offered
<1>8. CASE (\E d \in Drivers : Call(d)) \/ Attach \/ AttachFails \/ SubmitFails
           \/ CallbackFails \/ CallbackPanics \/ Return
  BY <1>8 DEF Call, Attach, AttachFails, Fail, SubmitFails, CallbackFails,
              CallbackPanics, Return, Offered
<1> QED  BY <1>2, <1>3, <1>4, <1>5, <1>6, <1>7, <1>8 DEF Next, Running

(***************************************************************************)
(* A callback goes only when it is consumed, and cleared() brings it back. *)
(***************************************************************************)
LEMMA PresentNext ==
    ASSUME TypeOK, Present, [Next]_vars
    PROVE  Present'
<1>1. callback' = callback \/ \E k \in Layers : Clear(k)
  BY DEF Next, Running, vars, core, handles, callbacks, control, Call, IntoIter,
       ReplaceBuffers, Attach, AttachFails, SubmitComplete, SubmitIncomplete, Submit,
       SubmitFails, RawReturn, CallbackNotEnoughSpace, CallbackIntermediate,
       CallbackFinal, CanRun, At, CallbackFails, CallbackPanics, Return
<1>2. callback \in [Layers -> BOOLEAN] /\ Callbacks \subseteq Layers
  BY DEF TypeOK, CallbacksOK, Callbacks
<1> QED  BY <1>1, <1>2 DEF Present, Clear

(***************************************************************************)
(* Once panicked, always panicked; and before, no room means no cells.     *)
(***************************************************************************)
LEMMA PanicsOnlyUnclearedNext ==
    ASSUME TypeOK, Fresh, Judged, PanicsOnlyUncleared, [Next]_vars
    PROVE  PanicsOnlyUncleared'
<1> USE DEF core, handles, callbacks
<1>1. CASE CallbackPanics
  <2>1. Panics(layer) /\ At({"callback", "callback_var"})
    BY <1>1 DEF CallbackPanics
  <2>2. ~callback[layer]
    BY <2>1, NoRoomMeansEmpty DEF Panics
  <2>3. layer \in Callbacks
    BY <2>1 DEF At, Callbacks
  <2> QED  BY <1>1, <2>2, <2>3 DEF CallbackPanics, PanicsOnlyUncleared
<1>2. CASE UNCHANGED vars
  BY <1>2 DEF vars, control, PanicsOnlyUncleared, Callbacks
<1>3. CASE ~CallbackPanics /\ ~UNCHANGED vars
  <2>1. pc' # "panic"
    BY <1>3 DEF Next, Running, Call, IntoIter, ReplaceBuffers, Attach, AttachFails, Fail,
         SubmitComplete, SubmitIncomplete, Submit, SubmitFails, RawReturn, At,
         CallbackNotEnoughSpace, CallbackIntermediate, CallbackFinal, CanRun,
         CallbackFails, Return
  <2> QED  BY <2>1 DEF PanicsOnlyUncleared
<1> QED  BY <1>1, <1>2, <1>3
-----------------------------------------------------------------------------
(***************************************************************************)
(* On the way up a callback that has everything before the last submission *)
(* has everything, once it has taken its chunks.                           *)
(***************************************************************************)
LEMMA TakenIsPrefix ==
    ASSUME TypeOK, Fresh, pc = "return", NEW k \in Layers, NEW h \in Given(k),
           acc[h] = Prefix(cursor - batch)
    PROVE  Taken(k)[h] = Prefix(cursor)
<1>1. h \in Handles
  BY GivenHandles
<1>2. cursor \in Nat /\ batch \in Nat /\ batch <= cursor
  BY FieldAssumption DEF TypeOK, CoreOK
<1>3. Chunk(h) = Batch
  <2>1. last_read_ncells(h) = batch /\ mem[h] = Batch
    BY <1>1 DEF Fresh
  <2>2. \A i \in 1..batch : i \in DOMAIN Batch
    BY DEF Batch
  <2>3. Chunk(h) = [i \in 1..batch |-> Batch[i]]
    BY <2>1, <2>2 DEF Chunk
  <2> QED  BY <2>3 DEF Batch
<1> DEFINE m == cursor - batch
<1>4. m \in Nat /\ m + batch = cursor
  BY <1>2
<1>5. Batch = [i \in 1..batch |-> m + i]
  BY DEF Batch
<1>6. acc[h] = Prefix(m)
  OBVIOUS
<1> HIDE DEF m
<1>7. acc[h] \o Chunk(h) = Prefix(cursor)
  BY <1>2, <1>3, <1>4, <1>5, <1>6, PrefixExtends
<1> QED  BY <1>1, <1>7 DEF Taken

(***************************************************************************)
(* An adapter's half of the way up says nothing about the others.          *)
(***************************************************************************)
LEMMA SeenByOthers ==
    ASSUME NEW k \in Layers, layer \in Layers, k # layer, pc = "return", pc' = pc,
           layer' = layer + 1, UNCHANGED <<status, cursor, batch>>
    PROVE  Seen(k)' = Seen(k)
<1>1. k \in Nat /\ layer \in Nat
  BY DEF Layers
<1>2. (layer + 1 <= k) <=> (layer <= k)
  BY <1>1
<1> QED  BY <1>2 DEF Seen, Start

LEMMA ClearTakes ==
    ASSUME TypeOK, NoClones, NEW k \in Layers, Clear(k)
    PROVE  /\ \A h \in Given(k) : acc'[h] = <<>>
           /\ \A h \in Handles \ Given(k) : acc'[h] = acc[h]
           /\ \A j \in Layers : j # k => callback'[j] = callback[j]
<1>1. Given(k) \subseteq Handles /\ ClearedBy[k] # "clone"
  BY GivenHandles DEF NoClones
<1> QED  BY <1>1 DEF Clear, TypeOK, CallbacksOK

(***************************************************************************)
(* Every step keeps the callbacks that missed nothing up to date.          *)
(***************************************************************************)
LEMMA ExactlyOnceNext ==
    ASSUME TypeOK, DistinctFields, NoClones, Shaped, Attached, Fresh, Judged,
           ExactlyOnce, [Next]_vars
    PROVE  ExactlyOnce'
<1> USE DEF core, handles, callbacks
<1>l. Len(Stack) \in Nat
  BY StackAssumption
<1>1. SUFFICES ASSUME NEW k \in Callbacks, NEW h \in Given(k),
                      pc' # "panic", callback'[k], ~missed'[k]
               PROVE  acc'[h] = Prefix(Seen(k)')
  BY DEF ExactlyOnce
<1>2. k \in Layers /\ k \in Nat /\ h \in Handles
  BY GivenHandles DEF Callbacks, Layers
<1>3. ASSUME pc # "panic", callback[k], ~missed[k]
      PROVE  acc[h] = Prefix(Seen(k))
  BY <1>3 DEF ExactlyOnce
<1>4. cursor \in Nat /\ batch \in Nat
  BY FieldAssumption DEF TypeOK, CoreOK
<1>5. Prefix(0) = <<>>
  BY DEF Prefix
<1>6. CASE (\E d \in Drivers : Call(d)) \/ IntoIter \/ (\E g \in Handles : ReplaceBuffers(g))
           \/ Attach \/ AttachFails \/ SubmitFails \/ Return
  <2>1. /\ pc # "panic" /\ callback' = callback /\ missed' = missed /\ acc' = acc
        /\ status' = status /\ cursor' = cursor /\ pc' # "return"
        /\ pc = "return" => layer = Len(Stack) + 1
    BY <1>6 DEF Call, IntoIter, ReplaceBuffers, Attach, AttachFails, Fail, SubmitFails, Return
  <2>2. Seen(k)' = Start /\ Seen(k) = Start
    BY <1>2, <1>l, <2>1 DEF Seen, Start, Layers
  <2> QED  BY <1>1, <1>3, <2>1, <2>2
<1>7. CASE SubmitComplete \/ SubmitIncomplete
  <2>1. /\ pc = "attach" /\ layer = 0 /\ pc' = "return" /\ layer' = 1
        /\ callback' = callback /\ missed' = missed /\ acc' = acc
    BY <1>7 DEF SubmitComplete, SubmitIncomplete, Submit
  <2>2. PICK n : CoreReturns(n)
    BY <1>7 DEF SubmitComplete, SubmitIncomplete
  <2>3. cursor' - batch' = Start
    <3> DEFINE s == Start
    <3>1. s \in Nat /\ n \in Nat /\ cursor' = s + n /\ batch' = n
      BY <2>2, CoreReturnsType, StartType DEF CoreReturns
    <3> HIDE DEF s
    <3>2. cursor' - batch' = s
      BY <3>1
    <3> QED  BY <3>2 DEF s
  <2>4. Seen(k)' = Start /\ Seen(k) = Start
    BY <1>2, <2>1, <2>3 DEF Seen, Layers
  <2> QED  BY <1>1, <1>3, <2>1, <2>4
<1>8. CASE RawReturn
  <2>1. /\ pc = "return" /\ pc' = pc /\ layer \in Layers /\ layer' = layer + 1
        /\ UNCHANGED <<status, cursor, batch>>
        /\ callback' = callback /\ missed' = missed /\ acc' = acc
    BY <1>8 DEF RawReturn, At, Climb
  <2>2. k # layer
    BY <1>8 DEF RawReturn, At, Callbacks
  <2>3. Seen(k)' = Seen(k)
    BY <1>2, <2>1, <2>2, SeenByOthers
  <2> QED  BY <1>1, <1>3, <2>1, <2>3
<1>9. CASE CallbackNotEnoughSpace
  <2>1. /\ pc = "return" /\ pc' = pc /\ layer \in Layers /\ layer' = layer + 1
        /\ UNCHANGED <<status, cursor, batch>>
        /\ callback' = callback /\ missed' = missed /\ acc' = acc
        /\ At({"callback", "callback_var"}) /\ NoRoom(layer)
    BY <1>9 DEF CallbackNotEnoughSpace, At, Climb
  <2>2. Seen(k)' = Seen(k)
    <3>1. CASE k = layer
      <4>1. batch = 0 /\ status # "COMPLETED"
        BY <2>1, NoRoomMeansEmpty DEF Judged
      <4>2. ~(layer + 1 <= k)
        BY <1>2, <3>1
      <4> QED  BY <1>2, <1>4, <2>1, <3>1, <4>1, <4>2 DEF Seen, Start
    <3>2. CASE k # layer
      BY <1>2, <2>1, <3>2, SeenByOthers
    <3> QED  BY <3>1, <3>2
  <2> QED  BY <1>1, <1>3, <2>1, <2>2
<1>10. CASE CallbackIntermediate
  <2>1. /\ pc = "return" /\ pc' = pc /\ layer \in Layers /\ layer' = layer + 1
        /\ UNCHANGED <<status, cursor, batch>> /\ base = "Intermediate"
        /\ callback' = callback /\ missed' = missed /\ acc' = Taken(layer)
    BY <1>10 DEF CallbackIntermediate, CanRun, At, Climb
  <2>2. CASE k = layer
    <3>1. acc[h] = Prefix(cursor - batch)
      BY <1>1, <1>2, <1>3, <2>1, <2>2 DEF Seen
    <3>2. acc'[h] = Prefix(cursor)
      BY <1>2, <2>1, <2>2, <3>1, TakenIsPrefix
    <3>3. status # "COMPLETED" /\ ~(layer + 1 <= k)
      BY <1>2, <2>1, <2>2 DEF Judged
    <3> QED  BY <2>1, <3>2, <3>3 DEF Seen, Start
  <2>3. CASE k # layer
    <3>1. layer \in Callbacks
      BY <1>10 DEF CallbackIntermediate, CanRun, At, Callbacks
    <3>2. h \notin Given(layer)
      BY <2>3, <3>1, GivenDisjoint
    <3>3. acc'[h] = acc[h]
      BY <1>2, <2>1, <3>2 DEF Taken
    <3> QED  BY <1>1, <1>2, <1>3, <2>1, <2>3, <3>3, SeenByOthers
  <2> QED  BY <2>2, <2>3
<1>11. CASE CallbackFinal \/ CallbackFails
  <2>1. /\ pc = "return" /\ layer \in Layers /\ layer \in Callbacks /\ layer \in Nat
        /\ UNCHANGED <<status, cursor, batch>>
        /\ base = "Final" \/ base = "Intermediate"
    BY <1>11 DEF CallbackFinal, CallbackFails, CanRun, At, Callbacks, Layers
  <2>2. CASE base = "Final" /\ k = layer
    <3>1. Clear(layer) /\ acc'[h] = <<>>
      BY <1>11, <2>1, <2>2, ClearTakes DEF CallbackFinal, CallbackFails, CanRun
    <3>2. status = "COMPLETED" /\ ~(layer + 1 <= k)
      BY <1>2, <2>1, <2>2 DEF Judged
    <3>3. pc' = "return" => layer' = layer + 1
      BY <1>11 DEF CallbackFinal, CallbackFails, Fail, Climb
    <3>4. Seen(k)' = 0
      BY <2>1, <3>2, <3>3 DEF Seen, Start
    <3> QED  BY <1>5, <3>1, <3>4
  <2>3. CASE base = "Final" /\ k # layer
    <3>1. Clear(layer) /\ h \notin Given(layer)
      BY <1>11, <2>1, <2>3, GivenDisjoint DEF CallbackFinal, CallbackFails, CanRun
    <3>2. acc'[h] = acc[h] /\ callback'[k] = callback[k]
      BY <1>2, <2>1, <2>3, <3>1, ClearTakes
    <3>3. ~missed[k] /\ (CallbackFails => k < layer)
      <4>1. CASE CallbackFinal
        <5>1. missed' = [missed EXCEPT ![layer] = FALSE] /\ missed \in [Layers -> BOOLEAN]
          BY <4>1 DEF CallbackFinal, TypeOK, CallbacksOK
        <5>2. missed'[k] = missed[k]
          BY <1>2, <2>3, <5>1
        <5>3. ~CallbackFails \/ pc' # "return"
          BY DEF CallbackFails, Fail
        <5>4. pc' = "return"
          BY <2>1, <4>1 DEF CallbackFinal
        <5> QED  BY <1>1, <5>2, <5>3, <5>4
      <4>2. CASE CallbackFails
        <5>1. missed' = [j \in Layers |-> (missed[j] /\ j # layer) \/ j > layer]
          BY <2>1, <2>3, <4>2 DEF CallbackFails, CanRun
        <5>2. ~((missed[k] /\ k # layer) \/ k > layer)
          BY <1>1, <1>2, <5>1
        <5> QED  BY <1>2, <2>1, <2>3, <5>2
      <4> QED  BY <1>11, <4>1, <4>2
    <3>4. acc[h] = Prefix(Seen(k))
      BY <1>1, <1>3, <2>1, <3>2, <3>3
    <3>5. CASE CallbackFinal
      BY <1>2, <2>1, <2>3, <3>2, <3>4, <3>5, SeenByOthers DEF CallbackFinal, Climb
    <3>6. CASE CallbackFails
      <4>1. pc' # "return" /\ ~(layer <= k)
        BY <1>2, <2>1, <3>3, <3>6 DEF CallbackFails, Fail
      <4> QED  BY <2>1, <3>2, <3>4, <4>1 DEF Seen, Start
    <3> QED  BY <1>11, <3>5, <3>6
  <2>4. CASE base = "Intermediate"
    <3>1. /\ CallbackFails /\ callback' = callback /\ acc' = acc /\ pc' # "return"
          /\ missed' = [j \in Layers |-> missed[j] \/ j >= layer]
      BY <1>11, <2>4 DEF CallbackFinal, CallbackFails, CanRun, Fail
    <3>2. ~missed[k] /\ ~(layer <= k)
      BY <1>1, <1>2, <2>1, <3>1
    <3> QED  BY <1>1, <1>3, <2>1, <3>1, <3>2 DEF Seen, Start
  <2> QED  BY <2>1, <2>2, <2>3, <2>4
<1>12. CASE CallbackPanics
  BY <1>1, <1>12 DEF CallbackPanics
<1>13. CASE UNCHANGED vars
  BY <1>1, <1>3, <1>13 DEF vars, control, Seen, Start
<1> QED  BY <1>6, <1>7, <1>8, <1>9, <1>10, <1>11, <1>12, <1>13 DEF Next, Running
-----------------------------------------------------------------------------
(***************************************************************************)
(* The parts hold together: in every reachable state of a stack whose      *)
(* handles read different fields and whose callbacks clear to a blank one  *)
(* or to none, the buffers, the registrations, the result on its way up    *)
(* and the callbacks agree.                                                *)
(***************************************************************************)
THEOREM InductiveInvariant ==
    ASSUME DistinctFields, NoClones
    PROVE  Spec => []Inductive
<1>1. Init => Inductive
  <2> SUFFICES ASSUME Init PROVE Inductive
    OBVIOUS
  <2>1. Attached /\ Fresh /\ Judged /\ Offered /\ PanicsOnlyUncleared
    BY DEF Init, Attached, Fresh, Judged, Offered, PanicsOnlyUncleared
  <2>2. Shaped
    <3>1. ASSUME NEW h \in Managed
          PROVE  /\ [kind |-> Allocator[h].kind, space |-> cap[h]] \in Allocators
                 /\ cap[h].offsets # NoBuffer <=> FieldOf[h] \in VarFields
      <4>1. cap[h] = Allocator[h].space /\ Allocator[h] \in Allocators
        BY HandleAssumption DEF Init, Spaces, alloc
      <4>2. Allocator[h] = [kind |-> Allocator[h].kind, space |-> Allocator[h].space]
        BY <4>1 DEF Allocators
      <4> QED  BY <4>1, <4>2, HandleAssumption
    <3>2. ASSUME NEW h \in Handles \ Managed
          PROVE  cap[h].offsets # NoBuffer <=> FieldOf[h] \in VarFields
      BY HandleAssumption DEF Init, Spaces
    <3> QED  BY <3>1, <3>2 DEF Shaped
  <2>3. Present
    BY DEF Init, Present, Callbacks
  <2>4. ExactlyOnce
    <3>1. ASSUME NEW k \in Callbacks, NEW h \in Given(k)
          PROVE  acc[h] = Prefix(Seen(k))
      <4>1. h \in Handles
        BY GivenHandles DEF Callbacks
      <4>2. Seen(k) = 0
        BY DEF Init, Seen, Start
      <4>3. acc[h] = <<>> /\ Prefix(0) = <<>>
        BY <4>1 DEF Init, Prefix
      <4> QED  BY <4>2, <4>3
    <3> QED  BY <3>1 DEF ExactlyOnce
  <2> QED  BY <2>1, <2>2, <2>3, <2>4 DEF Inductive
<1>2. TypeOK /\ Inductive /\ [Next]_vars => Inductive'
  <2> SUFFICES ASSUME TypeOK, Inductive, [Next]_vars PROVE Inductive'
    OBVIOUS
  <2>1. /\ Attached /\ Shaped /\ Fresh /\ Judged /\ Offered /\ Present
        /\ ExactlyOnce /\ PanicsOnlyUncleared
    BY DEF Inductive
  <2>2. Attached' /\ Shaped'
    BY <2>1, AttachedNext, ShapedNext
  <2>3. Fresh' /\ Judged'
    BY <2>1, FreshNext, JudgedNext
  <2>4. Offered' /\ Present'
    BY <2>1, OfferedNext, PresentNext
  <2>5. ExactlyOnce' /\ PanicsOnlyUncleared'
    BY <2>1, ExactlyOnceNext, PanicsOnlyUnclearedNext
  <2> QED  BY <2>2, <2>3, <2>4, <2>5 DEF Inductive
<1>3. Spec => []TypeOK
  BY TypeCorrect
<1> QED  BY <1>1, <1>2, <1>3, PTL DEF Spec

(***************************************************************************)
(* Nothing is lost and nothing comes twice (callback.rs step).             *)
(***************************************************************************)
THEOREM CallbacksSeeExactlyOnce ==
    ASSUME DistinctFields, NoClones
    PROVE  Spec => []ExactlyOnce
<1>1. Inductive => ExactlyOnce
  BY DEF Inductive
<1>2. Spec => []Inductive
  BY InductiveInvariant
<1> QED  BY <1>1, <1>2, PTL

(***************************************************************************)
(* Of all the ways an adapter can panic only unimplemented!() is open: no  *)
(* borrowed location is replaced, no unreachable!() is reached.            *)
(***************************************************************************)
THEOREM OnlyUnclearedPanics ==
    ASSUME DistinctFields, NoClones
    PROVE  Spec => []PanicsOnlyUncleared
<1>1. Inductive => PanicsOnlyUncleared
  BY DEF Inductive
<1>2. Spec => []Inductive
  BY InductiveInvariant
<1> QED  BY <1>1, <1>2, PTL

(***************************************************************************)
(* And with callbacks that can all be cleared, not even that one.          *)
(***************************************************************************)
THEOREM ClearableNeverPanics ==
    ASSUME DistinctFields, \A k \in Layers : ClearedBy[k] = "blank"
    PROVE  Spec => []NoPanic
<1>1. NoClones /\ \A k \in Callbacks : ClearedBy[k] # "none"
  BY DEF NoClones, Callbacks
<1>2. Inductive => NoPanic
  BY <1>1 DEF Inductive, Present, PanicsOnlyUncleared, NoPanic
<1>3. Spec => []Inductive
  BY <1>1, InductiveInvariant
<1> QED  BY <1>2, <1>3, PTL

(***************************************************************************)
(* The C query is never submitted with a pointer to a buffer that has been *)
(* reallocated or replaced, nor with a length left by the last submission  *)
(* (RawReadHandle::attach_query).                                          *)
(***************************************************************************)
THEOREM CurrentBuffersSubmitted ==
    ASSUME DistinctFields, NoClones
    PROVE  Spec => []SubmitsCurrentBuffers
<1>1. Inductive => SubmitsCurrentBuffers
  <2> SUFFICES ASSUME Attached, pc = "attach", layer = 0, NEW h \in Handles
      PROVE  /\ reg[FieldOf[h]] = [handle |-> h, space |-> cap[h]]
             /\ size[h] = cap[h]
    BY DEF Inductive, SubmitsCurrentBuffers
  <2>1. PICK k \in Layers : h \in Owned(k)
    BY StackAssumption
  <2>2. k > layer
    BY DEF Layers
  <2> QED  BY <2>1, <2>2 DEF Attached
<1>2. Spec => []Inductive
  BY InductiveInvariant
<1> QED  BY <1>1, <1>2, PTL

(***************************************************************************)
(* What an application reads after a step is what the step returned: no    *)
(* cell of an earlier submission, and none beyond those counted.           *)
(***************************************************************************)
THEOREM FreshAfterStep ==
    ASSUME DistinctFields, NoClones
    PROVE  Spec => []RawBuffersFresh
<1>1. Inductive => RawBuffersFresh
  <2> SUFFICES ASSUME Fresh, pc = "idle", ret \in {"Intermediate", "Final"},
                      NEW h \in Handles
      PROVE  Chunk(h) = [i \in 1..batch |-> cursor - batch + i]
    BY DEF Inductive, RawBuffersFresh
  <2>1. last_read_ncells(h) = batch /\ mem[h] = Batch
    BY DEF Fresh
  <2>2. \A i \in 1..batch : i \in DOMAIN Batch
    BY DEF Batch
  <2>3. Chunk(h) = [i \in 1..batch |-> Batch[i]]
    BY <2>1, <2>2 DEF Chunk
  <2> QED  BY <2>3 DEF Batch
<1>2. Spec => []Inductive
  BY InductiveInvariant
<1> QED  BY <1>1, <1>2, PTL

(***************************************************************************)
(* A NotEnoughSpace that reaches the caller has made room in every buffer  *)
(* above the innermost raw adapter (ManagedBuffer::realloc).               *)
(***************************************************************************)
THEOREM RoomIsMade ==
    ASSUME DistinctFields, NoClones
    PROVE  Spec => []NotEnoughSpaceGrows
<1>1. Inductive => NotEnoughSpaceGrows
  <2> SUFFICES ASSUME Offered, pc = "return", layer = Len(Stack) + 1,
                      base = "NotEnoughSpace", NEW h \in Reallocatable
      PROVE  Roomier(cap[h], reg[FieldOf[h]].space)
    BY DEF Inductive, NotEnoughSpaceGrows
  <2>1. PICK k \in Layers : h \in Owned(k) /\ (k > 1 \/ Stack[k].kind # "raw")
    BY DEF Reallocatable
  <2>2. k < layer /\ h \in Managed
    BY StackAssumption DEF Layers, Reallocatable
  <2> QED  BY <2>1, <2>2 DEF Offered
<1>2. Spec => []Inductive
  BY InductiveInvariant
<1> QED  BY <1>1, <1>2, PTL

(***************************************************************************)
(* A final_result is built from the whole result of the query.             *)
(***************************************************************************)
THEOREM FinalHasEverything ==
    ASSUME DistinctFields, NoClones
    PROVE  Spec => FinalIsWhole
<1> DEFINE A == \A k \in Callbacks : ~missed[k] =>
                  \A h \in Given(k) : out'[h] # out[h] => out'[h] = Prefix(NCells)
<1>1. TypeOK /\ Inductive /\ [Next]_vars => A
  <2> SUFFICES ASSUME TypeOK, Inductive, [Next]_vars,
                      NEW k \in Callbacks, ~missed[k],
                      NEW h \in Given(k), out'[h] # out[h]
      PROVE  out'[h] = Prefix(NCells)
    OBVIOUS
  <2>1. ~UNCHANGED out
    OBVIOUS
  <2>2. CallbackFinal
    BY <2>1 DEF Next, Running, vars, core, handles, callbacks, Call, IntoIter,
         ReplaceBuffers, Attach, AttachFails, SubmitComplete, SubmitIncomplete, Submit,
         SubmitFails, RawReturn, CallbackNotEnoughSpace, CallbackIntermediate,
         CallbackFails, CallbackPanics, Return
  <2>3. /\ pc = "return" /\ layer \in Callbacks /\ layer \in Layers /\ layer \in Nat
        /\ base = "Final" /\ callback[layer] /\ h \in Handles
        /\ out' = [g \in Handles |-> IF g \in Given(layer) THEN Taken(layer)[g] ELSE out[g]]
    BY <2>2, GivenHandles DEF CallbackFinal, CanRun, At, Callbacks, Layers
  <2>4. h \in Given(layer) /\ out'[h] = Taken(layer)[h]
    BY <2>3
  <2>5. k = layer
    BY <2>3, <2>4, GivenDisjoint
  <2>6. acc[h] = Prefix(Seen(k))
    BY <2>3, <2>5 DEF Inductive, ExactlyOnce
  <2>7. Seen(k) = cursor - batch
    BY <2>3, <2>5 DEF Seen
  <2>8. Taken(k)[h] = Prefix(cursor)
    BY <2>3, <2>5, <2>6, <2>7, TakenIsPrefix DEF Inductive
  <2>9. cursor = NCells
    BY <2>3 DEF Inductive, Judged
  <2> QED  BY <2>4, <2>5, <2>8, <2>9
<1>2. Spec => []Inductive
  BY InductiveInvariant
<1>3. Spec => []TypeOK
  BY TypeCorrect
<1>4. Spec => [][A]_vars
  BY <1>1, <1>2, <1>3, PTL DEF Spec
<1> QED  BY <1>4 DEF FinalIsWhole
-----------------------------------------------------------------------------
(***************************************************************************)
(* One step of the stack is one step of the contract, or none: the caller  *)
(* sees a step when a call returns, fails or when it replaces a buffer.    *)
(***************************************************************************)
LEMMA StepKeepsContract ==
    ASSUME TypeOK, Inductive, [Next]_vars
    PROVE  [Contract!Next]_Contract!vars
<1> USE DEF core, handles, callbacks
<1>l. Len(Stack) \in Nat \ {0}
  BY StackAssumption, EmptySeq
<1>1. /\ cursor \in Nat /\ batch \in Nat /\ batch <= cursor /\ cursor <= NCells /\ NCells \in Nat
      /\ Start \in Nat /\ Start <= NCells
  BY StartType, FieldAssumption DEF TypeOK, CoreOK
<1>2. ASSUME Position' = Position, ret' = ret
      PROVE  [Contract!Next]_Contract!vars
  BY <1>2 DEF Contract!vars
<1>3. CASE (\E d \in Drivers : Call(d)) \/ IntoIter \/ Attach \/ UNCHANGED vars
  <2>1. /\ UNCHANGED <<cursor, status, batch, ret>>
        /\ pc' \in {"return", "panic"} <=> pc \in {"return", "panic"}
    BY <1>3 DEF Call, IntoIter, Attach, vars, control
  <2>2. Position' = Position
    BY <2>1 DEF Position, Start
  <2> QED  BY <1>2, <2>1, <2>2
<1>4. CASE \E h \in Handles : ReplaceBuffers(h)
  <2>1. /\ UNCHANGED <<cursor, status, batch, pc>> /\ ret' = "none"
    BY <1>4 DEF ReplaceBuffers
  <2>2. Position' = Position
    BY <2>1 DEF Position, Start
  <2> QED  BY <2>1, <2>2 DEF Contract!Next, Contract!Forget
<1>5. CASE AttachFails \/ SubmitFails
  <2>1. /\ UNCHANGED <<cursor, status, batch>> /\ ret' = "Err" /\ pc = "attach" /\ pc' = "idle"
    BY <1>5 DEF AttachFails, SubmitFails, Fail
  <2>2. Position' = Start /\ Position = Start
    BY <2>1 DEF Position, Start
  <2>3. Position' \in Position..NCells
    BY <1>1, <2>2
  <2> QED  BY <2>1, <2>3 DEF Contract!Next, Contract!Error
<1>6. CASE SubmitComplete \/ SubmitIncomplete
  <2>1. pc = "attach" /\ pc' = "return" /\ ret' = ret
    BY <1>6 DEF SubmitComplete, SubmitIncomplete, Submit
  <2>2. PICK n : CoreReturns(n)
    BY <1>6 DEF SubmitComplete, SubmitIncomplete
  <2>3. cursor' - batch' = Start
    <3> DEFINE s == Start
    <3>1. s \in Nat /\ n \in Nat /\ cursor' = s + n /\ batch' = n
      BY <2>2, CoreReturnsType, StartType DEF CoreReturns
    <3> HIDE DEF s
    <3>2. cursor' - batch' = s
      BY <3>1
    <3> QED  BY <3>2 DEF s
  <2>4. Position' = Start /\ Position = Start
    BY <2>1, <2>3 DEF Position
  <2> QED  BY <1>2, <2>1, <2>4
<1>7. CASE RawReturn \/ CallbackNotEnoughSpace \/ CallbackIntermediate \/ CallbackFinal
           \/ CallbackPanics
  <2>1. /\ UNCHANGED <<cursor, batch, ret>>
        /\ pc = "return" /\ pc' \in {"return", "panic"}
    BY <1>7 DEF RawReturn, CallbackNotEnoughSpace, CallbackIntermediate, CallbackFinal,
         CanRun, CallbackPanics, At
  <2>2. Position' = Position
    BY <2>1 DEF Position
  <2> QED  BY <1>2, <2>1, <2>2
<1>8. CASE CallbackFails
  <2>1. /\ UNCHANGED <<cursor, status, batch>> /\ ret' = "Err" /\ pc = "return" /\ pc' = "idle"
    BY <1>8 DEF CallbackFails, CanRun, At, Fail
  <2>2. Position' = Start /\ Position = cursor - batch
    BY <2>1 DEF Position, Start
  <2>3. Start = 0 \/ Start \in (cursor - batch)..NCells
    BY <1>1 DEF Start
  <2>4. Position' = 0 \/ Position' \in Position..NCells
    BY <2>2, <2>3
  <2> QED  BY <2>1, <2>4 DEF Contract!Next, Contract!Error
<1>9. CASE Return
  <2>1. /\ UNCHANGED <<cursor, status, batch>> /\ ret' = base
        /\ pc = "return" /\ pc' \in {"idle", "attach"} /\ layer > 1
        /\ base \in {"NotEnoughSpace", "Intermediate", "Final"}
    BY <1>9, <1>l DEF Return, TypeOK, ControlOK
  <2>2. Position' = Start /\ Position = cursor - batch
    BY <2>1 DEF Position, Start
  <2>3. /\ base = "Final" <=> status = "COMPLETED"
        /\ base = "NotEnoughSpace" => batch = 0
        /\ base = "Intermediate" => batch > 0
    BY <2>1 DEF Inductive, Judged
  <2>4. CASE base = "NotEnoughSpace"
    <3>1. Start = cursor - batch
      BY <1>1, <2>3, <2>4 DEF Start
    <3> QED  BY <2>1, <2>2, <2>4, <3>1 DEF Contract!Next, Contract!NotEnoughSpace
  <2>5. CASE base = "Intermediate"
    <3>1. Start \in (cursor - batch + 1)..NCells
      BY <1>1, <2>3, <2>5 DEF Start
    <3>2. Position' \in (Position + 1)..NCells
      BY <2>2, <3>1
    <3> QED  BY <2>1, <2>5, <3>2 DEF Contract!Next, Contract!Intermediate
  <2>6. CASE base = "Final"
    <3>1. Start = 0
      BY <2>3, <2>6 DEF Start
    <3> QED  BY <2>1, <2>2, <2>6, <3>1 DEF Contract!Next, Contract!Final
  <2> QED  BY <2>1, <2>4, <2>5, <2>6
<1> QED  BY <1>3, <1>4, <1>5, <1>6, <1>7, <1>8, <1>9 DEF Next, Running

(***************************************************************************)
(* The stack of adapters implements what ReadStepOutput promises.          *)
(***************************************************************************)
THEOREM ImplementsContract ==
    ASSUME DistinctFields, NoClones
    PROVE  Spec => KeepsContract
<1>1. Init => Contract!Init
  BY DEF Init, Contract!Init, Position, Start
<1>2. TypeOK /\ Inductive /\ [Next]_vars => [Contract!Next]_Contract!vars
  BY StepKeepsContract
<1>3. Spec => []Inductive
  BY InductiveInvariant
<1>4. Spec => []TypeOK
  BY TypeCorrect
<1> QED  BY <1>1, <1>2, <1>3, <1>4, PTL DEF Spec, KeepsContract, Contract!Spec
=============================================================================
