----------------------- MODULE ResourceGovernor_proofs -----------------------
(***************************************************************************)
(* The two things ResourceGovernor gives out: space on the disk and leases *)
(* of a stage.  They share no state, so neither needs the other's facts.   *)
(*                                                                         *)
(* Jobs that share a disk of any size, with any margin, cap and requests:  *)
(* a byte is counted once, no two jobs are promised the same free byte,    *)
(* and no job is let on without room to grow.  Clients of a stage, of any  *)
(* number and under any limits: the count that admissions are decided by   *)
(* is exact, and a ceiling binds from the moment it is set.                *)
(***************************************************************************)
EXTENDS DiskReservation, StageLeases, FiniteSetTheorems, TLAPS

USE JobsAssumption, SizesAssumption

-----------------------------------------------------------------------------
(***************************************************************************)
(* Counting bytes                                                          *)
(***************************************************************************)

\* The bytes of one job are as many as it has.
LEMMA BytesOfOne ==
    ASSUME NEW j, NEW n \in Nat
    PROVE  IsFiniteSet({j} \X (1..n)) /\ Cardinality({j} \X (1..n)) = n
<1>1. IsFiniteSet({j}) /\ Cardinality({j}) = 1
  BY FS_Singleton
<1>2. IsFiniteSet(1..n) /\ Cardinality(1..n) = n
  BY FS_Interval
<1>3. /\ IsFiniteSet({j} \X (1..n))
      /\ Cardinality({j} \X (1..n)) = Cardinality({j}) * Cardinality(1..n)
  BY <1>1, <1>2, FS_Product
<1>4. QED
  BY <1>1, <1>2, <1>3

\* The bytes of finitely many jobs are finitely many.
LEMMA BytesAreFinite ==
    ASSUME NEW S, S \subseteq Jobs, NEW count, \A j \in S : count[j] \in Nat
    PROVE  IsFiniteSet(Bytes(count, S)) /\ Cardinality(Bytes(count, S)) \in Nat
<1> DEFINE of    == [j \in S |-> {j} \X (1..count[j])]
           parts == {{j} \X (1..count[j]) : j \in S}
<1>1. IsFiniteSet(S)
  BY FS_Subset
<1>2. of \in Surjection(S, parts)
  BY DEF Surjection
<1>3. IsFiniteSet(parts)
  BY <1>1, <1>2, FS_Surjection
<1>4. ASSUME NEW P \in parts PROVE IsFiniteSet(P)
  <2>1. PICK j \in S : P = {j} \X (1..count[j])
    OBVIOUS
  <2>2. QED
    BY <2>1, BytesOfOne
<1>5. IsFiniteSet(Bytes(count, S))
  BY <1>3, <1>4, FS_UNION DEF Bytes
<1>6. QED
  BY <1>5, FS_CardinalityType

\* The bytes of some jobs are those of one of them and those of the others.
LEMMA BytesOfOthers ==
    ASSUME NEW S, S \subseteq Jobs, NEW count, \A j \in S : count[j] \in Nat,
           NEW j \in S
    PROVE  Cardinality(Bytes(count, S)) = Cardinality(Bytes(count, S \ {j})) + count[j]
<1> DEFINE own    == {j} \X (1..count[j])
           others == Bytes(count, S \ {j})
<1>1. Bytes(count, S) = others \cup own /\ others \cap own = {}
  BY DEF Bytes
<1>2. IsFiniteSet(own) /\ Cardinality(own) = count[j]
  BY BytesOfOne
<1>3. IsFiniteSet(others) /\ Cardinality(others) \in Nat
  BY BytesAreFinite
<1> HIDE DEF own, others
<1>4. Cardinality(others \cup own) = Cardinality(others) + Cardinality(own) - 0
  BY <1>1, <1>2, <1>3, FS_Union, FS_EmptySet
<1>5. QED
  BY <1>1, <1>2, <1>3, <1>4 DEF others

\* Free space is what the disk has at most, and no job has more than is used.
LEMMA FreeSpace ==
    ASSUME TypeOK
    PROVE  /\ Free \in Int /\ Larger(0, Free) \in 0..Capacity
           /\ \A j \in Jobs : disk[j] <= Capacity - Free
<1>1. \A j \in Jobs : disk[j] \in Nat
  BY DEF TypeOK
<1>2. Cardinality(Bytes(disk, Jobs)) \in Nat
  BY <1>1, BytesAreFinite
<1>3. ASSUME NEW j \in Jobs PROVE disk[j] <= Cardinality(Bytes(disk, Jobs))
  <2>1. Cardinality(Bytes(disk, Jobs \ {j})) \in Nat
    BY <1>1, BytesAreFinite
  <2>2. QED
    BY <1>1, <2>1, BytesOfOthers
<1>4. Free \in Int /\ Larger(0, Free) \in 0..Capacity
  BY <1>2 DEF Free, Larger
<1>5. QED
  BY <1>1, <1>2, <1>3, <1>4 DEF Free

ReservedOf == [j \in Jobs |-> row[j].reserved]

\* What some jobs have reserved is a number of bytes.
LEMMA ReservedType ==
    ASSUME TypeOK
    PROVE  /\ \A j \in Jobs : row[j].reserved \in Nat
           /\ \A S \in SUBSET Jobs : Reserved(S) \in Nat
<1>1. \A j \in Jobs : row[j].reserved \in Nat
  BY DEF TypeOK, NoRow
<1>2. ASSUME NEW S \in SUBSET Jobs PROVE Reserved(S) \in Nat
  <2>1. \A j \in S : ReservedOf[j] \in Nat
    BY <1>1 DEF ReservedOf
  <2>2. QED
    BY <2>1, BytesAreFinite DEF Reserved, ReservedOf
<1>3. QED
  BY <1>1, <1>2

\* When one row changes, all reservations are the others' and the new one.
LEMMA ReservedWithOneRow ==
    ASSUME TypeOK, TypeOK', NEW j \in Jobs, \A k \in Jobs \ {j} : row'[k] = row[k]
    PROVE  Reserved(Jobs)' = Reserved(Jobs \ {j}) + row'[j].reserved
<1>1. PICK before : before = [k \in Jobs |-> row[k].reserved]
  OBVIOUS
<1>2. PICK after : after = [k \in Jobs |-> row'[k].reserved]
  OBVIOUS
<1>3. \A k \in Jobs : after[k] \in Nat
  BY <1>2 DEF TypeOK, NoRow
<1>4. Cardinality(Bytes(after, Jobs)) = Cardinality(Bytes(after, Jobs \ {j})) + after[j]
  BY <1>3, BytesOfOthers
<1>5. Bytes(after, Jobs \ {j}) = Bytes(before, Jobs \ {j})
  BY <1>1, <1>2 DEF Bytes
<1>6. Reserved(Jobs)' = Cardinality(Bytes(after, Jobs))
      /\ Reserved(Jobs \ {j}) = Cardinality(Bytes(before, Jobs \ {j}))
  BY <1>1, <1>2 DEF Reserved, Bytes
<1>7. QED
  BY <1>2, <1>4, <1>5, <1>6

-----------------------------------------------------------------------------
(***************************************************************************)
(* What the transactions compute                                           *)
(***************************************************************************)

\* A transaction reserves at most what the others and the margin leave free.
LEMMA AvailableValue ==
    ASSUME TypeOK, NEW j \in Jobs
    PROVE  /\ Available(j) \in Nat
           /\ Available(j) > 0 =>
                 Available(j) = seen[j].free - Reserved(Jobs \ {j}) - Safety
<1>1. seen[j].free \in Nat
  BY DEF TypeOK
<1>2. Reserved(Jobs \ {j}) \in Nat
  BY ReservedType
<1>3. QED
  BY <1>1, <1>2 DEF Available, Larger

\* An extension asks for something.
LEMMA ExtensionValue ==
    ASSUME TypeOK, NEW j \in Jobs
    PROVE  Extension(j) \in Nat
<1> DEFINE usable == Larger(0, seen[j].free - Safety)
<1>1. seen[j].free \in Nat
  BY DEF TypeOK
<1>2. usable \in Nat
  BY <1>1 DEF Larger
<1>3. usable \div 4 \in Nat
  BY <1>2
<1> HIDE DEF usable
<1>4. Larger(1, usable \div 4) \in Nat
  BY <1>3 DEF Larger
<1>5. Smaller(MaxExtension, Larger(1, usable \div 4)) \in Nat
  BY <1>4 DEF Smaller
<1>6. Larger(MinExtension, Smaller(MaxExtension, Larger(1, usable \div 4))) \in Nat
  BY <1>5 DEF Larger
<1>7. QED
  BY <1>6 DEF Extension, usable

\* Capped bytes are no more than asked, nor than the cap leaves.
LEMMA CappedValue ==
    ASSUME NEW actual \in Nat, NEW bytes \in Nat
    PROVE  /\ Capped(actual, bytes) \in 0..bytes
           /\ MaxJobSize > 0 /\ actual <= MaxJobSize
                => actual + Capped(actual, bytes) <= MaxJobSize
BY DEF Capped, Smaller, Larger

\* What a growth check records: bytes that are available and under the cap,
\* and some of them if it lets the job go on.
LEMMA GrowRecords ==
    ASSUME TypeOK, NEW j \in Jobs, Grow(j), row' # row \/ pc'[j] = "writing",
           MaxJobSize > 0 => seen[j].actual <= MaxJobSize
    PROVE  \E n \in Nat :
              /\ row' = [row EXCEPT ![j] = Recorded(j, n)]
              /\ n > 0 => n <= Available(j)
              /\ MaxJobSize > 0 => seen[j].actual + n <= MaxJobSize
              /\ pc'[j] = "writing" => n > 0
<1> DEFINE wanted == Outstanding(Larger(seen[j].actual, row[j].projected), seen[j].actual)
           more   == Capped(seen[j].actual, Extension(j))
<1>1. /\ seen[j].actual \in Nat /\ row[j].projected \in Int /\ pc[j] = "checking"
      /\ pc \in [Jobs -> {"idle", "reserving", "writing", "checking", "failed", "clean"}]
  BY DEF TypeOK, NoRow, Grow
<1>2. PICK actual \in Nat : actual = seen[j].actual
  BY <1>1
<1>3. wanted \in Nat /\ (MaxJobSize > 0 => actual + wanted <= MaxJobSize)
  <2>1. PICK left \in Nat : left = ToBeWritten(Larger(actual, row[j].projected), actual)
    BY <1>1, <1>2 DEF ToBeWritten, Larger
  <2>2. wanted = Capped(actual, left)
    BY <1>2, <2>1 DEF Outstanding
  <2>3. wanted \in 0..left
    BY <2>2, CappedValue
  <2>4. MaxJobSize > 0 => actual + wanted <= MaxJobSize
    BY <1>2, <2>2, CappedValue
  <2>5. QED
    BY <2>3, <2>4
<1>4. more \in Nat /\ (MaxJobSize > 0 => actual + more <= MaxJobSize)
  <2>1. PICK extension \in Nat : extension = Extension(j)
    BY ExtensionValue
  <2>2. more = Capped(actual, extension)
    BY <1>2, <2>1
  <2>3. more \in 0..extension
    BY <2>2, CappedValue
  <2>4. MaxJobSize > 0 => actual + more <= MaxJobSize
    BY <1>2, <2>2, CappedValue
  <2>5. QED
    BY <2>3, <2>4
<1>5. PICK outstanding \in Nat : outstanding = wanted
  BY <1>3
<1>6. PICK extended \in Nat : extended = Smaller(more, Available(j))
  BY <1>4, AvailableValue DEF Smaller
<1> HIDE DEF wanted, more
<1>7. /\ extended <= Available(j) /\ extended <= more
      /\ MaxJobSize > 0 => actual + extended <= MaxJobSize
      /\ MaxJobSize > 0 => actual + outstanding <= MaxJobSize
  <2>1. Available(j) \in Nat
    BY AvailableValue
  <2>2. extended <= Available(j) /\ extended <= more
    BY <1>4, <1>6, <2>1 DEF Smaller
  <2>3. MaxJobSize > 0 => actual + extended <= MaxJobSize
    BY <1>4, <2>2
  <2>4. QED
    BY <1>3, <1>5, <2>2, <2>3
<1> DEFINE low == outstanding <= Larger(1, Extension(j) \div 2)
<1>9. ~low => outstanding > 0
  <2>1. PICK half \in Int : half = Extension(j) \div 2
    BY ExtensionValue
  <2>2. low <=> outstanding <= Larger(1, half)
    BY <2>1
  <2> HIDE DEF low
  <2>3. QED
    BY <2>2 DEF Larger
<1>10. IF MaxJobSize > 0 /\ actual >= MaxJobSize
       THEN row' = [row EXCEPT ![j] = Recorded(j, 0)] /\ Goto(j, "failed")
       ELSE IF outstanding > Available(j) \/ (low /\ ~HasRoom(outstanding, extended))
       THEN Goto(j, "failed") /\ UNCHANGED row
       ELSE /\ row' = [row EXCEPT ![j] =
                  Recorded(j, IF low THEN Larger(outstanding, extended) ELSE outstanding)]
            /\ Goto(j, "writing")
  BY <1>2, <1>5, <1>6 DEF Grow, wanted, more
<1> HIDE DEF low
<1>11. CASE MaxJobSize > 0 /\ actual >= MaxJobSize
  <2>1. row' = [row EXCEPT ![j] = Recorded(j, 0)] /\ pc'[j] = "failed"
    BY <1>1, <1>10, <1>11 DEF Goto
  <2>2. MaxJobSize > 0 => seen[j].actual + 0 <= MaxJobSize
    BY <1>1
  <2>3. WITNESS 0 \in Nat
  <2>4. QED
    BY <2>1, <2>2
<1>12. CASE /\ ~(MaxJobSize > 0 /\ actual >= MaxJobSize)
            /\ ~(outstanding > Available(j) \/ (low /\ ~HasRoom(outstanding, extended)))
  <2>1. PICK n : n = IF low THEN Larger(outstanding, extended) ELSE outstanding
    OBVIOUS
  <2>2. row' = [row EXCEPT ![j] = Recorded(j, n)]
    BY <1>10, <1>12, <2>1
  <2>3. n \in {outstanding, extended}
    BY <2>1 DEF Larger
  <2>4. n <= Available(j)
    <3>1. PICK room \in Nat : room = Available(j)
      BY AvailableValue
    <3>2. outstanding <= room
      BY <1>12, <3>1
    <3>3. QED
      BY <1>7, <2>3, <3>1, <3>2
  <2>5. n > 0
    BY <1>9, <1>12, <2>1 DEF Larger, HasRoom
  <2>6. MaxJobSize > 0 => actual + n <= MaxJobSize
    BY <1>7, <2>3
  <2>7. QED
    BY <1>2, <2>2, <2>3, <2>4, <2>5, <2>6
<1>13. CASE /\ ~(MaxJobSize > 0 /\ actual >= MaxJobSize)
            /\ outstanding > Available(j) \/ (low /\ ~HasRoom(outstanding, extended))
  <2>1. row' = row /\ pc'[j] = "failed"
    BY <1>1, <1>10, <1>13 DEF Goto
  <2>2. QED
    BY <2>1
<1>14. QED
  BY <1>11, <1>12, <1>13

-----------------------------------------------------------------------------
(***************************************************************************)
(* The invariant.  Between a sample and its transaction the request is     *)
(* within the cap, and so is what the job had on the disk.                 *)
(***************************************************************************)
AskedInv ==
    MaxJobSize > 0 =>
        \A j \in Jobs :
            /\ pc[j] = "reserving" => seen[j].want <= MaxJobSize
            /\ pc[j] = "checking" => seen[j].actual <= MaxJobSize

IInv == Accounted /\ AskedInv

\* A row that counts the bytes to be written, within the cap.
Sound(r) ==
    /\ r \in [projected : Nat, actual : Nat, reserved : Nat]
    /\ r.reserved = Larger(0, r.projected - r.actual)
    /\ MaxJobSize > 0 => r.projected <= MaxJobSize

\* One row is written, and it is sound.
LEMMA SoundRow ==
    ASSUME Accounted, NEW j \in Jobs, NEW r, Sound(r), row' = [row EXCEPT ![j] = r],
           disk' = disk, seen' = seen, NEW p \in {"writing", "failed"}, Goto(j, p)
    PROVE  Accounted'
<1>1. /\ row \in [Jobs -> {NoRow} \cup [projected : Nat, actual : Nat, reserved : Nat]]
      /\ row'[j] = r /\ \A k \in Jobs \ {j} : row'[k] = row[k]
  BY DEF Accounted, TypeOK
<1>2. row' \in [Jobs -> {NoRow} \cup [projected : Nat, actual : Nat, reserved : Nat]]
  BY <1>1 DEF Sound
<1>3. TypeOK'
  BY <1>2 DEF Accounted, TypeOK, Goto
<1>4. CountedOnce'
  BY <1>1 DEF Accounted, CountedOnce, HasRow, Sound
<1>5. CapRespected'
  BY <1>1 DEF Accounted, CapRespected, Sound
<1>6. QED
  BY <1>3, <1>4, <1>5 DEF Accounted

\* Types, counts and the cap at first.
LEMMA AtFirst == Init => IInv
<1>1. SUFFICES ASSUME Init PROVE IInv
  OBVIOUS
<1>2. Nothing \in [free : 0..Capacity, actual : 0..Capacity, want : Nat]
  BY DEF Nothing
<1>3. TypeOK
  BY <1>1, <1>2 DEF Init, TypeOK
<1>4. CountedOnce
  BY <1>1 DEF Init, CountedOnce, HasRow
<1>5. CapRespected
  BY <1>1 DEF Init, CapRespected, NoRow
<1>6. QED
  BY <1>1, <1>3, <1>4, <1>5 DEF Init, IInv, Accounted, AskedInv

\* A step that leaves the rows alone.
LEMMA RowsAlone ==
    ASSUME IInv, TypeOK', row' = row, AskedInv'
    PROVE  IInv'
BY DEF IInv, Accounted, CountedOnce, CapRespected, HasRow

\* Sampling, writing and the ends.
LEMMA SamplesKeepInvariant ==
    ASSUME IInv, NEW j \in Jobs,
           AskToReserve(j) \/ AskToGrow(j) \/ Write(j) \/ Finish(j) \/ CleanUp(j)
    PROVE  IInv'
<1>1. TypeOK /\ AskedInv
  BY DEF IInv, Accounted
<1>2. Larger(0, Free) \in 0..Capacity /\ Free \in Int
      /\ \A k \in Jobs : disk[k] <= Capacity - Free
  BY <1>1, FreeSpace
<1>3. PICK free \in 0..Capacity : free = Larger(0, Free)
  BY <1>2
<1>4. CASE AskToReserve(j)
  <2>1. PICK want \in Requests :
           /\ MaxJobSize = 0 \/ want <= MaxJobSize
           /\ seen' = [seen EXCEPT ![j] =
                          [free |-> free, actual |-> disk[j], want |-> want]]
    BY <1>3, <1>4 DEF AskToReserve
  <2>2. TypeOK'
    BY <1>1, <1>4, <2>1 DEF AskToReserve, TypeOK, Goto
  <2>3. AskedInv'
    BY <1>1, <1>4, <2>1 DEF AskToReserve, TypeOK, Goto, AskedInv
  <2>4. QED
    BY <1>4, <2>2, <2>3, RowsAlone DEF AskToReserve
<1>5. CASE AskToGrow(j)
  <2>1. seen' = [seen EXCEPT ![j] = [free |-> free, actual |-> disk[j], want |-> 0]]
    BY <1>3, <1>5 DEF AskToGrow
  <2>2. TypeOK'
    BY <1>1, <1>5, <2>1 DEF AskToGrow, TypeOK, Goto
  <2>3. AskedInv'
    BY <1>1, <1>5, <2>1 DEF AskToGrow, TypeOK, Goto, AskedInv
  <2>4. QED
    BY <1>5, <2>2, <2>3, RowsAlone DEF AskToGrow
<1>6. CASE Write(j)
  <2>1. disk[j] + 1 \in 0..Capacity
    BY <1>1, <1>2, <1>6 DEF Write, TypeOK
  <2>2. TypeOK'
    BY <1>1, <1>6, <2>1 DEF Write, TypeOK
  <2>3. QED
    BY <1>1, <1>6, <2>2, RowsAlone DEF Write, AskedInv
<1>7. CASE Finish(j)
  <2>1. TypeOK' /\ AskedInv'
    BY <1>1, <1>7 DEF Finish, TypeOK, Goto, AskedInv
  <2>2. QED
    BY <1>7, <2>1, RowsAlone DEF Finish
<1>8. CASE CleanUp(j)
  <2>1. TypeOK' /\ AskedInv'
    BY <1>1, <1>8 DEF CleanUp, TypeOK, Goto, AskedInv
  <2>2. QED
    BY <1>8, <2>1, RowsAlone DEF CleanUp
<1>9. QED
  BY <1>4, <1>5, <1>6, <1>7, <1>8

\* What a first reservation records is sound.
LEMMA ReserveKeepsInvariant ==
    ASSUME IInv, NEW j \in Jobs, Reserve(j)
    PROVE  IInv'
<1> DEFINE remaining == ToBeWritten(seen[j].want, seen[j].actual)
           r == [projected |-> seen[j].want, actual |-> seen[j].actual, reserved |-> remaining]
<1>1. /\ TypeOK /\ AskedInv /\ seen[j].want \in Nat /\ seen[j].actual \in Nat
      /\ pc[j] = "reserving"
  BY DEF IInv, Accounted, TypeOK, Reserve
<1>2. AskedInv'
  BY <1>1 DEF Reserve, Goto, AskedInv, TypeOK
<1>3. CASE Goto(j, "idle") /\ row' = row
  <2>1. TypeOK'
    BY <1>1, <1>3 DEF Reserve, Goto, TypeOK
  <2>2. QED
    BY <1>2, <1>3, <2>1, RowsAlone
<1>4. CASE row' = [row EXCEPT ![j] = r] /\ Goto(j, "writing")
  <2>1. Sound(r)
    BY <1>1 DEF Sound, ToBeWritten, Larger, AskedInv
  <2>2. Accounted'
    BY <1>4, <2>1, SoundRow DEF Reserve, IInv
  <2>3. QED
    BY <1>2, <2>2 DEF IInv
<1>5. QED
  BY <1>3, <1>4 DEF Reserve

\* What a growth check records is sound.
LEMMA GrowKeepsInvariant ==
    ASSUME IInv, NEW j \in Jobs, Grow(j)
    PROVE  IInv'
<1>1. /\ TypeOK /\ AskedInv /\ seen[j].actual \in Nat /\ pc[j] = "checking"
      /\ MaxJobSize > 0 => seen[j].actual <= MaxJobSize
  BY DEF IInv, Accounted, TypeOK, Grow, AskedInv
<1>2. PICK p \in {"writing", "failed"} : Goto(j, p)
  BY DEF Grow
<1>3. AskedInv'
  BY <1>1, <1>2 DEF Grow, Goto, AskedInv, TypeOK
<1>4. CASE row' = row
  <2>1. TypeOK'
    BY <1>1, <1>2, <1>4 DEF Grow, Goto, TypeOK
  <2>2. QED
    BY <1>3, <1>4, <2>1, RowsAlone
<1>5. CASE row' # row
  <2>1. PICK n \in Nat : /\ row' = [row EXCEPT ![j] = Recorded(j, n)]
                         /\ MaxJobSize > 0 => seen[j].actual + n <= MaxJobSize
    BY <1>1, <1>5, GrowRecords
  <2>2. Sound(Recorded(j, n))
    BY <1>1, <2>1 DEF Sound, Recorded, Larger
  <2>3. Accounted'
    BY <1>2, <2>1, <2>2, SoundRow DEF Grow, IInv
  <2>4. QED
    BY <1>3, <2>3 DEF IInv
<1>6. QED
  BY <1>4, <1>5

\* A job that is over has no row.
LEMMA ReleaseKeepsInvariant ==
    ASSUME IInv, NEW j \in Jobs, Release(j)
    PROVE  IInv'
<1>1. TypeOK /\ AskedInv /\ CountedOnce /\ CapRespected
  BY DEF IInv, Accounted
<1>2. row'[j] = NoRow /\ \A k \in Jobs \ {j} : row'[k] = row[k]
  BY <1>1 DEF Release, TypeOK
<1>3. TypeOK' /\ AskedInv'
  BY <1>1 DEF Release, TypeOK, Goto, AskedInv
<1>4. CountedOnce'
  BY <1>1, <1>2 DEF CountedOnce, HasRow
<1>5. CapRespected'
  BY <1>1, <1>2 DEF CapRespected, NoRow
<1>6. QED
  BY <1>3, <1>4, <1>5 DEF IInv, Accounted

\* Every step keeps the invariant.
LEMMA InvariantIsKept == IInv /\ [Next]_vars => IInv'
<1>1. SUFFICES ASSUME IInv, [Next]_vars PROVE IInv'
  OBVIOUS
<1>2. CASE UNCHANGED vars
  BY <1>1, <1>2 DEF vars, IInv, Accounted, TypeOK, CountedOnce, CapRespected,
                    HasRow, AskedInv
<1>3. CASE Next
  <2>1. PICK j \in Jobs :
           \/ AskToReserve(j) \/ Reserve(j) \/ Write(j) \/ AskToGrow(j) \/ Grow(j)
           \/ Finish(j) \/ Release(j) \/ CleanUp(j)
    BY <1>3 DEF Next
  <2>2. QED
    BY <1>1, <2>1, SamplesKeepInvariant, ReserveKeepsInvariant, GrowKeepsInvariant,
       ReleaseKeepsInvariant
<1>4. QED
  BY <1>1, <1>2, <1>3

-----------------------------------------------------------------------------
(***************************************************************************)
(* The theorems                                                            *)
(***************************************************************************)

\* The invariant of the reservations, over all their steps.
THEOREM InvariantHolds == Spec => []IInv
BY AtFirst, InvariantIsKept, PTL DEF Spec

\* A byte is counted on the disk or in a reservation, never in both, and no
\* job is promised more than its cap.
THEOREM ReservationsAreAccounted == Spec => []Accounted
<1>1. IInv => Accounted
  BY DEF IInv
<1>2. QED
  BY <1>1, InvariantHolds, PTL

\* What is available fits, beside the others' rows, into the sampled space.
LEMMA GrantFits ==
    ASSUME TypeOK, TypeOK', NEW j \in Jobs, NEW n \in Nat, n > 0, n <= Available(j),
           \A k \in Jobs \ {j} : row'[k] = row[k], row'[j].reserved = n
    PROVE  Reserved(Jobs)' <= seen[j].free - Safety
<1>1. Reserved(Jobs)' = Reserved(Jobs \ {j}) + n
  BY ReservedWithOneRow
<1>2. Available(j) = seen[j].free - Reserved(Jobs \ {j}) - Safety
  BY AvailableValue
<1>3. seen[j].free \in Nat /\ Reserved(Jobs \ {j}) \in Nat
  BY ReservedType DEF TypeOK
<1>4. QED
  BY <1>1, <1>2, <1>3

\* Whatever a transaction grants, all reservations together fit into the free
\* space that was sampled for it, with the margin left over.
THEOREM GrantsFitTheSample == Spec => NoDoubleBooking
<1>1. ASSUME IInv, IInv', Next, NEW j \in Jobs, row'[j] # row[j], row'[j].reserved > 0
      PROVE  Reserved(Jobs)' <= seen[j].free - Safety
  <2>1. TypeOK /\ TypeOK' /\ AskedInv /\ NoRow.reserved = 0
    BY <1>1 DEF IInv, Accounted, NoRow
  <2>2. PICK k \in Jobs :
           \/ AskToReserve(k) \/ Reserve(k) \/ Write(k) \/ AskToGrow(k) \/ Grow(k)
           \/ Finish(k) \/ Release(k) \/ CleanUp(k)
    BY <1>1 DEF Next
  <2>3. Reserve(k) \/ Grow(k) \/ Release(k)
    BY <1>1, <2>2 DEF AskToReserve, Write, AskToGrow, Finish, CleanUp
  <2>4. CASE Release(k)
    BY <1>1, <2>1, <2>4 DEF Release, TypeOK
  <2>5. CASE Reserve(k)
    <3>1. /\ ToBeWritten(seen[k].want, seen[k].actual) <= Available(k)
          /\ row' = [row EXCEPT ![k] =
                        [projected |-> seen[k].want, actual |-> seen[k].actual,
                         reserved |-> ToBeWritten(seen[k].want, seen[k].actual)]]
      <4>1. ToBeWritten(seen[k].want, seen[k].actual) \in Nat
        BY <2>1 DEF TypeOK, ToBeWritten, Larger
      <4>2. Available(k) \in Nat
        BY <2>1, AvailableValue
      <4>3. row' # row
        BY <1>1
      <4>4. ~(ToBeWritten(seen[k].want, seen[k].actual) > Available(k))
        BY <2>5, <4>3 DEF Reserve
      <4>5. QED
        BY <2>5, <4>1, <4>2, <4>4 DEF Reserve
    <3>2. k = j /\ row'[j].reserved = ToBeWritten(seen[k].want, seen[k].actual)
          /\ \A i \in Jobs \ {j} : row'[i] = row[i]
      BY <1>1, <2>1, <3>1 DEF TypeOK
    <3>3. row'[j].reserved \in Nat
      BY <2>1, ReservedType, <3>2 DEF TypeOK, ToBeWritten, Larger
    <3>4. QED
      BY <1>1, <2>1, <3>1, <3>2, <3>3, GrantFits
  <2>6. CASE Grow(k)
    <3>1. row' # row /\ (MaxJobSize > 0 => seen[k].actual <= MaxJobSize)
      BY <1>1, <2>1, <2>6 DEF Grow, AskedInv
    <3>2. PICK n \in Nat : /\ row' = [row EXCEPT ![k] = Recorded(k, n)]
                           /\ n > 0 => n <= Available(k)
      BY <2>1, <2>6, <3>1, GrowRecords
    <3>3. k = j /\ row'[j].reserved = n /\ \A i \in Jobs \ {j} : row'[i] = row[i]
      BY <1>1, <2>1, <3>2 DEF TypeOK, Recorded
    <3>4. QED
      BY <1>1, <2>1, <3>2, <3>3, GrantFits
  <2>7. QED
    BY <2>3, <2>4, <2>5, <2>6
<1>2. IInv /\ IInv' /\ [Next]_vars
        => [\A j \in Jobs : row'[j] # row[j] /\ row'[j].reserved > 0
              => Reserved(Jobs)' <= seen[j].free - Safety]_vars
  BY <1>1
<1>3. QED
  BY <1>2, InvariantHolds, PTL DEF Spec, NoDoubleBooking

\* A growth check lets a job on only with bytes reserved for it that fit into
\* the space it sampled beside all other reservations and the margin, and
\* under the cap beside what the job had written.
THEOREM NobodyGrowsWithoutRoom == Spec => GrowthHasRoom
<1> DEFINE Room(j) == /\ row'[j].reserved > 0
                      /\ Reserved(Jobs)' <= seen[j].free - Safety
                      /\ MaxJobSize > 0 => seen[j].actual + row'[j].reserved <= MaxJobSize
<1>1. ASSUME IInv, IInv', Next, NEW j \in Jobs, pc[j] = "checking", pc'[j] = "writing"
      PROVE  Room(j)
  <2>1. TypeOK /\ TypeOK' /\ AskedInv
    BY <1>1 DEF IInv, Accounted
  <2>2. Grow(j)
    BY <1>1, <2>1 DEF Next, AskToReserve, Reserve, Write, AskToGrow, Grow, Finish,
                      Release, CleanUp, Goto, TypeOK
  <2>3. PICK n \in Nat : /\ row' = [row EXCEPT ![j] = Recorded(j, n)]
                         /\ n > 0 /\ n <= Available(j)
                         /\ MaxJobSize > 0 => seen[j].actual + n <= MaxJobSize
    BY <1>1, <2>1, <2>2, GrowRecords DEF AskedInv
  <2>4. row'[j].reserved = n /\ \A k \in Jobs \ {j} : row'[k] = row[k]
    BY <2>1, <2>3 DEF TypeOK, Recorded
  <2>5. Reserved(Jobs)' <= seen[j].free - Safety
    BY <2>1, <2>3, <2>4, GrantFits
  <2>6. QED
    BY <2>3, <2>4, <2>5
<1> HIDE DEF Room
<1>2. IInv /\ IInv' /\ [Next]_vars
        => [\A j \in Jobs : pc[j] = "checking" /\ pc'[j] = "writing" => Room(j)]_vars
  BY <1>1
<1>3. QED
  BY <1>2, InvariantHolds, PTL DEF Spec, GrowthHasRoom, Room

-----------------------------------------------------------------------------
(***************************************************************************)
(* The leases of a stage                                                   *)
(***************************************************************************)
USE ClientsAssumption, MaxRawAssumption

LEMMA HoldersAreFinite == Holders \subseteq Clients /\ IsFiniteSet(Holders)
    BY FS_Subset DEF Holders

\* The limits stay between one and the bound.
LEMMA LimitsHold ==
    ASSUME LeaseTypeOK, NEW raw \in Limits
    PROVE  /\ Stabilised(raw) \in Limits
           /\ Effective(Stabilised(raw)) \in Limits
           /\ Effective(Stabilised(raw)) <= Stabilised(raw)
           /\ ceiling # 0 => Effective(Stabilised(raw)) <= ceiling
    <1>1. Stabilised(raw) \in Limits
        BY DEF LeaseTypeOK, Limits, Unset, Stabilised, Towards
    <1>2. ceiling \in 0..MaxRaw
        BY DEF LeaseTypeOK
    <1> QED BY <1>1, <1>2 DEF Effective, Limits

LEMMA InitHolds == LeaseInit => LeaseTypeOK /\ ActiveIsExact
    <1> SUFFICES ASSUME LeaseInit PROVE LeaseTypeOK /\ ActiveIsExact
        OBVIOUS
    <1>1. LeaseTypeOK
        BY DEF LeaseInit, LeaseTypeOK, Pcs
    <1>2. Holders = {}
        BY DEF LeaseInit, Holders
    <1> QED BY <1>1, <1>2, FS_EmptySet DEF LeaseInit, ActiveIsExact

LEMMA StepKeepsTypes == LeaseTypeOK /\ [LeaseNext]_leaseVars => LeaseTypeOK'
    <1> SUFFICES ASSUME LeaseTypeOK, [LeaseNext]_leaseVars PROVE LeaseTypeOK'
        OBVIOUS
    <1> USE DEF LeaseTypeOK, MoveTo, Pcs
    <1>1. ASSUME NEW c \in Clients,
                 Ask(c) \/ DiskIsLow(c) \/ Publish(c) \/ PublishFails(c) \/ Leave(c)
          PROVE  LeaseTypeOK'
        BY <1>1 DEF Ask, DiskIsLow, Publish, PublishFails, Leave
    <1>2. ASSUME NEW c \in Clients, EndStage(c) PROVE LeaseTypeOK'
        BY <1>2 DEF EndStage, Released
    <1>3. ASSUME NEW c \in Clients, NEW raw \in Limits, NEW ok \in BOOLEAN, Decide(c, raw, ok)
          PROVE  LeaseTypeOK'
        <2>1. /\ stable' \in Limits /\ cooled' \in BOOLEAN
              /\ Effective(Stabilised(raw)) \in Limits
            BY <1>3, LimitsHold DEF Decide, Adapts
        <2>2. active' \in 0..MaxRaw
            BY <1>3, <2>1 DEF Decide, HasSlot, Limits
        <2>3. at' \in [Clients -> Pcs] /\ UNCHANGED <<ceiling, leaked>>
            BY <1>3 DEF Decide
        <2> QED BY <2>1, <2>2, <2>3
    <1>4. ASSUME NEW raw \in Limits, Sample(raw) PROVE LeaseTypeOK'
        BY <1>4, LimitsHold DEF Sample, Adapts
    <1>5. ASSUME NEW n \in 0..MaxRaw, SetCeiling(n) PROVE LeaseTypeOK'
        BY <1>5 DEF SetCeiling
    <1>6. CASE Cool
        BY <1>6 DEF Cool
    <1>7. CASE UNCHANGED leaseVars
        BY <1>7 DEF leaseVars
    <1> QED
        BY <1>1, <1>2, <1>3, <1>4, <1>5, <1>6, <1>7 DEF LeaseNext

\* Every action moves the count by as much as the leases that are out.
LEMMA StepKeepsTheCount == LeaseTypeOK /\ ActiveIsExact /\ [LeaseNext]_leaseVars => ActiveIsExact'
    <1> SUFFICES ASSUME LeaseTypeOK, ActiveIsExact, [LeaseNext]_leaseVars PROVE ActiveIsExact'
        OBVIOUS
    <1>a. IsFiniteSet(Holders) /\ Cardinality(Holders) \in Nat
        BY HoldersAreFinite, FS_CardinalityType
    <1>1. ASSUME NEW c \in Clients, Ask(c) \/ DiskIsLow(c) \/ Publish(c) \/ Leave(c)
          PROVE  ActiveIsExact'
        <2>1. Holders' = Holders
            BY <1>1 DEF Ask, DiskIsLow, Publish, Leave, MoveTo, Holders, LeaseTypeOK
        <2> QED BY <1>1, <2>1 DEF Ask, DiskIsLow, Publish, Leave, ActiveIsExact
    <1>2. ASSUME NEW c \in Clients, PublishFails(c) PROVE ActiveIsExact'
        <2>1. c \in Holders /\ Holders' = Holders \ {c}
            BY <1>2 DEF PublishFails, MoveTo, Holders, LeaseTypeOK
        <2>2. Cardinality(Holders') = Cardinality(Holders) - 1
            BY <1>a, <2>1, FS_RemoveElement
        <2> QED BY <1>2, <1>a, <2>2 DEF PublishFails, ActiveIsExact, LeaseTypeOK
    <1>3. ASSUME NEW c \in Clients, EndStage(c) PROVE ActiveIsExact'
        <2>1. c \in Holders /\ Holders' = Holders \ {c}
            BY <1>3 DEF EndStage, MoveTo, Holders, LeaseTypeOK
        <2>2. Cardinality(Holders') = Cardinality(Holders) - 1 /\ Cardinality(Holders') \in Nat
            <3>1. Cardinality(Holders') = Cardinality(Holders) - 1
                BY <1>a, <2>1, FS_RemoveElement
            <3>2. IsFiniteSet(Holders')
                BY <1>a, <2>1, FS_RemoveElement
            <3> QED BY <3>1, <3>2, FS_CardinalityType
        <2>3. active > 0
            BY <1>a, <2>2 DEF ActiveIsExact, LeaseTypeOK
        <2> QED BY <1>3, <1>a, <2>2, <2>3 DEF EndStage, Released, ActiveIsExact, LeaseTypeOK
    <1>4. ASSUME NEW c \in Clients, NEW raw \in Limits, NEW ok \in BOOLEAN, Decide(c, raw, ok)
          PROVE  ActiveIsExact'
        <2>1. CASE ok /\ HasSlot(Effective(Stabilised(raw)))
            <3>1. c \notin Holders /\ Holders' = Holders \cup {c}
                BY <1>4, <2>1 DEF Decide, MoveTo, Holders, LeaseTypeOK
            <3>2. Cardinality(Holders') = Cardinality(Holders) + 1
                BY <1>a, <3>1, FS_AddElement
            <3> QED BY <1>4, <1>a, <2>1, <3>2 DEF Decide, ActiveIsExact, LeaseTypeOK
        <2>2. CASE ~(ok /\ HasSlot(Effective(Stabilised(raw))))
            <3>1. Holders' = Holders
                BY <1>4, <2>2 DEF Decide, MoveTo, Holders, LeaseTypeOK
            <3> QED BY <1>4, <2>2, <3>1 DEF Decide, ActiveIsExact
        <2> QED BY <2>1, <2>2
    <1>5. ASSUME NEW raw \in Limits, Sample(raw) PROVE ActiveIsExact'
        BY <1>5 DEF Sample, ActiveIsExact, Holders
    <1>6. ASSUME NEW n \in 0..MaxRaw, SetCeiling(n) PROVE ActiveIsExact'
        BY <1>6 DEF SetCeiling, ActiveIsExact, Holders
    <1>7. CASE Cool
        BY <1>7 DEF Cool, ActiveIsExact, Holders
    <1>8. CASE UNCHANGED leaseVars
        BY <1>8 DEF leaseVars, ActiveIsExact, Holders
    <1> QED
        BY <1>1, <1>2, <1>3, <1>4, <1>5, <1>6, <1>7, <1>8 DEF LeaseNext

\* Only a decision counts up, and it looks at the ceiling of the moment.
LEMMA StepRespectsTheCeiling ==
    ASSUME LeaseTypeOK, [LeaseNext]_leaseVars, active' > active
    PROVE  ceiling = 0 \/ active' <= ceiling
    <1>1. ASSUME NEW c \in Clients,
                 Ask(c) \/ DiskIsLow(c) \/ Publish(c) \/ PublishFails(c) \/ Leave(c)
          PROVE  FALSE
        BY <1>1 DEF Ask, DiskIsLow, Publish, PublishFails, Leave, LeaseTypeOK
    <1>2. ASSUME NEW c \in Clients, EndStage(c) PROVE FALSE
        BY <1>2 DEF EndStage, Released, LeaseTypeOK
    <1>3. ASSUME NEW c \in Clients, NEW raw \in Limits, NEW ok \in BOOLEAN, Decide(c, raw, ok)
          PROVE  ceiling = 0 \/ active' <= ceiling
        <2>1. active' = active + 1 /\ active < Effective(Stabilised(raw))
            BY <1>3 DEF Decide, HasSlot, LeaseTypeOK
        <2>2. Effective(Stabilised(raw)) \in Limits
              /\ (ceiling # 0 => Effective(Stabilised(raw)) <= ceiling)
            BY LimitsHold
        <2> QED BY <2>1, <2>2 DEF LeaseTypeOK, Limits
    <1>4. ASSUME NEW raw \in Limits, Sample(raw) PROVE FALSE
        BY <1>4 DEF Sample, LeaseTypeOK
    <1>5. ASSUME NEW n \in 0..MaxRaw, SetCeiling(n) PROVE FALSE
        BY <1>5 DEF SetCeiling, LeaseTypeOK
    <1>6. CASE Cool
        BY <1>6 DEF Cool, LeaseTypeOK
    <1>7. CASE UNCHANGED leaseVars
        BY <1>7 DEF leaseVars, LeaseTypeOK
    <1> QED
        BY <1>1, <1>2, <1>3, <1>4, <1>5, <1>6, <1>7 DEF LeaseNext

\* Every variable keeps its type; the limits never fall to zero.
THEOREM TypeCorrect == LeaseSpec => []LeaseTypeOK
    BY InitHolds, StepKeepsTypes, PTL DEF LeaseSpec

\* The count of active leases is the number of leases that are out, with those
\* that a failed publication of a batch item dropped.
THEOREM CountIsExact == LeaseSpec => []ActiveIsExact
    BY InitHolds, StepKeepsTypes, StepKeepsTheCount, PTL DEF LeaseSpec

\* A ceiling binds every admission from the moment it is set.
THEOREM CeilingBinds == LeaseSpec => CeilingBindsAdmission
    <1>1. LeaseTypeOK /\ [LeaseNext]_leaseVars => [active' > active => ceiling = 0 \/ active' <= ceiling]_leaseVars
        BY StepRespectsTheCeiling
    <1> QED BY <1>1, TypeCorrect, PTL DEF LeaseSpec, CeilingBindsAdmission

=============================================================================
