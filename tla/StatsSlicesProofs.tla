------------------------- MODULE StatsSlicesProofs -------------------------
(***************************************************************************)
(* What StatsSlices promises of the shared memory holds for any number of  *)
(* threads, periods and sightings: the live list stays well formed, and    *)
(* what its periods count stays within what Totals counts.                 *)
(***************************************************************************)
EXTENDS StatsSlices, PrefixSumsTheorems, SequenceTheorems, FiniteSetTheorems

-----------------------------------------------------------------------------
(* Slices of arrays.                                                        *)

\* A slice is inside of its array.
IsSlice(arrs, slice) ==
    /\ slice \in Slice
    /\ slice.arr \in 1..Len(arrs)
    /\ slice.off + slice.len <= Len(arrs[slice.arr])

ItemOf(arrs, slice, i) == arrs[slice.arr][slice.off + i]

\* A slice and its array.
LEMMA SliceParts ==
    ASSUME NEW arrs \in Seq(Seq(Nat)), NEW slice, IsSlice(arrs, slice)
    PROVE  /\ slice.arr \in 1..Len(arrs) /\ slice.off \in Nat /\ slice.len \in Nat
           /\ arrs[slice.arr] \in Seq(Nat) /\ Len(arrs[slice.arr]) \in Nat
           /\ slice.off + slice.len <= Len(arrs[slice.arr])
           /\ Len(arrs) \in Nat
BY DEF IsSlice, Slice

\* Where the items of a slice are, given its three parts.
LEMMA PartsOfSlice ==
    ASSUME NEW arrs, NEW slice, slice \in Slice,
           slice.arr \in 1..Len(arrs), slice.off + slice.len <= Len(arrs[slice.arr])
    PROVE  /\ IsSlice(arrs, slice)
           /\ \A i \in Nat : ItemOf(arrs, slice, i) = arrs[slice.arr][slice.off + i]
BY DEF IsSlice, ItemOf

\* A slice after append(slice, pointer), in place or in an array of its own.
HoldsAppended(arrs, slice, pointer, new) ==
    /\ new.arrays \in Seq(Seq(Nat))
    /\ IsSlice(new.arrays, new.slice)
    /\ new.slice.len = slice.len + 1
    /\ \A i \in 1..slice.len :
          ItemOf(new.arrays, new.slice, i) = ItemOf(arrs, slice, i)
    /\ ItemOf(new.arrays, new.slice, slice.len + 1) = pointer

LEMMA AppendedSlice ==
    ASSUME NEW arrs, arrs \in Seq(Seq(Nat)), NEW slice, IsSlice(arrs, slice),
           NEW pointer, pointer \in Nat
    PROVE  HoldsAppended(arrs, slice, pointer, Appended(arrs, slice, pointer))
<1> DEFINE new == Appended(arrs, slice, pointer)
           a == slice.arr
           o == slice.off
           n == slice.len
<1>1. /\ a \in 1..Len(arrs) /\ o \in Nat /\ n \in Nat /\ Len(arrs) \in Nat
      /\ arrs[a] \in Seq(Nat) /\ Len(arrs[a]) \in Nat /\ o + n <= Len(arrs[a])
  BY SliceParts
<1> DEFINE array == arrs[a]
           cap   == Len(array) - o
           old   == SubSeq(array, o + 1, o + n)
           room  == IF cap = 0 THEN 1 ELSE 2 * cap
           grown == [i \in 1..room |-> IF i <= n THEN old[i]
                                       ELSE IF i = n + 1 THEN pointer ELSE Nil]
           written == [array EXCEPT ![o + n + 1] = pointer]
<1>2. /\ n < cap => /\ new.arrays = [arrs EXCEPT ![a] = written]
                    /\ new.slice = [arr |-> a, off |-> o, len |-> n + 1]
      /\ ~(n < cap) => /\ new.arrays = Append(arrs, grown)
                       /\ new.slice = [arr |-> Len(arrs) + 1, off |-> 0, len |-> n + 1]
  BY DEF Appended, IsSlice, Slice
<1> HIDE DEF old, room, grown, written
<1>3. \A i \in Nat : ItemOf(arrs, slice, i) = array[o + i]
  BY DEF ItemOf
<1> SUFFICES /\ new.arrays \in Seq(Seq(Nat))
             /\ IsSlice(new.arrays, new.slice)
             /\ new.slice.len = n + 1
             /\ \A i \in 1..n : ItemOf(new.arrays, new.slice, i) = array[o + i]
             /\ ItemOf(new.arrays, new.slice, n + 1) = pointer
  <2>1. \A i \in 1..n : i \in Nat
    BY <1>1
  <2> HIDE DEF new
  <2> QED
    BY <1>3, <2>1 DEF HoldsAppended, new
<1>4. array \in Seq(Nat) /\ Len(array) \in Nat /\ o + n <= Len(array)
  BY <1>1
<1> HIDE DEF new, array, a, o, n
<1>5. CASE n < cap
  <2>0. new.arrays = [arrs EXCEPT ![a] = written] /\ new.slice = [arr |-> a, off |-> o, len |-> n + 1]
    BY <1>2, <1>5
  <2>1. o + n + 1 \in 1..Len(array)
    BY <1>1, <1>4, <1>5
  <2>2. /\ written \in Seq(Nat) /\ Len(written) = Len(array) /\ written[o + n + 1] = pointer
        /\ \A j \in 1..Len(array) : j # o + n + 1 => written[j] = array[j]
    BY <1>4, <2>1, ExceptSeq DEF written
  <2>3. /\ new.arrays \in Seq(Seq(Nat)) /\ Len(new.arrays) = Len(arrs)
        /\ new.arrays[a] = written
    BY <1>1, <2>0, <2>2, ExceptSeq
  <2>4. /\ IsSlice(new.arrays, new.slice) /\ new.slice.len = n + 1
        /\ \A i \in Nat : ItemOf(new.arrays, new.slice, i) = written[o + i]
    <3>1. o + (n + 1) <= Len(new.arrays[a]) /\ a \in 1..Len(new.arrays)
      BY <1>1, <1>4, <1>5, <2>1, <2>2, <2>3
    <3>2. /\ new.slice \in Slice
          /\ new.slice.arr = a /\ new.slice.off = o /\ new.slice.len = n + 1
      BY <1>1, <2>0 DEF Slice
    <3> QED
      BY <2>3, <3>1, <3>2, PartsOfSlice
  <2>5. \A i \in 1..n : o + i \in 1..Len(array) /\ o + i # o + n + 1
    BY <1>1, <1>4
  <2>6. o + (n + 1) = o + n + 1 /\ n + 1 \in Nat /\ 1..n \subseteq Nat
    BY <1>1
  <2> QED
    BY <2>2, <2>3, <2>4, <2>5, <2>6
<1>6. CASE ~(n < cap)
  <2>0. /\ new.arrays = Append(arrs, grown)
        /\ new.slice = [arr |-> Len(arrs) + 1, off |-> 0, len |-> n + 1]
    BY <1>2, <1>6
  <2>1. room \in Nat /\ n + 1 <= room
    BY <1>1, <1>4, <1>6 DEF room
  <2>2. \A i \in 1..n : old[i] = array[o + i] /\ old[i] \in Nat
    <3> DEFINE first == o + 1
               last  == o + n
    <3>1. \A i \in first..last : array[i] \in Nat
      BY <1>1, <1>4
    <3>2. first \in Int /\ last \in Int /\ last - first + 1 = n
          /\ \A i \in 1..n : first + i - 1 = o + i /\ o + i \in first..last
      BY <1>1
    <3>3. old = SubSeq(array, first, last)
      BY DEF old
    <3> HIDE DEF first, last
    <3>4. \A i \in 1..(last - first + 1) : old[i] = array[first + i - 1]
      BY <3>1, <3>2, <3>3, SubSeqProperties
    <3> QED
      BY <3>1, <3>2, <3>4
  <2>3. \A i \in 1..room : (IF i <= n THEN old[i]
                            ELSE IF i = n + 1 THEN pointer ELSE Nil) \in Nat
    BY <1>1, <2>1, <2>2 DEF Nil
  <2>4. grown \in Seq(Nat)
    BY <2>1, <2>3, IsASeq DEF grown
  <2>5. /\ Len(grown) = room /\ grown[n + 1] = pointer
        /\ \A i \in 1..n : grown[i] = array[o + i]
    BY <1>1, <2>1, <2>2 DEF grown
  <2>6. /\ new.arrays \in Seq(Seq(Nat)) /\ Len(new.arrays) = Len(arrs) + 1
        /\ new.arrays[Len(arrs) + 1] = grown
    BY <2>0, <2>4, AppendProperties
  <2>7. /\ IsSlice(new.arrays, new.slice) /\ new.slice.len = n + 1
        /\ \A i \in Nat : ItemOf(new.arrays, new.slice, i) = grown[i]
    <3>1. 0 + (n + 1) <= Len(new.arrays[Len(arrs) + 1])
      BY <1>1, <2>1, <2>5, <2>6
    <3>2. Len(arrs) + 1 \in 1..Len(new.arrays)
      BY <1>1, <2>6
    <3>3. /\ new.slice \in Slice
          /\ new.slice.arr = Len(arrs) + 1 /\ new.slice.off = 0 /\ new.slice.len = n + 1
      BY <1>1, <2>0 DEF Slice
    <3>4. 0 + (n + 1) = new.slice.off + new.slice.len /\ \A i \in Nat : new.slice.off + i = i
      BY <3>3
    <3>5. /\ new.slice.off + new.slice.len <= Len(new.arrays[new.slice.arr])
          /\ new.slice.arr \in 1..Len(new.arrays)
      BY <2>6, <3>1, <3>2, <3>3, <3>4
    <3>6. /\ IsSlice(new.arrays, new.slice)
          /\ \A i \in Nat : ItemOf(new.arrays, new.slice, i)
                              = new.arrays[new.slice.arr][new.slice.off + i]
      BY <3>3, <3>5, PartsOfSlice
    <3> QED
      BY <2>6, <3>3, <3>4, <3>6
  <2>8. \A i \in 1..(n + 1) : i \in Nat
    BY <1>1
  <2>9. n + 1 \in 1..(n + 1) /\ \A i \in 1..n : i \in 1..(n + 1)
    BY <1>1
  <2> QED
    BY <2>5, <2>6, <2>7, <2>8, <2>9
<1> QED
  BY <1>5, <1>6

\* A slice after it has lost its first k items, the array staying as it is.
LEMMA DroppedSlice ==
    ASSUME NEW arrs \in Seq(Seq(Nat)), NEW slice, IsSlice(arrs, slice), NEW k \in 0..slice.len
    PROVE  /\ IsSlice(arrs, Dropped(slice, k))
           /\ Dropped(slice, k).len = slice.len - k
           /\ \A i \in 1..(slice.len - k) :
                 ItemOf(arrs, Dropped(slice, k), i) = ItemOf(arrs, slice, i + k)
<1> DEFINE a == slice.arr
           o == slice.off
           n == slice.len
<1>1. /\ a \in 1..Len(arrs) /\ o \in Nat /\ n \in Nat /\ Len(arrs) \in Nat
      /\ Len(arrs[a]) \in Nat /\ o + n <= Len(arrs[a])
  BY SliceParts
<1>2. /\ Dropped(slice, k).arr = a /\ Dropped(slice, k).off = o + k
      /\ Dropped(slice, k).len = n - k
      /\ Dropped(slice, k) = [arr |-> a, off |-> o + k, len |-> n - k]
  BY DEF Dropped
<1>3. k \in Nat /\ n - k \in Nat /\ o + k \in Nat /\ (o + k) + (n - k) <= Len(arrs[a])
  <2>1. k \in Nat /\ k <= n
    BY <1>1
  <2> HIDE DEF a, o, n
  <2> QED
    BY ONLY <1>1, <2>1
<1>4. /\ IsSlice(arrs, Dropped(slice, k)) /\ Dropped(slice, k).len = n - k
      /\ \A i \in Nat : ItemOf(arrs, Dropped(slice, k), i) = arrs[a][(o + k) + i]
  <2>1. Dropped(slice, k) \in Slice
    BY <1>1, <1>2, <1>3 DEF Slice
  <2>2. Dropped(slice, k).off + Dropped(slice, k).len <= Len(arrs[a])
    BY <1>2, <1>3
  <2> QED
    <3> DEFINE new == Dropped(slice, k)
    <3>1. /\ new \in Slice /\ new.arr \in 1..Len(arrs)
          /\ new.off + new.len <= Len(arrs[new.arr])
          /\ new.arr = a /\ new.off = o + k /\ new.len = n - k
      BY <1>1, <1>2, <2>1, <2>2
    <3> HIDE DEF new
    <3>2. IsSlice(arrs, new) /\ \A i \in Nat : ItemOf(arrs, new, i) = arrs[new.arr][new.off + i]
      BY ONLY <3>1, PartsOfSlice
    <3> QED
      BY <3>1, <3>2 DEF new
<1>5. \A i \in 1..(n - k) : (o + k) + i = o + (i + k)
  <2>1. o \in Nat /\ k \in Nat /\ n \in Nat
    BY <1>1, <1>3
  <2> HIDE DEF o, n
  <2> QED
    BY ONLY <2>1
<1> QED
  BY <1>4, <1>5 DEF ItemOf

\* The first items of a slice alone.
Shortened(slice, m) == [slice EXCEPT !.len = m]

LEMMA ShortenedSlice ==
    ASSUME NEW arrs \in Seq(Seq(Nat)), NEW slice, IsSlice(arrs, slice), NEW m \in 0..slice.len
    PROVE  LET short == Shortened(slice, m)
           IN  /\ IsSlice(arrs, short) /\ short.len = m
               /\ \A i \in 1..m : ItemOf(arrs, short, i) = ItemOf(arrs, slice, i)
<1> DEFINE short == Shortened(slice, m)
           a == slice.arr
           o == slice.off
<1>1. /\ a \in 1..Len(arrs) /\ o \in Nat /\ slice.len \in Nat /\ Len(arrs) \in Nat
      /\ Len(arrs[a]) \in Nat /\ o + slice.len <= Len(arrs[a])
  BY SliceParts
<1>2. short.arr = a /\ short.off = o /\ short.len = m /\ short \in Slice
  <2>1. slice \in Slice
    BY DEF IsSlice
  <2> QED
    BY <2>1 DEF Slice, Shortened
<1>3. m \in Nat /\ o + m <= Len(arrs[a])
  BY <1>1
<1>4. /\ IsSlice(arrs, short) /\ short.len = m
      /\ \A i \in Nat : ItemOf(arrs, short, i) = arrs[a][o + i]
  <2> HIDE DEF short, a, o
  <2> QED
    BY <1>1, <1>2, <1>3, PartsOfSlice
<1> QED
  BY <1>4 DEF ItemOf

\* A slice after keepRecentStats: without its first k items, and in an array of
\* its own if there were any.
LEMMA KeptSlice ==
    ASSUME NEW arrs \in Seq(Seq(Nat)), NEW slice, IsSlice(arrs, slice), NEW k \in 0..slice.len
    PROVE  LET new == Kept(arrs, slice, k)
           IN  /\ new.arrays \in Seq(Seq(Nat))
               /\ IsSlice(new.arrays, new.slice)
               /\ new.slice.len = slice.len - k
               /\ \A i \in 1..(slice.len - k) :
                     ItemOf(new.arrays, new.slice, i) = ItemOf(arrs, slice, i + k)
<1> DEFINE new == Kept(arrs, slice, k)
           a == slice.arr
           o == slice.off
           n == slice.len
<1>1. /\ a \in 1..Len(arrs) /\ o \in Nat /\ n \in Nat /\ Len(arrs) \in Nat
      /\ arrs[a] \in Seq(Nat) /\ Len(arrs[a]) \in Nat /\ o + n <= Len(arrs[a])
  BY SliceParts
<1>2. CASE k = 0
  <2>1. new.arrays = arrs /\ new.slice = slice
    BY <1>2 DEF Kept
  <2> HIDE DEF new
  <2>2. \A i \in 1..(slice.len - k) : i + k = i
    BY <1>1, <1>2
  <2> QED
    BY <1>1, <1>2, <2>1, <2>2 DEF new
<1>3. CASE k # 0
  <2> DEFINE array   == arrs[a]
             first   == o + k + 1
             last    == o + n
             cleared == [i \in DOMAIN array |-> IF i \in first..last THEN Nil ELSE array[i]]
             moved   == SubSeq(array, first, last)
  <2>1. /\ new.arrays = Append([arrs EXCEPT ![a] = cleared], moved)
        /\ new.slice = [arr |-> Len(arrs) + 1, off |-> 0, len |-> n - k]
    BY <1>3 DEF Kept
  <2>2. /\ array \in Seq(Nat) /\ Len(array) \in Nat /\ o + n <= Len(array)
        /\ k \in Nat /\ n - k \in Nat /\ Len(arrs) \in Nat
        /\ a \in 1..Len(arrs) /\ o \in Nat /\ n \in Nat
    BY <1>1
  <2>a. /\ new = Kept(arrs, slice, k)
        /\ \A i \in Nat : ItemOf(arrs, slice, i) = array[o + i]
    BY DEF ItemOf
  <2> HIDE DEF a, o, n
  <2> HIDE DEF array
  <2>3. cleared \in Seq(Nat)
    <3> HIDE DEF first, last
    <3>1. cleared = [i \in 1..Len(array) |-> IF i \in first..last THEN Nil ELSE array[i]]
      BY <2>2
    <3>2. \A i \in 1..Len(array) : (IF i \in first..last THEN Nil ELSE array[i]) \in Nat
      BY <2>2 DEF Nil
    <3>3. [i \in 1..Len(array) |-> IF i \in first..last THEN Nil ELSE array[i]] \in Seq(Nat)
      BY <2>2, <3>2, IsASeq
    <3> QED
      BY <3>1, <3>3
  <2>4. /\ moved \in Seq(Nat) /\ Len(moved) = n - k
        /\ \A i \in 1..(n - k) : moved[i] = array[o + (i + k)]
    <3>1. \A i \in first..last : array[i] \in Nat
      BY <2>2
    <3>2. first \in Int /\ last \in Int /\ last - first + 1 = n - k
          /\ \A i \in 1..(n - k) : first + i - 1 = o + (i + k)
      BY <2>2
    <3>3. first <= last \/ n - k = 0
      BY <2>2
    <3> HIDE DEF first, last
    <3>4. /\ moved \in Seq(Nat) /\ Len(moved) = IF first <= last THEN last - first + 1 ELSE 0
          /\ \A i \in 1..(last - first + 1) : moved[i] = array[first + i - 1]
      BY <3>1, <3>2, SubSeqProperties
    <3> HIDE DEF moved
    <3>5. Len(moved) = n - k
      BY <2>2, <3>2, <3>3, <3>4
    <3> QED
      BY <3>2, <3>4, <3>5
  <2> HIDE DEF cleared, moved
  <2>5. /\ [arrs EXCEPT ![a] = cleared] \in Seq(Seq(Nat))
        /\ Len([arrs EXCEPT ![a] = cleared]) = Len(arrs)
    BY <2>2, <2>3, ExceptSeq
  <2>6. /\ new.arrays \in Seq(Seq(Nat)) /\ Len(new.arrays) = Len(arrs) + 1
        /\ new.arrays[Len(arrs) + 1] = moved
    BY <2>1, <2>4, <2>5, AppendProperties
  <2> HIDE DEF new
  <2>7. /\ IsSlice(new.arrays, new.slice) /\ new.slice.len = n - k
        /\ \A i \in Nat : ItemOf(new.arrays, new.slice, i) = moved[i]
    <3>1. /\ 0 + (n - k) <= Len(new.arrays[Len(arrs) + 1])
          /\ Len(arrs) + 1 \in 1..Len(new.arrays) /\ Len(new.arrays) \in Nat
          /\ n - k \in Nat /\ 0 \in Nat
      <4>1. /\ Len(moved) = n - k /\ n - k \in Nat /\ Len(arrs) \in Nat
            /\ Len(new.arrays) = Len(arrs) + 1 /\ new.arrays[Len(arrs) + 1] = moved
        BY <2>2, <2>4, <2>6
      <4> QED
        BY ONLY <4>1
    <3>2. new.slice = [arr |-> Len(arrs) + 1, off |-> 0, len |-> n - k]
      BY <2>1
    <3>3. /\ new.slice \in Slice
          /\ new.slice.arr = Len(arrs) + 1 /\ new.slice.off = 0 /\ new.slice.len = n - k
      BY <2>2, <3>2 DEF Slice
    <3>4. 0 + (n - k) = new.slice.off + new.slice.len /\ \A i \in Nat : new.slice.off + i = i
      BY <3>3
    <3>5. /\ new.slice.off + new.slice.len <= Len(new.arrays[new.slice.arr])
          /\ new.slice.arr \in 1..Len(new.arrays)
      BY <2>6, <3>1, <3>3, <3>4
    <3>6. /\ IsSlice(new.arrays, new.slice)
          /\ \A i \in Nat : ItemOf(new.arrays, new.slice, i)
                              = new.arrays[new.slice.arr][new.slice.off + i]
      BY <3>3, <3>5, PartsOfSlice
    <3> QED
      BY <2>6, <3>3, <3>4, <3>6
  <2>8. \A i \in 1..(n - k) : i \in Nat /\ i + k \in Nat
    BY <2>2
  <2>9. \A i \in 1..(n - k) : ItemOf(new.arrays, new.slice, i) = ItemOf(arrs, slice, i + k)
    BY <2>4, <2>7, <2>8, <2>a
  <2> QED
    BY <2>6, <2>7, <2>9, <2>a DEF n
<1> QED
  BY <1>2, <1>3

\* The arrays after slice[m] = pointer.
Stored(arrs, slice, m, pointer) == [arrs EXCEPT ![slice.arr][Index(slice, m)] = pointer]

\* A slice after one of its items has been overwritten.
HoldsStored(arrs, slice, m, pointer, new) ==
    /\ new \in Seq(Seq(Nat))
    /\ IsSlice(new, slice)
    /\ ItemOf(new, slice, m) = pointer
    /\ \A i \in 1..slice.len : i # m => ItemOf(new, slice, i) = ItemOf(arrs, slice, i)

LEMMA StoredSlice ==
    ASSUME NEW arrs, arrs \in Seq(Seq(Nat)), NEW slice, IsSlice(arrs, slice),
           NEW pointer, pointer \in Nat, NEW m, m \in 1..slice.len
    PROVE  HoldsStored(arrs, slice, m, pointer, Stored(arrs, slice, m, pointer))
<1> DEFINE a       == slice.arr
           o       == slice.off
           n       == slice.len
           array   == arrs[a]
           written == [array EXCEPT ![o + m] = pointer]
           new     == [arrs EXCEPT ![a] = written]
<1>1. /\ a \in 1..Len(arrs) /\ o \in Nat /\ n \in Nat /\ Len(arrs) \in Nat
      /\ array \in Seq(Nat) /\ Len(array) \in Nat /\ o + n <= Len(array)
  BY SliceParts
<1>2. o + m \in 1..Len(array)
  <2>1. o \in Nat /\ m \in Nat /\ 1 <= m /\ o + m <= Len(array)
    BY <1>1
  <2> HIDE DEF o, array
  <2> QED
    BY ONLY <2>1
<1>3. /\ written \in Seq(Nat) /\ Len(written) = Len(array)
      /\ \A j \in 1..Len(array) : written[j] = IF j = o + m THEN pointer ELSE array[j]
  <2>1. array \in Seq(Nat) /\ o + m \in 1..Len(array) /\ pointer \in Nat
    BY <1>1, <1>2
  <2>2. /\ written \in Seq(Nat) /\ Len(written) = Len(array)
        /\ written[o + m] = pointer
        /\ \A j \in 1..Len(array) : j # o + m => written[j] = array[j]
    <3> DEFINE place == o + m
    <3>1. place \in 1..Len(array)
      BY <2>1
    <3> HIDE DEF array, place
    <3>2. /\ [array EXCEPT ![place] = pointer] \in Seq(Nat)
          /\ Len([array EXCEPT ![place] = pointer]) = Len(array)
          /\ [array EXCEPT ![place] = pointer][place] = pointer
          /\ \A j \in 1..Len(array) :
                j # place => [array EXCEPT ![place] = pointer][j] = array[j]
      BY ONLY <2>1, <3>1, ExceptSeq
    <3> QED
      BY <3>2 DEF place
  <2> QED
    BY ONLY <2>2
<1>4. Stored(arrs, slice, m, pointer) = new
  BY DEF Stored, Index
<1> HIDE DEF written
<1>5. new \in Seq(Seq(Nat)) /\ Len(new) = Len(arrs) /\ new[a] = written
  BY <1>1, <1>3, ExceptSeq
<1> HIDE DEF new
<1>6. IsSlice(new, slice)
  BY <1>1, <1>3, <1>5 DEF IsSlice
<1>7. ASSUME NEW i \in 1..n
      PROVE  /\ i = m => ItemOf(new, slice, i) = pointer
             /\ i # m => ItemOf(new, slice, i) = ItemOf(arrs, slice, i)
  <2>1. o + i \in 1..Len(array)
    <3> HIDE DEF o, n, array
    <3> QED
      BY <1>1
  <2>2. i # m => o + i # o + m
    BY <1>1
  <2> QED
    BY <1>3, <1>5, <2>1, <2>2 DEF ItemOf
<1> QED
  BY <1>4, <1>5, <1>6, <1>7 DEF HoldsStored

-----------------------------------------------------------------------------
(* The invariant.                                                           *)

Item(i) == ItemOf(arrays, live, i)
Current == Item(live.len)

MemoryTypeOK ==
    /\ heap \in Seq(Period)
    /\ arrays \in Seq(Seq(Nat))
    /\ IsSlice(arrays, live) /\ live.len > 0
    /\ total \in Nat

\* LiveListIsWellFormed, and its pointers are those of periods.
ListIsWellFormed ==
    /\ \A i \in 1..live.len :
          Item(i) \in 1..Len(heap) /\ (heap[Item(i)].frozen <=> i < live.len)
    /\ \A i, j \in 1..live.len : Item(i) = Item(j) => i = j

ThreadsTypeOK ==
    /\ pc \in [Thread -> {"idle", "count", "total", "clone", "store", "totals"}]
    /\ \A a \in Adder : pc[a] \in {"idle", "count", "total"}
    /\ \A s \in Snapshotter : pc[s] \in {"idle", "clone", "store", "totals"}
    /\ ptr \in [Thread -> Nat]
    /\ overlapped \in BOOLEAN

\* The threads that will count in, clone or store the period they point to.
Holding == {t \in Thread : pc[t] \in {"count", "clone", "store"}}

\* It may be the current period, one that a clone has replaced, or a clone; but
\* none of these has been closed.
HeldAreOpen == \A t \in Holding : ptr[t] \in 1..Len(heap) /\ ~heap[ptr[t]].frozen

\* What the first n periods count together.
Counts == [i \in 1..live.len |-> heap[Item(i)].count]
Counted(n) == PrefixSum(Counts, n)

\* Whichever of the periods in use becomes the current one, Totals and the
\* sightings in flight cover what the list then counts.
HeldAreCovered ==
    /\ Counted(live.len) <= total + InFlight
    /\ \A t \in Holding : Counted(live.len - 1) + heap[ptr[t]].count <= total + InFlight

\* Without an overlap they count the same as the current period, so that it does
\* not matter which one it is.
HeldAreCurrent ==
    ~overlapped =>
        /\ Counted(live.len) = total + InFlight
        /\ \A a \in Adder, s \in Snapshotter : pc[a] = "idle" \/ pc[s] = "idle"
        /\ \A a \in Adder : pc[a] = "count" => ptr[a] = Current
        /\ \A s \in Snapshotter :
              pc[s] \in {"clone", "store"} => heap[ptr[s]].count = heap[Current].count

SlicesInv ==
    /\ MemoryTypeOK
    /\ ListIsWellFormed
    /\ ThreadsTypeOK
    /\ HeldAreOpen
    /\ HeldAreCovered
    /\ HeldAreCurrent

-----------------------------------------------------------------------------
(* Sums over the live list, and the sightings in flight.                    *)

LEMMA LiveLength ==
    ASSUME MemoryTypeOK
    PROVE  live.len \in Nat /\ live.len > 0 /\ live.len \in 1..live.len
BY DEF MemoryTypeOK, IsSlice, Slice

LEMMA EntryIsItem == \A i : Entry(live, i) = Item(i)
BY DEF Entry, Index, Item, ItemOf

LEMMA CountsType ==
    ASSUME MemoryTypeOK, ListIsWellFormed
    PROVE  Counts \in [1..live.len -> Nat]
<1>1. \A i \in 1..live.len : heap[Item(i)] \in Period
  BY DEF MemoryTypeOK, ListIsWellFormed
<1> QED
  BY <1>1 DEF Counts, Period

LEMMA CountedType ==
    ASSUME MemoryTypeOK, ListIsWellFormed
    PROVE  /\ Counted(0) = 0
           /\ \A n \in 0..live.len : Counted(n) \in Nat
           /\ \A n \in 1..live.len : Counted(n) = Counted(n - 1) + heap[Item(n)].count
<1>1. live.len \in Nat /\ \A i \in 1..live.len : Counts[i] \in Nat
  BY CountsType, LiveLength
<1>2. Counted(0) = 0
  BY PrefixSumZero DEF Counted
<1>3. ASSUME NEW n \in 0..live.len PROVE Counted(n) \in Nat
  <2>1. n \in Nat /\ \A i \in 1..n : Counts[i] \in Nat
    BY <1>1
  <2> QED
    BY <2>1, PrefixSumBounds DEF Counted
<1>4. ASSUME NEW n \in 1..live.len
      PROVE  Counted(n) = Counted(n - 1) + heap[Item(n)].count
  <2>1. n - 1 \in Nat /\ (n - 1) + 1 = n /\ \A i \in 1..n : Counts[i] \in Int
    BY <1>1
  <2>2. PrefixSum(Counts, (n - 1) + 1) = PrefixSum(Counts, n - 1) + Counts[(n - 1) + 1]
    BY <2>1, PrefixSumAppend
  <2> QED
    BY <2>1, <2>2 DEF Counted, Counts
<1> QED
  BY <1>2, <1>3, <1>4

LEMMA CountOfIsCounted ==
    ASSUME MemoryTypeOK, ListIsWellFormed,
           NEW n \in 0..live.len, NEW m \in 1..(n + 1)
    PROVE  /\ CountOf(m, n) = Counted(n) - Counted(m - 1)
           /\ CountOf(m, n) \in Nat
<1> DEFINE f == [i \in 1..n |-> IF i < m THEN 0 ELSE heap[Entry(live, i)].count]
<1>1. live.len \in Nat /\ n \in Nat /\ m - 1 \in 0..n /\ m - 1 \in 0..live.len
  BY LiveLength
<1>2. \A i \in 1..n : i \in 1..live.len /\ Counts[i] \in Nat /\ Counts[i] \in Int
  BY <1>1, CountsType
<1>3. \A i \in 1..n : (i < m <=> i <= m - 1) /\ heap[Entry(live, i)].count = Counts[i]
  BY <1>1, <1>2, EntryIsItem DEF Counts
<1>4. \A i \in 1..n : f[i] = IF i <= m - 1 THEN 0 ELSE Counts[i]
  BY <1>3
<1>5. \A i \in 1..n : f[i] \in Nat
  BY <1>2, <1>4
<1>6. CountOf(m, n) = PrefixSum(f, n)
  BY DEF CountOf
<1> HIDE DEF f
<1>7. PrefixSum(Counts, n) = PrefixSum(Counts, m - 1) + PrefixSum(f, n)
  BY <1>1, <1>2, <1>4, PrefixSumSplit
<1>8. PrefixSum(f, n) \in Nat
  BY <1>1, <1>5, PrefixSumBounds
<1>9. Counted(n) \in Nat /\ Counted(m - 1) \in Nat
  BY <1>1, CountedType
<1> QED
  BY <1>6, <1>7, <1>8, <1>9 DEF Counted

\* The sum of all.
LEMMA CountOfAll ==
    ASSUME MemoryTypeOK, ListIsWellFormed, NEW n \in 0..live.len
    PROVE  CountOf(1, n) = Counted(n)
<1>1. 1 \in 1..(n + 1) /\ live.len \in Nat /\ 1 - 1 = 0
  BY LiveLength
<1>2. CountOf(1, n) = Counted(n) - Counted(1 - 1)
  BY <1>1, CountOfIsCounted
<1>3. Counted(n) \in Nat /\ Counted(0) = 0
  BY CountedType
<1> QED
  BY <1>1, <1>2, <1>3

LEMMA InFlightNat ==
    /\ IsFiniteSet({a \in Adder : pc[a] = "total"}) /\ InFlight \in Nat
    /\ Readers = {} => InFlight = 0
<1>1. IsFiniteSet({a \in Adder : pc[a] = "total"})
  BY SlicesAssumption, FS_Subset
<1>2. Readers = {} => {a \in Adder : pc[a] = "total"} = {}
  BY DEF Readers, Thread
<1> QED
  BY <1>1, <1>2, FS_CardinalityType, FS_EmptySet DEF InFlight

\* A thread that is added to those that have counted in a period only, or is
\* removed from them.
LEMMA InFlightChanges ==
    ASSUME NEW t \in Adder, ThreadsTypeOK, NEW next, pc' = [pc EXCEPT ![t] = next]
    PROVE  /\ pc[t] # "total" /\ next = "total" => InFlight' = InFlight + 1
           /\ pc[t] = "total" /\ next # "total" => InFlight' = InFlight - 1
<1> DEFINE flying == {a \in Adder : pc[a] = "total"}
           next_flying == {a \in Adder : pc'[a] = "total"}
<1>1. IsFiniteSet(flying) /\ InFlight = Cardinality(flying)
      /\ InFlight' = Cardinality(next_flying)
  BY InFlightNat DEF InFlight
<1>2. pc'[t] = next /\ \A a \in Adder : a # t => pc'[a] = pc[a]
  BY DEF ThreadsTypeOK, Thread
<1>3. ASSUME pc[t] # "total", next = "total" PROVE InFlight' = InFlight + 1
  <2>1. next_flying = flying \cup {t} /\ t \notin flying
    BY <1>2, <1>3
  <2> QED
    BY <1>1, <2>1, FS_AddElement
<1>4. ASSUME pc[t] = "total", next # "total" PROVE InFlight' = InFlight - 1
  <2>1. next_flying = flying \ {t} /\ t \in flying
    BY <1>2, <1>4
  <2> QED
    BY <1>1, <2>1, FS_RemoveElement
<1> QED
  BY <1>3, <1>4

LEMMA InFlightStays ==
    ASSUME \A a \in Adder : pc'[a] = "total" <=> pc[a] = "total"
    PROVE  InFlight' = InFlight
<1>1. {a \in Adder : pc'[a] = "total"} = {a \in Adder : pc[a] = "total"}
  OBVIOUS
<1> QED
  BY <1>1 DEF InFlight

-----------------------------------------------------------------------------
(* The steps of the readers.                                                *)

LEMMA InitSlicesInv == Init => SlicesInv
<1> SUFFICES ASSUME Init PROVE SlicesInv
  OBVIOUS
<1> DEFINE first == [i \in 1..InitialCap |-> IF i = 1 THEN 1 ELSE Nil]
<1> USE SlicesAssumption
<1>1. /\ heap = <<NewPeriod>> /\ arrays = <<first>> /\ total = 0
      /\ live = [arr |-> 1, off |-> 0, len |-> 1]
      /\ pc = [t \in Thread |-> "idle"] /\ ptr = [t \in Thread |-> Nil] /\ overlapped = FALSE
  BY DEF Init
<1>2. first \in Seq(Nat) /\ Len(first) = InitialCap /\ first[1] = 1
  <2>1. \A i \in 1..InitialCap : (IF i = 1 THEN 1 ELSE Nil) \in Nat
    BY DEF Nil
  <2>2. first \in Seq(Nat)
    BY <2>1, IsASeq
  <2> QED
    BY <2>2
<1> HIDE DEF first
<1>3. /\ heap \in Seq(Period) /\ Len(heap) = 1 /\ heap[1] = NewPeriod
      /\ NewPeriod.count = 0 /\ NewPeriod.frozen = FALSE
  BY <1>1 DEF Period, NewPeriod
<1>4. arrays \in Seq(Seq(Nat)) /\ Len(arrays) = 1 /\ arrays[1] = first
  BY <1>1, <1>2
<1>5. /\ live.arr = 1 /\ live.off = 0 /\ live.len = 1 /\ live \in Slice
  BY <1>1 DEF Slice
<1>6. MemoryTypeOK
  BY <1>1, <1>2, <1>3, <1>4, <1>5 DEF MemoryTypeOK, IsSlice
<1>7. Item(1) = 1
  BY <1>2, <1>4, <1>5 DEF Item, ItemOf
<1>8. ListIsWellFormed
  BY <1>3, <1>5, <1>7 DEF ListIsWellFormed
<1>9. Counted(1) = 0
  BY <1>3, <1>5, <1>6, <1>7, <1>8, CountedType
<1>10. Holding = {} /\ Readers = {}
  BY <1>1 DEF Holding, Readers
<1>11. InFlight = 0
  BY <1>10, InFlightNat
<1>12. ThreadsTypeOK
  BY <1>1 DEF ThreadsTypeOK, Thread, Nil
<1>13. HeldAreOpen /\ HeldAreCovered
  BY <1>1, <1>5, <1>9, <1>10, <1>11 DEF HeldAreOpen, HeldAreCovered
<1>14. HeldAreCurrent
  BY <1>1, <1>5, <1>9, <1>11 DEF HeldAreCurrent, Thread
<1> QED
  BY <1>6, <1>8, <1>12, <1>13, <1>14 DEF SlicesInv

\* A step that leaves the list and its periods alone.
LEMMA ListStays ==
    ASSUME UNCHANGED <<heap, arrays, live>>
    PROVE  /\ ListIsWellFormed' = ListIsWellFormed
           /\ Counts' = Counts /\ Current' = Current
           /\ \A n : Counted(n)' = Counted(n)
BY DEF ListIsWellFormed, Counts, Counted, Current, Item

\* A thread that begins reads the pointer of the current period.
LEMMA CallBeginsSlicesInv ==
    ASSUME SlicesInv, NEW t \in Thread,
           \/ t \in Adder /\ AddPokemon(t)
           \/ t \in Snapshotter /\ GetSnapshot(t)
    PROVE  SlicesInv'
<1>1. /\ UNCHANGED memory /\ pc[t] = "idle"
      /\ ptr' = [ptr EXCEPT ![t] = Current]
      /\ pc' = [pc EXCEPT ![t] = IF t \in Adder THEN "count" ELSE "clone"]
      /\ t \in Adder => overlapped' = (overlapped \/ \E s \in Snapshotter : pc[s] # "idle")
      /\ t \in Snapshotter => overlapped' = (overlapped \/ \E a \in Adder : pc[a] # "idle")
      /\ t \in Adder <=> t \notin Snapshotter
  BY EntryIsItem, SlicesAssumption DEF AddPokemon, GetSnapshot, RLocked, Current, Thread
<1>2. /\ MemoryTypeOK' /\ ListIsWellFormed'
      /\ Current' = Current /\ \A n : Counted(n)' = Counted(n)
      /\ UNCHANGED <<heap, live, total>>
  BY <1>1, ListStays DEF SlicesInv, MemoryTypeOK, memory
<1>3. /\ Current \in 1..Len(heap) /\ Current \in Nat /\ ~heap[Current].frozen
      /\ live.len \in Nat /\ heap[Current].count \in Nat
      /\ Counted(live.len) = Counted(live.len - 1) + heap[Current].count
  <2>1. live.len \in 1..live.len /\ live.len \in Nat
    BY LiveLength DEF SlicesInv
  <2>2. Current \in 1..Len(heap) /\ ~heap[Current].frozen
    BY <2>1 DEF SlicesInv, ListIsWellFormed, Current
  <2>3. heap[Current] \in Period
    BY <2>2 DEF SlicesInv, MemoryTypeOK
  <2> QED
    BY <2>1, <2>2, <2>3, CountedType DEF SlicesInv, Current, Period
<1>4. /\ \A u \in Thread : u # t => pc'[u] = pc[u] /\ ptr'[u] = ptr[u]
      /\ ptr'[t] = Current /\ pc'[t] \in {"count", "clone"}
      /\ t \in Adder => pc'[t] = "count"
      /\ t \in Snapshotter => pc'[t] = "clone"
  BY <1>1 DEF SlicesInv, ThreadsTypeOK
<1>5. ThreadsTypeOK'
  <2>1. overlapped' \in BOOLEAN
    BY <1>1 DEF SlicesInv, ThreadsTypeOK, Thread
  <2>2. /\ \A a \in Adder : pc'[a] \in {"idle", "count", "total"}
        /\ \A s \in Snapshotter : pc'[s] \in {"idle", "clone", "store", "totals"}
    BY <1>4 DEF SlicesInv, ThreadsTypeOK, Thread
  <2>3. pc' \in [Thread -> {"idle", "count", "total", "clone", "store", "totals"}]
    BY <1>1 DEF SlicesInv, ThreadsTypeOK
  <2>4. ptr' \in [Thread -> Nat]
    BY <1>1, <1>3 DEF SlicesInv, ThreadsTypeOK
  <2> QED
    BY <2>1, <2>2, <2>3, <2>4 DEF ThreadsTypeOK
<1>6. InFlight' = InFlight
  <2>1. \A a \in Adder : pc'[a] = "total" <=> pc[a] = "total"
    BY <1>1, <1>4 DEF Thread
  <2> QED
    BY <2>1, InFlightStays
<1>7. \A u \in Thread : u # t => (u \in Holding' <=> u \in Holding)
  BY <1>4 DEF Holding
<1>8. HeldAreOpen'
  BY <1>2, <1>3, <1>4, <1>7 DEF SlicesInv, HeldAreOpen, Holding
<1>9. HeldAreCovered'
  <2>1. Counted(live.len)' = Counted(live.len) /\ Counted(live.len - 1)' = Counted(live.len - 1)
    BY <1>2
  <2>2. ASSUME NEW u \in Holding'
        PROVE  Counted(live.len - 1) + heap[ptr'[u]].count <= total + InFlight
    <3>1. CASE u = t
      BY <1>3, <1>4, <3>1 DEF SlicesInv, HeldAreCovered
    <3>2. CASE u # t
      BY <1>4, <1>7, <3>2 DEF SlicesInv, HeldAreCovered, Holding
    <3> QED
      BY <3>1, <3>2
  <2> QED
    BY <1>2, <1>6, <2>1, <2>2 DEF SlicesInv, HeldAreCovered
<1>10. HeldAreCurrent'
  <2> SUFFICES ASSUME ~overlapped' PROVE HeldAreCurrent'
    BY DEF HeldAreCurrent
  <2>1. /\ ~overlapped
        /\ t \in Adder => \A s \in Snapshotter : pc[s] = "idle"
        /\ t \in Snapshotter => \A a \in Adder : pc[a] = "idle"
    BY <1>1
  <2>2. Counted(live.len)' = total' + InFlight'
    BY <1>2, <1>6, <2>1 DEF SlicesInv, HeldAreCurrent
  <2>3. \A a \in Adder, s \in Snapshotter : pc'[a] = "idle" \/ pc'[s] = "idle"
    BY <1>1, <1>4, <2>1 DEF SlicesInv, HeldAreCurrent, Thread
  <2>4. \A a \in Adder : pc'[a] = "count" => ptr'[a] = Current
    BY <1>1, <1>4, <2>1 DEF SlicesInv, HeldAreCurrent, Thread
  <2>5. \A s \in Snapshotter :
            pc'[s] \in {"clone", "store"} => heap[ptr'[s]].count = heap[Current].count
    BY <1>1, <1>4, <2>1 DEF SlicesInv, HeldAreCurrent, Thread
  <2> QED
    BY <1>2, <2>2, <2>3, <2>4, <2>5 DEF HeldAreCurrent
<1> QED
  BY <1>2, <1>5, <1>8, <1>9, <1>10 DEF SlicesInv

\* The list ends with its current period.
LEMMA CurrentPeriod ==
    ASSUME MemoryTypeOK, ListIsWellFormed
    PROVE  /\ live.len \in Nat /\ live.len - 1 \in Nat
           /\ Current \in 1..Len(heap) /\ Current \in Nat
           /\ ~heap[Current].frozen /\ heap[Current].count \in Nat
           /\ Counted(live.len) = Counted(live.len - 1) + heap[Current].count
           /\ Counted(live.len - 1) \in Nat
           /\ \A i \in 1..(live.len - 1) : Item(i) # Current
<1>1. live.len \in 1..live.len /\ live.len \in Nat /\ live.len - 1 \in 0..live.len
  BY LiveLength
<1>2. Current \in 1..Len(heap) /\ ~heap[Current].frozen
  BY <1>1 DEF ListIsWellFormed, Current
<1>3. heap[Current] \in Period
  BY <1>2 DEF MemoryTypeOK
<1>4. \A i \in 1..(live.len - 1) : Item(i) # Current
  BY <1>1, <1>2 DEF ListIsWellFormed
<1> QED
  BY <1>1, <1>2, <1>3, <1>4, CountedType DEF Current, Period

\* Only the current period counts differently, or is another one.
LEMMA SameClosedPeriods ==
    ASSUME MemoryTypeOK, ListIsWellFormed, MemoryTypeOK', ListIsWellFormed', live' = live,
           \A i \in 1..(live.len - 1) : heap'[Item(i)'].count = heap[Item(i)].count
    PROVE  /\ Counted(live.len - 1)' = Counted(live.len - 1)
           /\ Counted(live.len)' = Counted(live.len - 1) + heap'[Current'].count
<1>1. live.len \in Nat /\ live.len - 1 \in Nat
  BY LiveLength
<1>2. /\ \A i \in 1..(live.len - 1) : Counts'[i] = Counts[i]
      /\ \A i \in 1..(live.len - 1) : Counts[i] \in Int
  <2>1. \A i \in 1..(live.len - 1) : i \in 1..live.len
    BY <1>1
  <2> QED
    BY <1>1, <2>1, CountsType DEF Counts
<1>3. PrefixSum(Counts', live.len - 1) = PrefixSum(Counts, live.len - 1)
  BY <1>1, <1>2, PrefixSumEqual
<1>4. (MemoryTypeOK /\ ListIsWellFormed
         => Counted(live.len) = Counted(live.len - 1) + heap[Current].count)'
  BY CurrentPeriod, PTL
<1> QED
  BY <1>3, <1>4 DEF Counted

\* A pokemon is counted in a period that is still open: the current one, or one
\* that a clone has replaced meanwhile.
LEMMA CountInPeriodSlicesInv ==
    ASSUME SlicesInv, NEW t \in Adder, CountInPeriod(t)
    PROVE  SlicesInv'
<1> DEFINE p == ptr[t]
<1>1. t \in Holding /\ p \in 1..Len(heap) /\ ~heap[p].frozen /\ t \in Thread
  BY DEF CountInPeriod, Holding, Thread, SlicesInv, HeldAreOpen
<1>2. /\ heap' = [heap EXCEPT ![p].count = @ + 1]
      /\ pc' = [pc EXCEPT ![t] = "total"]
      /\ pc[t] = "count"
      /\ UNCHANGED <<arrays, live, total, ptr, overlapped>>
  BY <1>1 DEF CountInPeriod
<1>3. /\ heap' \in Seq(Period) /\ Len(heap') = Len(heap)
      /\ heap'[p].count = heap[p].count + 1 /\ ~heap'[p].frozen
      /\ \A q \in 1..Len(heap) : q # p => heap'[q] = heap[q]
      /\ \A q \in 1..Len(heap) : heap[q].count \in Nat
  <2> DEFINE counted == [heap[p] EXCEPT !.count = @ + 1]
  <2>1. heap[p] \in Period /\ heap \in Seq(Period)
    BY <1>1 DEF SlicesInv, MemoryTypeOK
  <2>2. counted \in Period /\ counted.count = heap[p].count + 1 /\ counted.frozen = heap[p].frozen
    BY <2>1 DEF Period
  <2>3. heap' = [heap EXCEPT ![p] = counted]
    BY <1>2
  <2> HIDE DEF counted
  <2>4. \A q \in 1..Len(heap) : heap[q] \in Period
    BY <2>1
  <2>5. \A q \in 1..Len(heap) : heap[q].count \in Nat
    BY <2>4 DEF Period
  <2> QED
    BY <1>1, <2>1, <2>2, <2>3, <2>5, ExceptSeq
<1> HIDE DEF p
<1>4. /\ \A q \in 1..Len(heap) : heap'[q].frozen <=> heap[q].frozen
      /\ \A q \in 1..Len(heap) :
            heap'[q].count \in Nat /\ heap'[q].count <= heap[q].count + 1
  <2>1. ASSUME NEW q \in 1..Len(heap)
        PROVE  /\ heap'[q].frozen <=> heap[q].frozen
               /\ heap'[q].count \in Nat /\ heap'[q].count <= heap[q].count + 1
    <3>1. CASE q = p
      BY <1>1, <1>3, <3>1
    <3>2. CASE q # p
      BY <1>3, <3>2
    <3> QED
      BY <3>1, <3>2
  <2> QED
    BY <2>1
<1>5. \A i : Item(i)' = Item(i)
  BY <1>2 DEF Item
<1>6. MemoryTypeOK' /\ ListIsWellFormed'
  BY <1>2, <1>3, <1>4, <1>5 DEF SlicesInv, MemoryTypeOK, ListIsWellFormed
<1>7. ThreadsTypeOK'
  <2>1. pc' \in [Thread -> {"idle", "count", "total", "clone", "store", "totals"}]
        /\ \A u \in Thread : u # t => pc'[u] = pc[u]
        /\ pc'[t] = "total"
    BY <1>1, <1>2 DEF SlicesInv, ThreadsTypeOK
  <2> QED
    BY <1>2, <2>1, SlicesAssumption DEF SlicesInv, ThreadsTypeOK, Thread
<1>8. /\ \A u \in Thread : u # t => pc'[u] = pc[u]
      /\ pc'[t] = "total"
      /\ \A u \in Holding' : u \in Holding /\ u # t /\ u \in Thread
  BY <1>1, <1>2 DEF SlicesInv, ThreadsTypeOK, Holding
<1>9. InFlight' = InFlight + 1 /\ InFlight \in Nat
  <2>1. InFlight' = InFlight + 1
    BY <1>2, InFlightChanges DEF SlicesInv
  <2> QED
    BY <2>1, InFlightNat
<1>10. HeldAreOpen'
  BY <1>2, <1>3, <1>4, <1>8 DEF SlicesInv, HeldAreOpen
<1>11. /\ Current' = Current /\ Current \in 1..Len(heap)
       /\ Counted(live.len) = Counted(live.len - 1) + heap[Current].count
       /\ Counted(live.len - 1) \in Nat /\ live.len - 1 \in Nat
       /\ \A i \in 1..(live.len - 1) : Item(i) # Current /\ Item(i) \in 1..Len(heap)
                                        /\ heap[Item(i)].frozen
  <2>1. live.len \in Nat /\ \A i \in 1..(live.len - 1) : i \in 1..live.len /\ i < live.len
    BY LiveLength DEF SlicesInv
  <2> QED
    BY <1>2, <1>5, <2>1, CurrentPeriod DEF SlicesInv, Current, ListIsWellFormed
<1>12. /\ Counted(live.len - 1)' = Counted(live.len - 1)
       /\ Counted(live.len)' = Counted(live.len - 1) + heap'[Current].count
  <2>1. \A i \in 1..(live.len - 1) : heap'[Item(i)'].count = heap[Item(i)].count
    BY <1>1, <1>3, <1>5, <1>11
  <2> QED
    BY <1>2, <1>6, <1>11, <2>1, SameClosedPeriods DEF SlicesInv
<1>13. HeldAreCovered'
  <2>0. total \in Nat /\ Counted(live.len) <= total + InFlight
    BY DEF SlicesInv, HeldAreCovered, MemoryTypeOK
  <2>1. Counted(live.len)' <= total + InFlight + 1
    <3>1. /\ heap'[Current].count \in Nat /\ heap[Current].count \in Nat
          /\ heap'[Current].count <= heap[Current].count + 1
      BY <1>3, <1>4, <1>11
    <3> QED
      BY <1>9, <1>11, <1>12, <2>0, <3>1
  <2>2. ASSUME NEW u \in Holding'
        PROVE  Counted(live.len - 1) + heap'[ptr[u]].count <= total + InFlight + 1
    <3>1. ptr[u] \in 1..Len(heap) /\ heap'[ptr[u]].count <= heap[ptr[u]].count + 1
          /\ heap'[ptr[u]].count \in Nat /\ heap[ptr[u]].count \in Nat
          /\ Counted(live.len - 1) + heap[ptr[u]].count <= total + InFlight
          /\ total \in Nat
      BY <1>3, <1>4, <1>8 DEF SlicesInv, HeldAreOpen, HeldAreCovered, MemoryTypeOK
    <3> QED
      BY ONLY <1>9, <1>11, <3>1
  <2>3. /\ total' + InFlight' = total + InFlight + 1
        /\ Counted(live.len - 1)' = Counted(live.len - 1)
        /\ UNCHANGED <<live, ptr>>
    BY <1>2, <1>9, <1>12, <2>0
  <2> QED
    BY <2>1, <2>2, <2>3 DEF HeldAreCovered
<1>14. HeldAreCurrent'
  <2> SUFFICES ASSUME ~overlapped PROVE HeldAreCurrent'
    BY <1>2 DEF HeldAreCurrent
  <2>1. /\ p = Current
        /\ \A s \in Snapshotter : pc[s] = "idle"
        /\ Counted(live.len) = total + InFlight
    BY <1>2 DEF SlicesInv, HeldAreCurrent, p
  <2>2. Counted(live.len)' = total' + InFlight'
    BY <1>2, <1>3, <1>9, <1>11, <1>12, <2>1 DEF SlicesInv, MemoryTypeOK
  <2>3. \A s \in Snapshotter : pc'[s] = "idle"
    BY <1>8, <2>1, SlicesAssumption DEF Thread
  <2>4. \A a \in Adder : pc'[a] = "count" => ptr[a] = Current
    BY <1>8 DEF SlicesInv, HeldAreCurrent, Thread
  <2> QED
    BY <1>2, <1>11, <2>2, <2>3, <2>4 DEF HeldAreCurrent
<1> QED
  BY <1>6, <1>7, <1>10, <1>13, <1>14 DEF SlicesInv

\* A sighting in flight arrives in Totals.
LEMMA CountInTotalsSlicesInv ==
    ASSUME SlicesInv, NEW t \in Adder, CountInTotals(t)
    PROVE  SlicesInv'
<1>1. /\ UNCHANGED <<heap, arrays, live, overlapped>>
      /\ pc[t] = "total" /\ pc' = [pc EXCEPT ![t] = "idle"]
      /\ ptr' = [ptr EXCEPT ![t] = Nil]
      /\ total' = total + 1 /\ t \in Thread
  BY DEF CountInTotals, Thread
<1>2. /\ ListIsWellFormed' /\ MemoryTypeOK'
      /\ Current' = Current /\ \A n : Counted(n)' = Counted(n)
  BY <1>1, ListStays DEF SlicesInv, MemoryTypeOK
<1>3. /\ \A u \in Thread : u # t => pc'[u] = pc[u] /\ ptr'[u] = ptr[u]
      /\ pc'[t] = "idle"
      /\ \A u \in Holding' : u \in Holding /\ ptr'[u] = ptr[u]
  BY <1>1 DEF SlicesInv, ThreadsTypeOK, Holding
<1>4. ThreadsTypeOK'
  <2>1. pc' \in [Thread -> {"idle", "count", "total", "clone", "store", "totals"}]
    BY <1>1 DEF SlicesInv, ThreadsTypeOK
  <2>2. ptr' \in [Thread -> Nat]
    BY <1>1 DEF SlicesInv, ThreadsTypeOK, Nil
  <2> QED
    BY <1>1, <1>3, <2>1, <2>2 DEF SlicesInv, ThreadsTypeOK, Thread
<1>5. total' + InFlight' = total + InFlight
  <2>1. /\ ThreadsTypeOK
        /\ pc[t] = "total" /\ pc' = [pc EXCEPT ![t] = "idle"] /\ "idle" # "total"
    BY <1>1 DEF SlicesInv
  <2>2. InFlight' = InFlight - 1
    BY ONLY t \in Adder, <2>1, InFlightChanges
  <2>3. InFlight \in Nat /\ total \in Nat
    BY InFlightNat DEF SlicesInv, MemoryTypeOK
  <2> QED
    BY <1>1, <2>2, <2>3
<1>6. HeldAreOpen'
  BY <1>1, <1>3 DEF SlicesInv, HeldAreOpen
<1>7. HeldAreCovered'
  BY <1>1, <1>2, <1>3, <1>5 DEF SlicesInv, HeldAreCovered
<1>8. HeldAreCurrent'
  BY <1>1, <1>2, <1>3, <1>5 DEF SlicesInv, HeldAreCurrent, Thread
<1> QED
  BY <1>2, <1>4, <1>6, <1>7, <1>8 DEF SlicesInv

\* A clone counts what its original counts, and nobody has its pointer yet.
LEMMA ClonePeriodSlicesInv ==
    ASSUME SlicesInv, NEW t \in Snapshotter, ClonePeriod(t)
    PROVE  SlicesInv'
<1> DEFINE clone == [heap[ptr[t]] EXCEPT !.frozen = FALSE]
<1>1. /\ UNCHANGED <<arrays, live, total, overlapped>>
      /\ heap' = Append(heap, clone)
      /\ pc[t] = "clone" /\ pc' = [pc EXCEPT ![t] = "store"]
      /\ ptr' = [ptr EXCEPT ![t] = Len(heap) + 1]
      /\ t \in Thread /\ t \in Holding /\ t \notin Adder
  BY SlicesAssumption DEF ClonePeriod, NewPointer, Thread, Holding
<1>2. /\ clone \in Period /\ clone.count = heap[ptr[t]].count /\ ~clone.frozen
      /\ ptr[t] \in 1..Len(heap)
  <2>1. ptr[t] \in 1..Len(heap)
    BY <1>1 DEF SlicesInv, HeldAreOpen
  <2>2. heap[ptr[t]] \in Period
    BY <2>1 DEF SlicesInv, MemoryTypeOK
  <2> QED
    BY <2>1, <2>2 DEF Period
<1> HIDE DEF clone
<1>3. /\ heap' \in Seq(Period) /\ Len(heap') = Len(heap) + 1 /\ Len(heap) \in Nat
      /\ heap'[Len(heap) + 1] = clone
      /\ \A q \in 1..Len(heap) : heap'[q] = heap[q] /\ q \in 1..Len(heap')
  BY <1>1, <1>2, AppendProperties DEF SlicesInv, MemoryTypeOK
<1>4. \A i : Item(i)' = Item(i)
  BY <1>1 DEF Item
<1>5. MemoryTypeOK' /\ ListIsWellFormed'
  BY <1>1, <1>3, <1>4 DEF SlicesInv, MemoryTypeOK, ListIsWellFormed
<1>6. /\ Counts' = Counts
      /\ Current' = Current /\ heap'[Current] = heap[Current]
  <2>1. \A i \in 1..live.len : heap'[Item(i)] = heap[Item(i)]
    BY <1>3 DEF SlicesInv, ListIsWellFormed
  <2>2. Current \in 1..Len(heap)
    BY CurrentPeriod DEF SlicesInv
  <2> QED
    BY <1>1, <1>3, <1>4, <2>1, <2>2 DEF Counts, Current
<1>7. /\ \A u \in Thread : u # t => pc'[u] = pc[u] /\ ptr'[u] = ptr[u]
      /\ pc'[t] = "store" /\ ptr'[t] = Len(heap) + 1
      /\ Holding' = Holding
  BY <1>1 DEF SlicesInv, ThreadsTypeOK, Holding
<1>8. ThreadsTypeOK'
  <2>1. pc' \in [Thread -> {"idle", "count", "total", "clone", "store", "totals"}]
    BY <1>1 DEF SlicesInv, ThreadsTypeOK
  <2>2. ptr' \in [Thread -> Nat]
    BY <1>1, <1>3 DEF SlicesInv, ThreadsTypeOK
  <2> QED
    BY <1>1, <1>7, <2>1, <2>2 DEF SlicesInv, ThreadsTypeOK, Thread
<1>9. InFlight' = InFlight
  BY <1>1, <1>7, InFlightStays DEF Thread
<1>10. ASSUME NEW u \in Holding'
       PROVE  /\ ptr'[u] \in 1..Len(heap') /\ ~heap'[ptr'[u]].frozen
              /\ heap'[ptr'[u]].count = heap[ptr[u]].count
  <2>1. CASE u = t
    BY <1>2, <1>3, <1>7, <2>1
  <2>2. CASE u # t
    <3>1. u \in Holding /\ u \in Thread /\ ptr'[u] = ptr[u] /\ ptr[u] \in 1..Len(heap)
      BY <1>7, <2>2 DEF SlicesInv, HeldAreOpen, Holding
    <3> QED
      BY <1>3, <3>1 DEF SlicesInv, HeldAreOpen
  <2> QED
    BY <2>1, <2>2
<1>11. HeldAreOpen'
  BY <1>10 DEF HeldAreOpen
<1>12. HeldAreCovered'
  BY <1>1, <1>6, <1>7, <1>9, <1>10 DEF SlicesInv, HeldAreCovered, Counted
<1>13. HeldAreCurrent'
  <2> SUFFICES ASSUME ~overlapped PROVE HeldAreCurrent'
    BY <1>1 DEF HeldAreCurrent
  <2>1. Counted(live.len)' = total' + InFlight'
    BY <1>1, <1>6, <1>9 DEF SlicesInv, HeldAreCurrent, Counted
  <2>2. \A a \in Adder, s \in Snapshotter : pc'[a] = "idle" \/ pc'[s] = "idle"
    BY <1>1, <1>7 DEF SlicesInv, HeldAreCurrent, Thread
  <2>3. \A a \in Adder : pc'[a] = "count" => ptr'[a] = Current
    BY <1>1, <1>7 DEF SlicesInv, HeldAreCurrent, Thread
  <2>4. ASSUME NEW s \in Snapshotter, pc'[s] \in {"clone", "store"}
        PROVE  heap'[ptr'[s]].count = heap'[Current].count
    <3>1. s \in Holding' /\ s \in Holding /\ pc[s] \in {"clone", "store"}
      BY <1>1, <1>7, <2>4 DEF Holding, Thread
    <3> QED
      BY <1>6, <1>10, <3>1 DEF SlicesInv, HeldAreCurrent
  <2> QED
    BY <1>6, <2>1, <2>2, <2>3, <2>4 DEF HeldAreCurrent
<1> QED
  BY <1>5, <1>8, <1>11, <1>12, <1>13 DEF SlicesInv

\* A clone takes the place of the current period, which the threads that hold it
\* may still count in.
LEMMA StoreCloneSlicesInv ==
    ASSUME SlicesInv, NEW t \in Snapshotter, StoreClone(t)
    PROVE  SlicesInv'
<1>1. /\ UNCHANGED <<heap, live, total, ptr, overlapped>>
      /\ arrays' = [arrays EXCEPT ![live.arr][Index(live, live.len)] = ptr[t]]
      /\ pc[t] = "store" /\ pc' = [pc EXCEPT ![t] = "totals"]
      /\ t \in Thread /\ t \in Holding /\ t \notin Adder
  BY SlicesAssumption DEF StoreClone, Thread, Holding
<1>2. ptr[t] \in 1..Len(heap) /\ ptr[t] \in Nat /\ ~heap[ptr[t]].frozen
  BY <1>1 DEF SlicesInv, HeldAreOpen
<1>3. live.len \in Nat /\ live.len \in 1..live.len
  BY LiveLength DEF SlicesInv
<1>4. /\ arrays' \in Seq(Seq(Nat)) /\ IsSlice(arrays', live)
      /\ ItemOf(arrays', live, live.len) = ptr[t]
      /\ \A i \in 1..live.len :
            i # live.len => ItemOf(arrays', live, i) = ItemOf(arrays, live, i)
  <2> DEFINE last == live.len
             new  == Stored(arrays, live, last, ptr[t])
  <2>1. /\ arrays \in Seq(Seq(Nat)) /\ IsSlice(arrays, live)
        /\ ptr[t] \in Nat /\ last \in 1..live.len
    BY <1>2, <1>3 DEF SlicesInv, MemoryTypeOK
  <2>2. arrays' = new
    BY <1>1 DEF Stored
  <2>3. HoldsStored(arrays, live, last, ptr[t], new)
    BY ONLY <2>1, StoredSlice
  <2> QED
    BY <2>2, <2>3 DEF HoldsStored
<1>5. /\ \A i \in 1..live.len : i # live.len => Item(i)' = Item(i)
      /\ Current' = ptr[t] /\ Item(live.len)' = ptr[t]
  BY <1>1, <1>3, <1>4 DEF Item, Current
<1>6. MemoryTypeOK'
  BY <1>1, <1>4 DEF SlicesInv, MemoryTypeOK
<1>7. ListIsWellFormed'
  <2>1. ASSUME NEW i \in 1..live.len
        PROVE  Item(i)' \in 1..Len(heap) /\ (heap[Item(i)'].frozen <=> i < live.len)
    <3>1. CASE i = live.len
      <4>1. Item(i)' = ptr[t]
        BY <1>1, <1>5, <3>1 DEF Item
      <4> QED
        BY <1>2, <1>3, <3>1, <4>1
    <3>2. CASE i # live.len
      BY <1>5, <3>2 DEF SlicesInv, ListIsWellFormed
    <3> QED
      BY <3>1, <3>2
  <2>2. ASSUME NEW i \in 1..live.len, NEW j \in 1..live.len, Item(i)' = Item(j)'
        PROVE  i = j
    <3>1. CASE i = live.len \/ j = live.len
      <4>1. ~(i < live.len) /\ ~(j < live.len)
        BY <1>3, <2>1, <2>2, <3>1
      <4> QED
        BY <1>3, <4>1
    <3>2. CASE i # live.len /\ j # live.len
      BY <1>5, <2>2, <3>2 DEF SlicesInv, ListIsWellFormed
    <3> QED
      BY <3>1, <3>2
  <2> QED
    BY <1>1, <2>1, <2>2 DEF ListIsWellFormed
<1>8. /\ Counted(live.len - 1)' = Counted(live.len - 1)
      /\ Counted(live.len)' = Counted(live.len - 1) + heap[ptr[t]].count
  <2>1. \A i \in 1..(live.len - 1) : i \in 1..live.len /\ i # live.len
    BY <1>3
  <2>2. \A i \in 1..(live.len - 1) : heap'[Item(i)'].count = heap[Item(i)].count
    BY <1>1, <1>5, <2>1
  <2>3. live' = live /\ heap'[Current'].count = heap[ptr[t]].count
    BY <1>1, <1>5
  <2> QED
    BY <1>6, <1>7, <2>2, <2>3, SameClosedPeriods DEF SlicesInv
<1>9. /\ \A u \in Thread : u # t => pc'[u] = pc[u]
      /\ pc'[t] = "totals"
      /\ \A u \in Holding' : u \in Holding /\ u # t
  BY <1>1 DEF SlicesInv, ThreadsTypeOK, Holding
<1>10. ThreadsTypeOK'
  <2>1. pc' \in [Thread -> {"idle", "count", "total", "clone", "store", "totals"}]
    BY <1>1 DEF SlicesInv, ThreadsTypeOK
  <2> QED
    BY <1>1, <1>9, <2>1 DEF SlicesInv, ThreadsTypeOK, Thread
<1>11. InFlight' = InFlight
  BY <1>1, <1>9, InFlightStays DEF Thread
<1>12. HeldAreOpen'
  BY <1>1, <1>9 DEF SlicesInv, HeldAreOpen
<1>13. HeldAreCovered'
  BY <1>1, <1>8, <1>9, <1>11 DEF SlicesInv, HeldAreCovered
<1>14. HeldAreCurrent'
  <2> SUFFICES ASSUME ~overlapped PROVE HeldAreCurrent'
    BY <1>1 DEF HeldAreCurrent
  <2>1. /\ heap[ptr[t]].count = heap[Current].count
        /\ Counted(live.len) = Counted(live.len - 1) + heap[Current].count
        /\ Counted(live.len) = total + InFlight
    BY <1>1, CurrentPeriod DEF SlicesInv, HeldAreCurrent
  <2>2. Counted(live.len)' = total' + InFlight'
    BY <1>1, <1>8, <1>11, <2>1
  <2>3. \A a \in Adder : pc[a] = "idle" /\ pc'[a] = "idle"
    BY <1>1, <1>9 DEF SlicesInv, HeldAreCurrent, Thread
  <2>4. \A s \in Snapshotter :
            pc'[s] \in {"clone", "store"} => heap[ptr[s]].count = heap[Current].count
    BY <1>1, <1>9 DEF SlicesInv, HeldAreCurrent, Thread
  <2>5. \A s \in Snapshotter :
            pc'[s] \in {"clone", "store"} => heap'[ptr'[s]].count = heap'[Current'].count
    BY <1>1, <1>5, <2>1, <2>4
  <2> QED
    BY <1>1, <2>2, <2>3, <2>5 DEF HeldAreCurrent
<1> QED
  BY <1>6, <1>7, <1>10, <1>12, <1>13, <1>14 DEF SlicesInv

\* A call that ends after its snapshot, and the steps that touch neither the list
\* nor a call: a writer that starts to wait, and callers that are done with what
\* they were given.
LEMMA NothingHeldChangesSlicesInv ==
    ASSUME SlicesInv,
           \/ \E t \in Snapshotter : ReturnSnapshot(t) \/ DropSnapshot(t)
           \/ LockForWriting
           \/ DropBatch
           \/ UNCHANGED vars
    PROVE  SlicesInv'
<1>1. /\ UNCHANGED <<heap, arrays, live, total, overlapped>>
      /\ \/ UNCHANGED <<pc, ptr>>
         \/ \E t \in Snapshotter : /\ pc[t] = "totals" /\ pc' = [pc EXCEPT ![t] = "idle"]
                                   /\ ptr' = [ptr EXCEPT ![t] = Nil]
  BY DEF ReturnSnapshot, DropSnapshot, LockForWriting, DropBatch, vars, memory
<1>2. ThreadsTypeOK'
  <2>1. ASSUME NEW t \in Snapshotter, pc' = [pc EXCEPT ![t] = "idle"],
               ptr' = [ptr EXCEPT ![t] = Nil]
        PROVE  ThreadsTypeOK'
    BY <1>1, <2>1, SlicesAssumption DEF SlicesInv, ThreadsTypeOK, Thread, Nil
  <2> QED
    BY <1>1, <2>1 DEF SlicesInv, ThreadsTypeOK
<1>3. /\ \A a \in Adder : pc'[a] = pc[a] /\ ptr'[a] = ptr[a]
      /\ \A s \in Snapshotter : \/ pc'[s] = pc[s] /\ ptr'[s] = ptr[s]
                                \/ pc'[s] = "idle"
      /\ \A t \in Holding' : t \in Holding /\ ptr'[t] = ptr[t]
  BY <1>1, SlicesAssumption DEF SlicesInv, ThreadsTypeOK, Holding, Thread
<1>4. /\ ListIsWellFormed' /\ MemoryTypeOK' /\ InFlight' = InFlight
      /\ Current' = Current /\ \A n : Counted(n)' = Counted(n)
  BY <1>1, <1>3, ListStays, InFlightStays DEF SlicesInv, MemoryTypeOK
<1>5. HeldAreOpen' /\ HeldAreCovered'
  BY <1>1, <1>3, <1>4 DEF SlicesInv, HeldAreOpen, HeldAreCovered
<1>6. HeldAreCurrent'
  BY <1>1, <1>3, <1>4 DEF SlicesInv, HeldAreCurrent
<1> QED
  BY <1>2, <1>4, <1>5, <1>6 DEF SlicesInv

-----------------------------------------------------------------------------
(* The steps of the writer.                                                 *)

\* A rotation or a purge, as far as the list goes: n of its periods are left,
\* those behind the first k, and a current one follows them.  Totals loses what
\* the others count.
HeapGrows ==
    /\ heap' \in Seq(Period)
    /\ \A p \in 1..Len(heap) : /\ p \in 1..Len(heap')
                               /\ heap'[p].count = heap[p].count
                               /\ heap[p].frozen => heap'[p].frozen

ListLeaves(k, n) ==
    /\ k + n <= live.len
    /\ k + n = live.len => heap'[Current].frozen
    /\ arrays' \in Seq(Seq(Nat)) /\ IsSlice(arrays', live') /\ live'.len = n + 1
    /\ \A i \in 1..n : Item(i)' = Item(i + k)
    /\ Current' \in 1..Len(heap') /\ ~heap'[Current'].frozen

TotalsLose(k, n) ==
    /\ total' \in Int
    /\ total' + Counted(live.len)
          = total + (Counted(k + n) - Counted(k)) + heap'[Current'].count

LEMMA WriterSlicesInv ==
    ASSUME SlicesInv, Locked, UNCHANGED <<pc, ptr, overlapped>>, HeapGrows,
           NEW k \in Nat, NEW n \in Nat, ListLeaves(k, n), TotalsLose(k, n)
    PROVE  SlicesInv'
<1>0. /\ k + n <= live.len
      /\ heap' \in Seq(Period)
      /\ \A p \in 1..Len(heap) : /\ p \in 1..Len(heap')
                                 /\ heap'[p].count = heap[p].count
                                 /\ heap[p].frozen => heap'[p].frozen
      /\ k + n = live.len => heap'[Current].frozen
      /\ arrays' \in Seq(Seq(Nat)) /\ IsSlice(arrays', live') /\ live'.len = n + 1
      /\ \A i \in 1..n : Item(i)' = Item(i + k)
      /\ Current' \in 1..Len(heap') /\ ~heap'[Current'].frozen
  BY DEF HeapGrows, ListLeaves
<1>1. /\ live.len \in Nat /\ live.len - 1 \in Nat /\ Current \in 1..Len(heap)
      /\ live'.len = n + 1
  BY <1>0, CurrentPeriod DEF SlicesInv
<1>2. ASSUME NEW i \in 1..n
      PROVE  /\ Item(i)' = Item(i + k) /\ i + k \in 1..live.len
             /\ Item(i)' \in 1..Len(heap') /\ heap'[Item(i)'].frozen
             /\ heap'[Item(i)'].count = heap[Item(i + k)].count
  <2>1. i + k \in 1..live.len /\ (i + k = live.len => k + n = live.len)
    <3>1. k + n <= live.len /\ live.len \in Nat
      BY <1>0, <1>1
    <3> QED
      BY ONLY k \in Nat, n \in Nat, i \in 1..n, <3>1
  <2>2. Item(i + k) \in 1..Len(heap) /\ (heap[Item(i + k)].frozen <=> i + k < live.len)
    BY <2>1 DEF SlicesInv, ListIsWellFormed
  <2>3. heap'[Item(i + k)].frozen
    <3>1. CASE i + k = live.len
      BY <1>0, <2>1, <3>1 DEF Current
    <3>2. CASE i + k # live.len
      <4>1. i + k < live.len
        BY ONLY <1>1, <2>1, <3>2
      <4> QED
        BY <1>0, <2>2, <4>1
    <3> QED
      BY <3>1, <3>2
  <2> QED
    BY <1>0, <2>1, <2>2, <2>3
<1>3. Item(n + 1)' = Current'
  BY <1>0 DEF Current
<1>4. /\ \A i \in 1..(n + 1) : heap'[Item(i)'].count \in Nat
      /\ \A i \in 1..(n + 1) : Counts'[i] = heap'[Item(i)'].count
  <2>1. ASSUME NEW i \in 1..(n + 1) PROVE Item(i)' \in 1..Len(heap')
    <3>1. i \in 1..n \/ i = n + 1
      OBVIOUS
    <3> QED
      BY <1>0, <1>2, <1>3, <3>1 DEF Item
  <2>2. \A i \in 1..(n + 1) : heap'[Item(i)'] \in Period
    BY <1>0, <2>1
  <2> QED
    BY <1>1, <2>2 DEF Period, Counts
<1>5. ListIsWellFormed'
  <2>1. ASSUME NEW i \in 1..(n + 1)
        PROVE  Item(i)' \in 1..Len(heap') /\ (heap'[Item(i)'].frozen <=> i < n + 1)
    <3>1. \/ i \in 1..n /\ i < n + 1
          \/ i = n + 1 /\ ~(i < n + 1)
      BY ONLY n \in Nat, i \in 1..(n + 1)
    <3>2. CASE i \in 1..n /\ i < n + 1
      BY <1>2, <3>2
    <3>3. CASE i = n + 1 /\ ~(i < n + 1)
      BY <1>0, <1>3, <3>3 DEF Item
    <3> QED
      BY <3>1, <3>2, <3>3
  <2>2. ASSUME NEW i \in 1..(n + 1), NEW j \in 1..(n + 1), Item(i)' = Item(j)'
        PROVE  i = j
    <3>1. i < n + 1 <=> j < n + 1
      BY <2>1, <2>2
    <3>2. CASE i < n + 1
      <4>1. i \in 1..n /\ j \in 1..n
        BY <3>1, <3>2
      <4>2. i + k = j + k
        BY <1>2, <2>2, <4>1 DEF SlicesInv, ListIsWellFormed
      <4> QED
        BY <4>1, <4>2
    <3>3. CASE ~(i < n + 1)
      <4>1. i = n + 1 /\ j = n + 1
        BY ONLY n \in Nat, i \in 1..(n + 1), j \in 1..(n + 1), <3>1, <3>3
      <4> QED
        BY <4>1
    <3> QED
      BY <3>2, <3>3
  <2> QED
    BY <1>1, <2>1, <2>2 DEF ListIsWellFormed
<1>6. Counted(k + n) = Counted(k) + PrefixSum(Counts', n)
  <2>1. k + n \in Nat /\ k \in 0..(k + n) /\ (k + n) - k = n
    OBVIOUS
  <2>2. \A i \in 1..(k + n) : Counts[i] \in Int
    <3>1. \A i \in 1..(k + n) : i \in 1..live.len
      BY ONLY k \in Nat, n \in Nat, <1>0, <1>1
    <3>2. Counts \in [1..live.len -> Nat]
      BY CountsType DEF SlicesInv
    <3> QED
      BY ONLY <3>1, <3>2
  <2>3. \A i \in 1..((k + n) - k) : Counts'[i] = Counts[i + k]
    <3>1. ASSUME NEW i \in 1..n PROVE Counts'[i] = Counts[i + k]
      <4>1. i \in 1..(n + 1)
        OBVIOUS
      <4>2. Counts'[i] = heap'[Item(i)'].count
        BY <1>4, <4>1
      <4> QED
        BY <1>2, <4>2 DEF Counts
    <3> QED
      BY <2>1, <3>1
  <2>4. PrefixSum(Counts, k + n) = PrefixSum(Counts, k) + PrefixSum(Counts', (k + n) - k)
    BY ONLY <2>1, <2>2, <2>3, PrefixSumShift
  <2> QED
    BY <2>1, <2>4 DEF Counted
<1>7. /\ Counted(live.len)' = PrefixSum(Counts', n) + heap'[Current'].count
      /\ Counted(live.len)' \in Nat
  <2>1. \A i \in 1..(n + 1) : Counts'[i] \in Nat /\ Counts'[i] \in Int
    <3> DEFINE c(i) == heap'[Item(i)'].count
    <3>1. \A i \in 1..(n + 1) : c(i) \in Nat /\ Counts'[i] = c(i)
      BY <1>4
    <3> HIDE DEF c
    <3> QED
      BY ONLY <3>1
  <2>2. n + 1 \in Nat /\ n + 1 \in 1..(n + 1)
    OBVIOUS
  <2>3. PrefixSum(Counts', n + 1) = PrefixSum(Counts', n) + Counts'[n + 1]
    BY <2>1, PrefixSumAppend
  <2>4. PrefixSum(Counts', n + 1) \in Nat
    BY <2>1, <2>2, PrefixSumBounds
  <2> QED
    BY <1>1, <1>3, <1>4, <2>2, <2>3, <2>4 DEF Counted
<1>8. InFlight = 0 /\ InFlight' = 0 /\ Holding' = {} /\ \A t \in Thread : pc'[t] = "idle"
  <2>1. Readers = {} /\ Readers' = {} /\ \A t \in Thread : pc'[t] = "idle"
    BY DEF Locked, Readers
  <2>2. (Readers = {} => InFlight = 0)'
    BY InFlightNat, PTL
  <2> QED
    BY <2>1, <2>2, InFlightNat DEF Holding
<1>9. /\ Counted(live.len) \in Nat /\ Counted(k) \in Nat /\ Counted(k + n) \in Nat
      /\ total \in Nat /\ Counted(live.len) <= total
      /\ ~overlapped => Counted(live.len) = total
      /\ PrefixSum(Counts', n) \in Int /\ heap'[Current'].count \in Nat
  <2>1. k \in 0..live.len /\ k + n \in 0..live.len /\ live.len \in 0..live.len
    <3>1. k + n <= live.len /\ live.len \in Nat
      BY <1>0, <1>1
    <3> QED
      BY ONLY k \in Nat, n \in Nat, <3>1
  <2>2. Counted(live.len) \in Nat /\ Counted(k) \in Nat /\ Counted(k + n) \in Nat
    BY <2>1, CountedType DEF SlicesInv
  <2>3. total \in Nat /\ Counted(live.len) <= total + InFlight
        /\ (~overlapped => Counted(live.len) = total + InFlight)
    BY DEF SlicesInv, MemoryTypeOK, HeldAreCovered, HeldAreCurrent
  <2>4. PrefixSum(Counts', n) \in Int
    <3>1. \A i \in 1..n : Counts'[i] \in Int
      <4>1. \A i \in 1..n : i \in 1..(n + 1)
        BY ONLY n \in Nat
      <4> DEFINE c(i) == heap'[Item(i)'].count
      <4>2. \A i \in 1..(n + 1) : c(i) \in Nat /\ Counts'[i] = c(i)
        BY <1>4
      <4> HIDE DEF c
      <4> QED
        BY ONLY <4>1, <4>2
    <3> QED
      BY <3>1, PrefixSumInt
  <2>5. n + 1 \in 1..(n + 1)
    OBVIOUS
  <2> QED
    BY <1>3, <1>4, <1>8, <2>2, <2>3, <2>4, <2>5
<1>10. /\ Counted(live.len)' <= total' /\ total' \in Nat
       /\ ~overlapped => Counted(live.len)' = total'
  <2>1. /\ total' + Counted(live.len) = total + (PrefixSum(Counts', n) + heap'[Current'].count)
        /\ total' \in Int
    <3>1. /\ total' + Counted(live.len)
               = total + (Counted(k + n) - Counted(k)) + heap'[Current'].count
          /\ total' \in Int
      BY DEF TotalsLose
    <3>2. Counted(k + n) - Counted(k) = PrefixSum(Counts', n)
      BY ONLY <1>6, <1>9
    <3> QED
      BY ONLY <1>9, <3>1, <3>2
  <2>2. total' + Counted(live.len) = total + Counted(live.len)'
    BY ONLY <1>7, <2>1
  <2>3. Counted(live.len)' <= total'
    BY ONLY <1>7, <1>9, <2>1, <2>2
  <2>4. Counted(live.len) = total => Counted(live.len)' = total'
    <3>1. /\ Counted(live.len) \in Nat /\ total \in Nat
          /\ Counted(live.len)' \in Nat /\ total' \in Int
      BY <1>7, <1>9, <2>1
    <3> QED
      BY ONLY <2>2, <3>1
  <2>5. total' \in Nat
    BY ONLY <1>7, <2>1, <2>3
  <2> QED
    BY <1>9, <2>3, <2>4, <2>5
<1>11. MemoryTypeOK'
  BY <1>0, <1>10 DEF MemoryTypeOK
<1>12. ThreadsTypeOK' /\ HeldAreOpen' /\ HeldAreCovered'
  BY <1>8, <1>10 DEF SlicesInv, ThreadsTypeOK, HeldAreOpen, HeldAreCovered
<1>13. HeldAreCurrent'
  BY <1>8, <1>10 DEF HeldAreCurrent, Thread
<1> QED
  BY <1>5, <1>11, <1>12, <1>13 DEF SlicesInv

\* What a writer step finds: the list as the lemmas about slices and sums take it.
LEMMA WriterFinds ==
    ASSUME SlicesInv
    PROVE  /\ arrays \in Seq(Seq(Nat)) /\ IsSlice(arrays, live)
           /\ heap \in Seq(Period) /\ total \in Nat
           /\ live.len \in Nat /\ live.len \in 1..live.len
           /\ NewPointer \in Nat /\ NewPointer = Len(heap) + 1
           /\ Current \in 1..Len(heap) /\ Current \in Nat /\ ~heap[Current].frozen
           /\ heap[Current].count \in Nat
           /\ Counted(0) = 0 /\ \A i \in 0..live.len : Counted(i) \in Nat
           /\ Counted(live.len) = Counted(live.len - 1) + heap[Current].count
           /\ Entry(live, live.len) = Current
<1>1. NewPointer \in Nat /\ NewPointer = Len(heap) + 1
  BY DEF SlicesInv, MemoryTypeOK, NewPointer
<1> QED
  BY <1>1, CurrentPeriod, LiveLength, CountedType, EntryIsItem
     DEF SlicesInv, MemoryTypeOK, Current

\* The heap with a new period behind the others, some of which may be closed.
LEMMA GrownHeap ==
    ASSUME SlicesInv, NEW closed \in Seq(Period), Len(closed) = Len(heap),
           \A p \in 1..Len(heap) : /\ closed[p].count = heap[p].count
                                   /\ heap[p].frozen => closed[p].frozen,
           heap' = Append(closed, NewPeriod)
    PROVE  /\ HeapGrows
           /\ \A p \in 1..Len(heap) : heap'[p] = closed[p]
           /\ NewPointer \in 1..Len(heap') /\ ~heap'[NewPointer].frozen
           /\ heap'[NewPointer].count = 0
<1>1. NewPeriod \in Period /\ NewPeriod.count = 0 /\ NewPeriod.frozen = FALSE
  BY DEF NewPeriod, Period
<1>2. /\ heap' \in Seq(Period) /\ Len(heap') = Len(heap) + 1 /\ Len(heap) \in Nat
      /\ \A p \in 1..Len(heap) : heap'[p] = closed[p]
      /\ heap'[Len(heap) + 1] = NewPeriod
  BY <1>1, AppendProperties DEF SlicesInv, MemoryTypeOK
<1>3. \A p \in 1..Len(heap) : p \in 1..Len(heap')
  BY <1>2
<1> QED
  BY <1>1, <1>2, <1>3 DEF HeapGrows, NewPointer

\* The heap with the current period closed.
LEMMA ClosedCurrent ==
    ASSUME SlicesInv
    PROVE  LET closed == [heap EXCEPT ![Current].frozen = TRUE]
           IN  /\ closed \in Seq(Period) /\ Len(closed) = Len(heap)
               /\ \A p \in 1..Len(heap) : /\ closed[p].count = heap[p].count
                                          /\ heap[p].frozen => closed[p].frozen
               /\ closed[Current].frozen
<1> DEFINE period == [heap[Current] EXCEPT !.frozen = TRUE]
<1>1. Current \in 1..Len(heap) /\ heap \in Seq(Period)
  BY WriterFinds
<1>2. heap[Current] \in Period
  BY <1>1
<1>3. period \in Period /\ period.frozen = TRUE /\ period.count = heap[Current].count
  BY <1>2 DEF Period
<1>4. [heap EXCEPT ![Current].frozen = TRUE] = [heap EXCEPT ![Current] = period]
  OBVIOUS
<1> HIDE DEF period
<1> DEFINE closed == [heap EXCEPT ![Current] = period]
<1>5. /\ closed \in Seq(Period) /\ Len(closed) = Len(heap)
      /\ closed[Current] = period
      /\ \A p \in 1..Len(heap) : p # Current => closed[p] = heap[p]
  BY <1>1, <1>3, ExceptSeq
<1>6. ASSUME NEW p \in 1..Len(heap)
      PROVE  closed[p].count = heap[p].count /\ (heap[p].frozen => closed[p].frozen)
  <2>1. CASE p = Current
    BY <1>3, <1>5, <2>1
  <2>2. CASE p # Current
    BY <1>5, <2>2
  <2> QED
    BY <2>1, <2>2
<1> QED
  BY <1>3, <1>4, <1>5, <1>6

\* No period is closed or comes to the list.
LEMMA SameHeap ==
    ASSUME SlicesInv, UNCHANGED heap PROVE HeapGrows
BY DEF SlicesInv, MemoryTypeOK, HeapGrows

LEMMA RotateCloseSlicesInv ==
    ASSUME SlicesInv, NEW k \in 0..live.len, RotateClose(k)
    PROVE  SlicesInv'
<1> DEFINE closed == Appended(arrays, live, NewPointer)
           kept   == Kept(closed.arrays, closed.slice, k)
           frozen == [heap EXCEPT ![Current].frozen = TRUE]
           n      == live.len - k
<1>1. /\ Locked /\ UNCHANGED <<pc, ptr, overlapped>>
      /\ heap' = Append(frozen, NewPeriod)
      /\ arrays' = kept.arrays /\ live' = kept.slice
      /\ total' = total - CountOf(1, k)
  BY WriterFinds DEF RotateClose
<1>2. /\ frozen \in Seq(Period) /\ Len(frozen) = Len(heap)
      /\ \A p \in 1..Len(heap) : /\ frozen[p].count = heap[p].count
                                 /\ heap[p].frozen => frozen[p].frozen
      /\ frozen[Current].frozen
  BY ClosedCurrent
<1> HIDE DEF frozen
<1>3. /\ HeapGrows
      /\ \A p \in 1..Len(heap) : heap'[p] = frozen[p]
      /\ NewPointer \in 1..Len(heap') /\ ~heap'[NewPointer].frozen
      /\ heap'[NewPointer].count = 0
  BY <1>1, <1>2, GrownHeap
<1>4. /\ k \in Nat /\ n \in Nat /\ k + n = live.len /\ live.len \in Nat
      /\ n + 1 \in 1..(live.len + 1 - k) /\ (n + 1) + k = live.len + 1
      /\ live.len + 1 - k = n + 1
      /\ \A i \in 1..n : i \in 1..(live.len + 1 - k) /\ i + k \in 1..live.len
  <2>1. live.len \in Nat
    BY WriterFinds
  <2> QED
    BY ONLY <2>1, k \in 0..live.len
<1>5. /\ closed.arrays \in Seq(Seq(Nat)) /\ IsSlice(closed.arrays, closed.slice)
      /\ closed.slice.len = live.len + 1
      /\ \A i \in 1..live.len :
            ItemOf(closed.arrays, closed.slice, i) = ItemOf(arrays, live, i)
      /\ ItemOf(closed.arrays, closed.slice, live.len + 1) = NewPointer
  <2>1. arrays \in Seq(Seq(Nat)) /\ IsSlice(arrays, live) /\ NewPointer \in Nat
    BY WriterFinds
  <2>2. HoldsAppended(arrays, live, NewPointer, closed)
    BY ONLY <2>1, AppendedSlice
  <2> QED
    BY <2>2 DEF HoldsAppended
<1> HIDE DEF closed
<1>6. k \in 0..closed.slice.len
  BY <1>4, <1>5
<1>7. /\ arrays' \in Seq(Seq(Nat)) /\ IsSlice(arrays', live')
      /\ live'.len = closed.slice.len - k
      /\ \A i \in 1..(closed.slice.len - k) :
            ItemOf(arrays', live', i) = ItemOf(closed.arrays, closed.slice, i + k)
  <2>1. /\ kept.arrays \in Seq(Seq(Nat)) /\ IsSlice(kept.arrays, kept.slice)
        /\ kept.slice.len = closed.slice.len - k
        /\ \A i \in 1..(closed.slice.len - k) :
              ItemOf(kept.arrays, kept.slice, i) = ItemOf(closed.arrays, closed.slice, i + k)
    BY <1>5, <1>6, KeptSlice
  <2> QED
    BY <1>1, <2>1
<1> HIDE DEF n
<1>8. /\ live'.len = n + 1
      /\ \A i \in 1..n : Item(i)' = Item(i + k)
      /\ Current' = NewPointer
  BY <1>4, <1>5, <1>7 DEF Item, Current
<1>9. ListLeaves(k, n)
  <2>1. heap'[Current].frozen
    BY <1>2, <1>3, WriterFinds
  <2> QED
    BY <1>3, <1>4, <1>7, <1>8, <2>1 DEF ListLeaves
<1>10. TotalsLose(k, n)
  <2>1. /\ CountOf(1, k) = Counted(k) /\ Counted(k) \in Nat /\ Counted(live.len) \in Nat
        /\ total \in Nat
    <3>1. k \in 0..live.len /\ live.len \in 0..live.len
      BY <1>4
    <3> QED
      BY <3>1, WriterFinds, CountOfAll DEF SlicesInv
  <2>2. heap'[Current'].count = 0 /\ k + n = live.len
    BY <1>3, <1>4, <1>8
  <2> QED
    BY <1>1, <2>1, <2>2 DEF TotalsLose
<1> QED
  BY <1>1, <1>3, <1>4, <1>9, <1>10, WriterSlicesInv

LEMMA RotateThrowAwaySlicesInv ==
    ASSUME SlicesInv, NEW k \in 0..live.len, RotateThrowAway(k)
    PROVE  SlicesInv'
<1> DEFINE last   == live.len
           thrown == Stored(arrays, live, last, NewPointer)
           kept   == Kept(thrown, live, k)
           frozen == [heap EXCEPT ![Current].frozen = TRUE]
           n      == live.len - 1 - k
<1>1. /\ Locked /\ UNCHANGED <<pc, ptr, overlapped>> /\ k < live.len
      /\ heap' = Append(frozen, NewPeriod)
      /\ arrays' = kept.arrays /\ live' = kept.slice
      /\ total' = total - heap[Current].count - CountOf(1, k)
  BY WriterFinds DEF RotateThrowAway, Stored
<1>2. /\ frozen \in Seq(Period) /\ Len(frozen) = Len(heap)
      /\ \A p \in 1..Len(heap) : /\ frozen[p].count = heap[p].count
                                 /\ heap[p].frozen => frozen[p].frozen
  BY ClosedCurrent
<1> HIDE DEF frozen
<1>3. /\ HeapGrows
      /\ NewPointer \in 1..Len(heap') /\ ~heap'[NewPointer].frozen
      /\ heap'[NewPointer].count = 0
  BY <1>1, <1>2, GrownHeap
<1>4. /\ k \in Nat /\ n \in Nat /\ k + n = live.len - 1 /\ live.len \in Nat
      /\ n + 1 \in 1..(live.len - k) /\ (n + 1) + k = live.len
      /\ live.len - k = n + 1
      /\ \A i \in 1..n : i \in 1..(live.len - k) /\ i + k \in 1..live.len /\ i + k # live.len
      /\ last = live.len
  <2>1. live.len \in Nat /\ k < live.len
    BY <1>1, WriterFinds
  <2> QED
    BY ONLY <2>1, k \in 0..live.len
<1> HIDE DEF last
<1>5. /\ thrown \in Seq(Seq(Nat)) /\ IsSlice(thrown, live)
      /\ ItemOf(thrown, live, last) = NewPointer
      /\ \A i \in 1..live.len :
            i # last => ItemOf(thrown, live, i) = ItemOf(arrays, live, i)
  <2>1. /\ arrays \in Seq(Seq(Nat)) /\ IsSlice(arrays, live)
        /\ NewPointer \in Nat /\ last \in 1..live.len
    BY <1>4, WriterFinds
  <2>2. HoldsStored(arrays, live, last, NewPointer, thrown)
    BY ONLY <2>1, StoredSlice
  <2> QED
    BY <2>2 DEF HoldsStored
<1> HIDE DEF thrown
<1>6. /\ arrays' \in Seq(Seq(Nat)) /\ IsSlice(arrays', live')
      /\ live'.len = live.len - k
      /\ \A i \in 1..(live.len - k) :
            ItemOf(arrays', live', i) = ItemOf(thrown, live, i + k)
  <2>1. /\ kept.arrays \in Seq(Seq(Nat)) /\ IsSlice(kept.arrays, kept.slice)
        /\ kept.slice.len = live.len - k
        /\ \A i \in 1..(live.len - k) :
              ItemOf(kept.arrays, kept.slice, i) = ItemOf(thrown, live, i + k)
    BY <1>5, KeptSlice
  <2> QED
    BY <1>1, <2>1
<1> HIDE DEF n
<1>7. /\ live'.len = n + 1
      /\ \A i \in 1..n : Item(i)' = Item(i + k)
      /\ Current' = NewPointer
  BY <1>4, <1>5, <1>6 DEF Item, Current
<1>8. ListLeaves(k, n)
  BY <1>3, <1>4, <1>6, <1>7 DEF ListLeaves
<1>9. TotalsLose(k, n)
  <2>1. /\ CountOf(1, k) = Counted(k) /\ Counted(k) \in Nat /\ Counted(live.len - 1) \in Nat
        /\ total \in Nat /\ heap[Current].count \in Nat
        /\ Counted(live.len) = Counted(live.len - 1) + heap[Current].count
    <3>1. k \in 0..live.len /\ live.len - 1 \in 0..live.len
      BY <1>4
    <3> QED
      BY <3>1, WriterFinds, CountOfAll DEF SlicesInv
  <2>2. heap'[Current'].count = 0 /\ k + n = live.len - 1
    BY <1>3, <1>4, <1>7
  <2> QED
    BY <1>1, <2>1, <2>2 DEF TotalsLose
<1> QED
  BY <1>1, <1>3, <1>4, <1>8, <1>9, WriterSlicesInv

\* The first k periods go, the current one stays.
LEMMA OldestGoSlicesInv ==
    ASSUME SlicesInv, Locked, UNCHANGED <<heap, pc, ptr, overlapped>>,
           NEW k \in 0..live.len, k < live.len,
           arrays' \in Seq(Seq(Nat)), IsSlice(arrays', live'), live'.len = live.len - k,
           \A i \in 1..(live.len - k) :
              ItemOf(arrays', live', i) = ItemOf(arrays, live, i + k),
           total' = total - CountOf(1, k)
    PROVE  SlicesInv'
<1> DEFINE n == live.len - 1 - k
<1>1. /\ k \in Nat /\ n \in Nat /\ k + n = live.len - 1 /\ live.len \in Nat
      /\ n + 1 \in 1..(live.len - k) /\ (n + 1) + k = live.len
      /\ live.len - k = n + 1
      /\ \A i \in 1..n : i \in 1..(live.len - k)
  <2>1. live.len \in Nat /\ k < live.len
    BY WriterFinds
  <2> QED
    BY ONLY <2>1, k \in 0..live.len
<1>2. HeapGrows /\ Current \in 1..Len(heap') /\ ~heap'[Current].frozen
  BY SameHeap, WriterFinds
<1> HIDE DEF n
<1>3. /\ live'.len = n + 1
      /\ \A i \in 1..n : Item(i)' = Item(i + k)
      /\ Current' = Current
  BY <1>1 DEF Item, Current
<1>4. ListLeaves(k, n)
  BY <1>1, <1>2, <1>3 DEF ListLeaves
<1>5. TotalsLose(k, n)
  <2>1. /\ CountOf(1, k) = Counted(k) /\ Counted(k) \in Nat /\ Counted(live.len - 1) \in Nat
        /\ total \in Nat /\ heap[Current].count \in Nat
        /\ Counted(live.len) = Counted(live.len - 1) + heap[Current].count
    <3>1. k \in 0..live.len /\ live.len - 1 \in 0..live.len
      BY <1>1
    <3> QED
      BY <3>1, WriterFinds, CountOfAll DEF SlicesInv
  <2>2. heap'[Current'].count = heap[Current].count /\ k + n = live.len - 1
    BY <1>1, <1>3
  <2> QED
    BY <2>1, <2>2 DEF TotalsLose
<1> QED
  BY <1>1, <1>2, <1>4, <1>5, WriterSlicesInv

LEMMA KeepRecentSlicesInv ==
    ASSUME SlicesInv, NEW k \in 0..live.len, KeepRecent(k)
    PROVE  SlicesInv'
<1> DEFINE kept == Kept(arrays, live, k)
<1>1. /\ Locked /\ UNCHANGED <<heap, pc, ptr, overlapped>> /\ k < live.len
      /\ arrays' = kept.arrays /\ live' = kept.slice
      /\ total' = total - CountOf(1, k)
  BY DEF KeepRecent
<1>2. /\ kept.arrays \in Seq(Seq(Nat)) /\ IsSlice(kept.arrays, kept.slice)
      /\ kept.slice.len = live.len - k
      /\ \A i \in 1..(live.len - k) :
            ItemOf(kept.arrays, kept.slice, i) = ItemOf(arrays, live, i + k)
  <2>1. arrays \in Seq(Seq(Nat)) /\ IsSlice(arrays, live)
    BY WriterFinds
  <2> QED
    BY ONLY k \in 0..live.len, <2>1, KeptSlice
<1> QED
  BY <1>1, <1>2, OldestGoSlicesInv

LEMMA PurgeOldestSlicesInv ==
    ASSUME SlicesInv, NEW k \in 0..live.len, PurgeOldest(k)
    PROVE  SlicesInv'
<1> DEFINE dropped == Dropped(live, k)
<1>1. /\ Locked /\ UNCHANGED <<heap, arrays, pc, ptr, overlapped>> /\ k < live.len
      /\ live' = dropped
      /\ total' = total - CountOf(1, k)
  BY DEF PurgeOldest
<1>2. /\ arrays \in Seq(Seq(Nat)) /\ IsSlice(arrays, dropped)
      /\ dropped.len = live.len - k
      /\ \A i \in 1..(live.len - k) :
            ItemOf(arrays, dropped, i) = ItemOf(arrays, live, i + k)
  <2>1. arrays \in Seq(Seq(Nat)) /\ IsSlice(arrays, live)
    BY WriterFinds
  <2> QED
    BY ONLY k \in 0..live.len, <2>1, DroppedSlice
<1> QED
  BY <1>1, <1>2, OldestGoSlicesInv

LEMMA PurgeNewestClosedSlicesInv ==
    ASSUME SlicesInv, NEW k \in 0..live.len, PurgeNewestClosed(k)
    PROVE  SlicesInv'
<1> DEFINE n     == live.len - 1 - k
           short == Shortened(live, n)
           back  == Appended(arrays, short, Current)
<1>1. /\ Locked /\ UNCHANGED <<heap, pc, ptr, overlapped>> /\ k < live.len
      /\ arrays' = back.arrays /\ live' = back.slice
      /\ total' = total - CountOf(live.len - k, live.len - 1)
  BY WriterFinds DEF PurgeNewestClosed, Shortened
<1>2. /\ n \in Nat /\ n \in 0..live.len /\ n <= live.len - 1 /\ live.len \in Nat
      /\ live.len - k = n + 1 /\ live.len - k \in 1..((live.len - 1) + 1)
      /\ live.len - 1 \in 0..live.len /\ (n + 1) - 1 = n
      /\ \A i \in 1..n : i + 0 = i /\ i \in Nat
  <2>1. live.len \in Nat /\ k < live.len
    BY <1>1, WriterFinds
  <2> QED
    BY ONLY <2>1, k \in 0..live.len
<1> HIDE DEF n
<1>3. /\ IsSlice(arrays, short) /\ short.len = n
      /\ \A i \in 1..n : ItemOf(arrays, short, i) = ItemOf(arrays, live, i)
  <2>1. arrays \in Seq(Seq(Nat)) /\ IsSlice(arrays, live) /\ n \in 0..live.len
    BY <1>2, WriterFinds
  <2> QED
    BY ONLY <2>1, ShortenedSlice
<1> HIDE DEF short
<1>4. /\ back.arrays \in Seq(Seq(Nat)) /\ IsSlice(back.arrays, back.slice)
      /\ back.slice.len = short.len + 1
      /\ \A i \in 1..short.len :
            ItemOf(back.arrays, back.slice, i) = ItemOf(arrays, short, i)
      /\ ItemOf(back.arrays, back.slice, short.len + 1) = Current
  <2>1. arrays \in Seq(Seq(Nat)) /\ IsSlice(arrays, short) /\ Current \in Nat
    BY <1>3, WriterFinds
  <2>2. HoldsAppended(arrays, short, Current, back)
    BY ONLY <2>1, AppendedSlice
  <2> QED
    BY <2>2 DEF HoldsAppended
<1> HIDE DEF back
<1>5. /\ arrays' \in Seq(Seq(Nat)) /\ IsSlice(arrays', live') /\ live'.len = n + 1
      /\ \A i \in 1..n : Item(i)' = Item(i)
      /\ Current' = Current
  BY <1>1, <1>3, <1>4 DEF Item, Current
<1>6. HeapGrows /\ Current \in 1..Len(heap') /\ ~heap'[Current].frozen
  BY <1>1, SameHeap, WriterFinds
<1>7. ListLeaves(0, n)
  <2>1. \A i \in 1..n : Item(i)' = Item(i + 0)
    BY <1>2, <1>5
  <2>2. 0 + n <= live.len /\ 0 + n # live.len
    BY <1>2
  <2> QED
    BY <1>5, <1>6, <2>1, <2>2 DEF ListLeaves
<1>8. TotalsLose(0, n)
  <2>1. CountOf(live.len - k, live.len - 1) = Counted(live.len - 1) - Counted((live.len - k) - 1)
    BY <1>2, CountOfIsCounted DEF SlicesInv
  <2>2. (live.len - k) - 1 = n
    BY <1>2
  <2>3. /\ Counted(live.len - 1) \in Nat /\ Counted(n) \in Nat /\ Counted(0) = 0
        /\ total \in Nat /\ heap[Current].count \in Nat
        /\ Counted(live.len) = Counted(live.len - 1) + heap[Current].count
    BY <1>2, WriterFinds
  <2>4. heap'[Current'].count = heap[Current].count /\ 0 + n = n
    BY <1>1, <1>2, <1>5
  <2> QED
    BY <1>1, <2>1, <2>2, <2>3, <2>4 DEF TotalsLose
<1> QED
  BY <1>1, <1>2, <1>6, <1>7, <1>8, WriterSlicesInv

LEMMA PurgeNewestWithCurrentSlicesInv ==
    ASSUME SlicesInv, NEW k \in 0..live.len, PurgeNewestWithCurrent(k)
    PROVE  SlicesInv'
<1> DEFINE n     == live.len - k
           short == Shortened(live, n)
           new   == Appended(arrays, short, NewPointer)
<1>1. /\ Locked /\ UNCHANGED <<pc, ptr, overlapped>> /\ k \in 1..live.len
      /\ heap' = Append(heap, NewPeriod)
      /\ arrays' = new.arrays /\ live' = new.slice
      /\ total' = total - CountOf(live.len - k + 1, live.len)
  BY DEF PurgeNewestWithCurrent, Shortened
<1>2. /\ n \in Nat /\ n \in 0..live.len /\ n < live.len /\ live.len \in Nat
      /\ live.len - k + 1 = n + 1 /\ live.len - k + 1 \in 1..(live.len + 1)
      /\ live.len \in 0..live.len /\ (live.len - k + 1) - 1 = n
      /\ \A i \in 1..n : i + 0 = i /\ i \in Nat
  <2>1. live.len \in Nat /\ k \in 1..live.len
    BY <1>1, WriterFinds
  <2> QED
    BY ONLY <2>1
<1> HIDE DEF n
<1>3. /\ IsSlice(arrays, short) /\ short.len = n
      /\ \A i \in 1..n : ItemOf(arrays, short, i) = ItemOf(arrays, live, i)
  <2>1. arrays \in Seq(Seq(Nat)) /\ IsSlice(arrays, live) /\ n \in 0..live.len
    BY <1>2, WriterFinds
  <2> QED
    BY ONLY <2>1, ShortenedSlice
<1> HIDE DEF short
<1>4. /\ new.arrays \in Seq(Seq(Nat)) /\ IsSlice(new.arrays, new.slice)
      /\ new.slice.len = short.len + 1
      /\ \A i \in 1..short.len :
            ItemOf(new.arrays, new.slice, i) = ItemOf(arrays, short, i)
      /\ ItemOf(new.arrays, new.slice, short.len + 1) = NewPointer
  <2>1. arrays \in Seq(Seq(Nat)) /\ IsSlice(arrays, short) /\ NewPointer \in Nat
    BY <1>3, WriterFinds
  <2>2. HoldsAppended(arrays, short, NewPointer, new)
    BY ONLY <2>1, AppendedSlice
  <2> QED
    BY <2>2 DEF HoldsAppended
<1> HIDE DEF new
<1>5. /\ arrays' \in Seq(Seq(Nat)) /\ IsSlice(arrays', live') /\ live'.len = n + 1
      /\ \A i \in 1..n : Item(i)' = Item(i)
      /\ Current' = NewPointer
  BY <1>1, <1>3, <1>4 DEF Item, Current
<1>6. /\ HeapGrows
      /\ NewPointer \in 1..Len(heap') /\ ~heap'[NewPointer].frozen
      /\ heap'[NewPointer].count = 0
  BY <1>1, WriterFinds, GrownHeap
<1>7. ListLeaves(0, n)
  <2>1. \A i \in 1..n : Item(i)' = Item(i + 0)
    BY <1>2, <1>5
  <2>2. 0 + n <= live.len /\ 0 + n # live.len
    BY <1>2
  <2> QED
    BY <1>5, <1>6, <2>1, <2>2 DEF ListLeaves
<1>8. TotalsLose(0, n)
  <2>1. CountOf(live.len - k + 1, live.len) = Counted(live.len) - Counted((live.len - k + 1) - 1)
    BY <1>2, CountOfIsCounted DEF SlicesInv
  <2>2. (live.len - k + 1) - 1 = n
    BY <1>2
  <2>3. /\ Counted(live.len) \in Nat /\ Counted(n) \in Nat /\ Counted(0) = 0
        /\ total \in Nat
    BY <1>2, WriterFinds
  <2>4. heap'[Current'].count = 0 /\ 0 + n = n
    BY <1>2, <1>5, <1>6
  <2> QED
    BY <1>1, <2>1, <2>2, <2>3, <2>4 DEF TotalsLose
<1> QED
  BY <1>1, <1>2, <1>6, <1>7, <1>8, WriterSlicesInv

-----------------------------------------------------------------------------
(* The theorems.                                                            *)

LEMMA NextSlicesInv == SlicesInv /\ [Next]_vars => SlicesInv'
<1> SUFFICES ASSUME SlicesInv, [Next]_vars PROVE SlicesInv'
  OBVIOUS
<1>1. ASSUME NEW t \in Adder, AddPokemon(t) PROVE SlicesInv'
  BY <1>1, CallBeginsSlicesInv DEF Thread
<1>2. ASSUME NEW t \in Snapshotter, GetSnapshot(t) PROVE SlicesInv'
  BY <1>2, CallBeginsSlicesInv DEF Thread
<1>3. ASSUME NEW t \in Snapshotter, DropSnapshot(t) PROVE SlicesInv'
  BY <1>3, NothingHeldChangesSlicesInv
<1>4. ASSUME NEW t \in Thread, ReaderStep(t) PROVE SlicesInv'
  <2>1. CASE t \in Adder /\ CountInPeriod(t)
    BY <2>1, CountInPeriodSlicesInv
  <2>2. CASE t \in Adder /\ CountInTotals(t)
    BY <2>2, CountInTotalsSlicesInv
  <2>3. CASE t \in Snapshotter /\ ClonePeriod(t)
    BY <2>3, ClonePeriodSlicesInv
  <2>4. CASE t \in Snapshotter /\ StoreClone(t)
    BY <2>4, StoreCloneSlicesInv
  <2>5. CASE t \in Snapshotter /\ ReturnSnapshot(t)
    BY <2>5, NothingHeldChangesSlicesInv
  <2> QED
    BY <1>4, <2>1, <2>2, <2>3, <2>4, <2>5 DEF ReaderStep
<1>5. CASE LockForWriting \/ DropBatch \/ UNCHANGED vars
  BY <1>5, NothingHeldChangesSlicesInv
<1>6. CASE WriterStep
  <2>1. PICK k \in 0..live.len :
            \/ RotateClose(k) \/ RotateThrowAway(k) \/ KeepRecent(k)
            \/ PurgeOldest(k) \/ PurgeNewestClosed(k) \/ PurgeNewestWithCurrent(k)
    BY <1>6 DEF WriterStep
  <2> QED
    BY <2>1, RotateCloseSlicesInv, RotateThrowAwaySlicesInv, KeepRecentSlicesInv,
       PurgeOldestSlicesInv, PurgeNewestClosedSlicesInv, PurgeNewestWithCurrentSlicesInv
<1> QED
  BY <1>1, <1>2, <1>3, <1>4, <1>5, <1>6 DEF Next

LEMMA SlicesInvariance == Spec => []SlicesInv
BY InitSlicesInv, NextSlicesInv, PTL DEF Spec

\* Whatever rotations, purges and snapshots do to the array that they share, the
\* live list stays a list of distinct periods without a nil, and its last period
\* is the only open one.
THEOREM LiveListStaysWellFormed == Spec => []LiveListIsWellFormed
<1>1. SlicesInv => LiveListIsWellFormed
  <2> SUFFICES ASSUME SlicesInv PROVE LiveListIsWellFormed
    OBVIOUS
  <2>1. live.len > 0 /\ \A i \in 1..live.len : Item(i) # Nil
    BY LiveLength DEF SlicesInv, ListIsWellFormed, MemoryTypeOK, Nil
  <2> QED
    BY <2>1, EntryIsItem DEF SlicesInv, ListIsWellFormed, LiveListIsWellFormed
<1> QED
  BY <1>1, SlicesInvariance, PTL

\* AddPokemon never meets the closed period that its log line calls a bug: no
\* rotation closes a period while an adder holds it, and no clone is closed.
THEOREM AddersOnlyMeetOpenPeriods == Spec => []AddersMeetOpenPeriods
<1>1. SlicesInv => AddersMeetOpenPeriods
  BY DEF SlicesInv, HeldAreOpen, Holding, Thread, AddersMeetOpenPeriods
<1> QED
  BY <1>1, SlicesInvariance, PTL

\* Totals and the sightings in flight cover what the periods count, so that no
\* purge can take more from Totals than there is.
THEOREM TotalsAlwaysCoverPeriods == Spec => []TotalsCoverPeriods
<1>1. SlicesInv => TotalsCoverPeriods
  <2> SUFFICES ASSUME SlicesInv PROVE TotalsCoverPeriods
    OBVIOUS
  <2>1. CountOf(1, live.len) = Counted(live.len) /\ Counted(live.len) \in Nat
    BY WriterFinds, CountOfAll, CountedType DEF SlicesInv
  <2>2. total \in Nat /\ InFlight \in Nat /\ Counted(live.len) <= total + InFlight
    BY InFlightNat DEF SlicesInv, MemoryTypeOK, HeldAreCovered
  <2> QED
    BY <2>1, <2>2 DEF TotalsCoverPeriods
<1> QED
  BY <1>1, SlicesInvariance, PTL

\* No sighting is lost or counted twice as long as no snapshot was taken while a
\* pokemon was being added.
THEOREM TotalsStayExactWithoutOverlap == Spec => []TotalsAreExactWithoutOverlap
<1>1. SlicesInv => TotalsAreExactWithoutOverlap
  <2> SUFFICES ASSUME SlicesInv PROVE TotalsAreExactWithoutOverlap
    OBVIOUS
  <2>1. CountOf(1, live.len) = Counted(live.len)
    BY WriterFinds, CountOfAll DEF SlicesInv
  <2> QED
    BY <2>1 DEF SlicesInv, HeldAreCurrent, TotalsAreExactWithoutOverlap
<1> QED
  BY <1>1, SlicesInvariance, PTL

=============================================================================
