--------------------------- MODULE SgenDescriptor ---------------------------
(***************************************************************************)
(* The GC descriptor codec of sgen-gc.c: the descriptor builders called    *)
(* when a type is loaded (mono_gc_make_descr_for_object, _for_array,       *)
(* mono_gc_make_descr_from_bitmap), the interned complex-descriptor table  *)
(* (alloc_complex_descriptor), the scanners that read a descriptor back    *)
(* while tracing (OBJ_*_FOREACH_PTR, precisely_scan_objects_from) and the  *)
(* decoder mono_gc_get_bitmap_for_descr.                                   *)
(*                                                                         *)
(* A machine word (mword / gsize) is the set of its set bit positions in   *)
(* 0..W-1, so shifts drop the bits that leave the word exactly as the C    *)
(* shifts do, for 32- and 64-bit builds alike.  A reference bitmap is the  *)
(* set of word indexes of the reference slots.                             *)
(***************************************************************************)
EXTENDS Naturals, FiniteSets, Sequences, FiniteSetsExt

CONSTANTS
    W,           \* GC_BITS_PER_WORD
    Positions,   \* the slot indexes the loaded types may have references at
    MaxSetBits,  \* at most this many references per type
    MaxTypes     \* number of descriptors built in one behaviour

ASSUME W \in {32, 64} /\ Positions \subseteq Nat /\ MaxTypes \in Nat \ {0}

\* Constants of sgen-gc.c lines 858-888.
DescRunLength == 0
DescSmallBitmap == 1
DescComplex == 3
DescVector == 4
DescArray == 5
DescLargeBitmap == 6
DescComplexArr == 7
VPtrFree == 0
VRefs == 1
VBitmap == 3
HeaderWords == 2
LowTypeBits == 3
SmallBitmapShift == 16
SmallBitmapSize == W - SmallBitmapShift
VectorInfoShift == 14
VectorElsizeShift == 3
LargeBitmapSize == W - LowTypeBits
MaxSmallObjSize == 65535
MaxElementSize == 1023
AllocAlign == 8
WordBytes == W \div 8
RootDescBitmap == 1
RootDescComplex == 3
RootDescTypeShift == 3

------------------------------------------------------------------------------
(* Words as sets of bit positions. *)

Bits(n) == {i \in 0..(W-1) : i < 31 /\ (n \div 2^i) % 2 = 1}
ShiftL(w, k) == {i + k : i \in w} \cap 0..(W-1)
ShiftR(w, k) == {i - k : i \in {j \in w : j >= k}}
Field(w, lo, width) ==
    MapThenSumSet(LAMBDA i : 2^(i - lo), w \cap lo..(lo + width - 1))
AllOnesFrom(k) == k..(W-1)

\* Word j of a multi-word bitmap (bitmap [j]).
BitmapWord(b, j) == {i - j * W : i \in {p \in b : p \in (j*W)..(j*W + W - 1)}}

------------------------------------------------------------------------------
(* The complex-descriptor table: a sequence of words, each entry a length  *)
(* word nwords followed by nwords - 1 bitmap words.  The table is 0-based  *)
(* in C; Cell(t, i) is complex_descriptors [i].                            *)

VARIABLES complex, types

vars == <<complex, types>>

Cell(t, i) == t[i + 1]

\* The content comparison of the linear search.
SameWords(t, i, b, nwords) ==
    \A j \in 0..(nwords - 2) : Cell(t, i + 1 + j) = BitmapWord(b, j)

RECURSIVE FindComplex(_, _, _, _)
FindComplex(t, i, b, nwords) ==
    IF i >= Len(t) THEN -1
    ELSE IF Field(Cell(t, i), 0, W) = nwords /\ SameWords(t, i, b, nwords)
         THEN i
         ELSE FindComplex(t, i + Field(Cell(t, i), 0, W), b, nwords)

\* alloc_complex_descriptor: the index of an entry holding the bitmap,
\* appending one when the search finds none.  The g_realloc growth keeps
\* the contents, so it is invisible here.
NWords(numbits) == numbits \div W + 2
AllocComplexIndex(t, b, numbits) ==
    LET found == FindComplex(t, 0, b, NWords(numbits))
    IN IF found >= 0 THEN found ELSE Len(t)
NewEntry(b, n) == [k \in 1..n |-> IF k = 1 THEN Bits(n) ELSE BitmapWord(b, k - 2)]
AllocComplexTableNoSearch(t, b, numbits) == t \o NewEntry(b, NWords(numbits))
AllocComplexTable(t, b, numbits) ==
    LET n == NWords(numbits)
    IN IF FindComplex(t, 0, b, n) >= 0 THEN t ELSE t \o NewEntry(b, n)

------------------------------------------------------------------------------
(* The builders.  Each returns [desc, table]. *)

FirstSet(b) == IF b = {} THEN -1 ELSE Min(b)
LastSet(b) == IF b = {} THEN -1 ELSE Max(b)
StoredSize(size) == ((size + AllocAlign - 1) \div AllocAlign) * AllocAlign

\* mono_gc_make_descr_for_object
SmallBitmapFitsInclusive(b) == LastSet(b) <= SmallBitmapSize + HeaderWords
SmallBitmapFits(b) == LastSet(b) < SmallBitmapSize + HeaderWords

MakeDescrForObjectResult(t, b, size) ==
    LET first == FirstSet(b)
        last == LastSet(b)
        num == Cardinality(b)
        stored == StoredSize(size)
        word0 == BitmapWord(b, 0)
        small == stored <= MaxSmallObjSize
    IN CASE small /\ first < 0 ->
              [desc |-> Bits(DescRunLength) \cup Bits(stored), table |-> t]
         [] small /\ first < 256 /\ num < 256 /\ first + num = last + 1 ->
              [desc |-> Bits(DescRunLength) \cup Bits(stored)
                        \cup ShiftL(Bits(first), 16) \cup ShiftL(Bits(num), 24),
               table |-> t]
         [] small /\ SmallBitmapFits(b) ->
              [desc |-> Bits(DescSmallBitmap) \cup Bits(stored)
                        \cup ShiftL(ShiftR(word0, HeaderWords), SmallBitmapShift),
               table |-> t]
         [] last < LargeBitmapSize + HeaderWords ->
              [desc |-> Bits(DescLargeBitmap)
                        \cup ShiftL(ShiftR(word0, HeaderWords), LowTypeBits),
               table |-> t]
         [] OTHER ->
              [desc |-> Bits(DescComplex)
                        \cup ShiftL(Bits(AllocComplexIndex(t, b, last + 1)), LowTypeBits),
               table |-> AllocComplexTable(t, b, last + 1)]

\* mono_gc_make_descr_for_array
MakeDescrForArrayResult(t, vector, b, elsize) ==
    LET last == LastSet(b)
        num == Cardinality(b)
        base == Bits(IF vector THEN DescVector ELSE DescArray)
                \cup ShiftL(Bits(elsize), VectorElsizeShift)
        cplx == Bits(DescComplexArr)
                \cup ShiftL(Bits(AllocComplexIndex(t, b, last + 1)), LowTypeBits)
    IN CASE elsize <= MaxElementSize /\ num = 0 ->
              [desc |-> base \cup ShiftL(Bits(VPtrFree), VectorInfoShift), table |-> t]
         [] elsize <= MaxElementSize /\ num * WordBytes = elsize ->
              [desc |-> base \cup ShiftL(Bits(VRefs), VectorInfoShift)
                        \cup AllOnesFrom(16), table |-> t]
         [] elsize <= MaxElementSize /\ last <= SmallBitmapSize ->
              [desc |-> base \cup ShiftL(Bits(VBitmap), VectorInfoShift)
                        \cup ShiftL(BitmapWord(b, 0), 16), table |-> t]
         [] OTHER ->
              [desc |-> cplx, table |-> AllocComplexTable(t, b, last + 1)]

\* mono_gc_make_descr_from_bitmap (root descriptors)
MakeDescrFromBitmapResult(t, b, numbits) ==
    IF numbits < W - RootDescTypeShift
    THEN [desc |-> Bits(RootDescBitmap) \cup ShiftL(BitmapWord(b, 0), RootDescTypeShift),
          table |-> t]
    ELSE [desc |-> Bits(RootDescComplex)
                   \cup ShiftL(Bits(AllocComplexIndex(t, b, numbits + 1)), RootDescTypeShift),
          table |-> AllocComplexTable(t, b, numbits + 1)]

------------------------------------------------------------------------------
(* The scanners: the slots a tracing routine visits for a descriptor.     *)

\* OBJ_COMPLEX_FOREACH_PTR / the ROOT_DESC_COMPLEX case: bitmap word j
\* covers slots j*W .. j*W + W - 1 from the start of the object or root.
ComplexSlots(t, idx) ==
    UNION {{j * W + i : i \in Cell(t, idx + 1 + j)} :
             j \in 0..(Field(Cell(t, idx), 0, W) - 2)}

\* scan_object's switch over an object descriptor's low three bits.
ObjectSlots(t, d) ==
    CASE Field(d, 0, LowTypeBits) = DescRunLength ->
           IF d \cap 16..31 = {} THEN {}
           ELSE Field(d, 16, 8)..(Field(d, 16, 8) + Field(d, 24, 8) - 1)
      [] Field(d, 0, LowTypeBits) = DescSmallBitmap ->
           {HeaderWords + i : i \in ShiftR(d, SmallBitmapShift)}
      [] Field(d, 0, LowTypeBits) = DescLargeBitmap ->
           {HeaderWords + i : i \in ShiftR(d, LowTypeBits)}
      [] Field(d, 0, LowTypeBits) = DescComplex ->
           ComplexSlots(t, Field(d, LowTypeBits, W - LowTypeBits))

\* OBJ_VECTOR_FOREACH_PTR and OBJ_COMPLEX_ARR_FOREACH_PTR: the slots of
\* one element, relative to the element's start.
ElementSlots(t, d) ==
    LET elsize == Field(d, VectorElsizeShift, 10)
        etype == Field(d, VectorInfoShift, 2)
    IN CASE Field(d, 0, LowTypeBits) = DescComplexArr ->
              ComplexSlots(t, Field(d, LowTypeBits, W - LowTypeBits))
         [] d \cap 14..31 = {} -> {}
         [] etype = VRefs -> 0..(elsize \div WordBytes - 1)
         [] etype = VBitmap -> ShiftR(d, 16)
         [] OTHER -> Field(d, 16, 8)..(Field(d, 16, 8) + Field(d, 24, 8) - 1)

\* precisely_scan_objects_from over a root descriptor.
RootSlots(t, d) ==
    IF Field(d, 0, LowTypeBits) = RootDescBitmap
    THEN ShiftR(d, RootDescTypeShift)
    ELSE ComplexSlots(t, Field(d, RootDescTypeShift, W - RootDescTypeShift))

\* mono_gc_get_bitmap_for_descr: the run-length and small-bitmap cases.
BitmapForDescr(d) ==
    IF Field(d, 0, LowTypeBits) = DescRunLength
    THEN LET first_set == Field(d, 16, 8)
             num_set == Field(d, 16, 8)
         IN first_set..(first_set + num_set - 1)
    ELSE ShiftL(ShiftR(d, SmallBitmapShift), HeaderWords)

------------------------------------------------------------------------------
(* The type loader's calls into the builders. *)

Bitmaps == {b \in SUBSET Positions : Cardinality(b) <= MaxSetBits}
\* The two header words of an object hold no references.
ObjectBitmaps == {b \in Bitmaps : b \cap 0..(HeaderWords - 1) = {}}
\* The smallest size holding the bitmap, and one past the small-object limit.
ObjectSizes(b) == {(LastSet(b) + 1) * WordBytes, MaxSmallObjSize + 1}
ElementSizes(b) == {IF b = {} THEN WordBytes ELSE (LastSet(b) + 1) * WordBytes,
                    MaxElementSize + 1}

Register(kind, b, r) ==
    /\ Cardinality(types) < MaxTypes
    /\ complex' = r.table
    /\ types' = types \cup {[kind |-> kind, bitmap |-> b, desc |-> r.desc]}

MakeDescrForObject ==
    \E b \in ObjectBitmaps : \E size \in ObjectSizes(b) :
        Register("object", b, MakeDescrForObjectResult(complex, b, size))

MakeDescrForArray ==
    \E vector \in BOOLEAN, b \in Bitmaps :
        \E elsize \in ElementSizes(b) :
            Register(IF vector THEN "vector" ELSE "array", b,
                     MakeDescrForArrayResult(complex, vector, b, elsize))

MakeDescrFromBitmap ==
    \E b \in Bitmaps :
        Register("root", b, MakeDescrFromBitmapResult(complex, b, LastSet(b) + 1))

Init == complex = <<>> /\ types = {}

Next == MakeDescrForObject \/ MakeDescrForArray \/ MakeDescrFromBitmap

Spec == Init /\ [][Next]_vars

------------------------------------------------------------------------------
(* Properties. *)

Word == SUBSET (0..(W-1))
Kinds == {"object", "vector", "array", "root"}

TypeOK ==
    /\ complex \in Seq(Word)
    /\ types \subseteq [kind : Kinds, bitmap : SUBSET Positions, desc : Word]

\* The slots the collector visits for a registered type, with the table as
\* it is now, after any later registrations.
ScannedSlots(ty) ==
    CASE ty.kind = "object" -> ObjectSlots(complex, ty.desc)
      [] ty.kind = "root" -> RootSlots(complex, ty.desc)
      [] OTHER -> ElementSlots(complex, ty.desc)

\* Every reference slot of an object or a precisely described root, and no
\* other slot, is visited by scan_object / precisely_scan_objects_from when
\* it reads the descriptor built by mono_gc_make_descr_for_object or
\* mono_gc_make_descr_from_bitmap, however many complex descriptors were
\* interned after it.  A missed slot is a reference the collector neither
\* copies nor updates; an extra slot is a non-reference it treats as one.
ObjectScanMatchesLayout ==
    \A ty \in types : ty.kind \in {"object", "root"} => ScannedSlots(ty) = ty.bitmap

\* The same for the element bitmap of arrays and vectors, read back by
\* OBJ_VECTOR_FOREACH_PTR / OBJ_COMPLEX_ARR_FOREACH_PTR from the descriptor
\* of mono_gc_make_descr_for_array.
ArrayScanMatchesLayout ==
    \A ty \in types : ty.kind \in {"vector", "array"} => ScannedSlots(ty) = ty.bitmap

RECURSIVE EntryStarts(_, _)
EntryStarts(t, i) ==
    IF i >= Len(t) THEN {} ELSE {i} \cup EntryStarts(t, i + Field(Cell(t, i), 0, W))

EntryContent(t, i) == [k \in 0..(Field(Cell(t, i), 0, W) - 1) |-> Cell(t, i + k)]

\* alloc_complex_descriptor interns: loading types whose layouts coincide
\* (domain reloads) never adds a second entry with the same length and
\* bitmap words to complex_descriptors.
ComplexTableInterned ==
    \A i, j \in EntryStarts(complex, 0) :
        i # j => EntryContent(complex, i) # EntryContent(complex, j)

\* Descriptor round trip (design section 8): mono_gc_get_bitmap_for_descr
\* gives back the bitmap an inline (run-length or small-bitmap) object
\* descriptor was built from.
DescriptorRoundTrip ==
    \A ty \in types :
        /\ ty.kind = "object"
        /\ Field(ty.desc, 0, LowTypeBits) \in {DescRunLength, DescSmallBitmap}
        => BitmapForDescr(ty.desc) = ty.bitmap
==============================================================================
