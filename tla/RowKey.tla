------------------------------- MODULE RowKey -------------------------------
(***************************************************************************)
(* The row-key value and range model of the DeltaMerge storage engine     *)
(* (dbms/src/Storages/DeltaMerge/RowKeyRange.h).                           *)
(*                                                                         *)
(* A RowKeyValue is a byte string plus, for int handles, the decoded      *)
(* 64-bit value.  Bytes are the integers 0..ByteMax (ByteMax stands for   *)
(* 0xFF); the codec flag bytes are constants ordered as in TiDB's codec.  *)
(* An int handle is encoded by EncodeInt64: a fixed-width, big-endian,    *)
(* order-preserving encoding; here IntWidth bytes in base ByteMax+1 over  *)
(* the values 0..IntMax, where 0 stands for Int64 min and IntMax for      *)
(* Int64 max (whose encoding is all 0xFF bytes, as with the sign-flipped  *)
(* encoding of the code).                                                 *)
(*                                                                         *)
(* This module has no variables: it is the library of operators that the *)
(* MC modules and the segment harness modules use.                       *)
(***************************************************************************)
EXTENDS Integers, SequencesExt

CONSTANTS
    ByteMax,          \* the byte 0xFF
    CodecFlagNil,     \* TiDB::CodecFlagNil
    CodecFlagBytes,   \* TiDB::CodecFlagBytes
    CodecFlagInt,     \* TiDB::CodecFlagInt
    CodecFlagMax,     \* TiDB::CodecFlagMax
    IntWidth,         \* bytes written by EncodeInt64 (8 in the code)
    NullData          \* a null `data` pointer of a RowKeyValueRef

ASSUME /\ ByteMax \in Nat \ {0}
       /\ CodecFlagNil < CodecFlagBytes
       /\ CodecFlagBytes < CodecFlagInt
       /\ CodecFlagInt < CodecFlagMax
       /\ CodecFlagMax < ByteMax
       /\ CodecFlagNil \in Nat
       /\ IntWidth \in Nat \ {0}

Byte == 0..ByteMax
Base == ByteMax + 1
IntMin == 0
IntMax == Base ^ IntWidth - 1
Ints == IntMin..IntMax

Sign(x) == IF x < 0 THEN -1 ELSE IF x > 0 THEN 1 ELSE 0

\* DB::EncodeInt64: fixed width, big endian, order preserving.
EncodeInt64(i) == [k \in 1..IntWidth |-> (i \div Base ^ (IntWidth - k)) % Base]

\* The value of the first IntWidth bytes of an int-handle encoding.
DecodeInt64(s) == LET RECURSIVE D(_)
                      D(n) == IF n = 0 THEN 0 ELSE D(n - 1) * Base + s[n]
                  IN D(IntWidth)

-----------------------------------------------------------------------------
\* Fault: the length tie-break is lost, so a prefix equals its extensions.
CommonHandleCompareNoLength(a, b) ==
    LET n    == IF Len(a) < Len(b) THEN Len(a) ELSE Len(b)
        diff == {i \in 1..n : a[i] # b[i]}
    IN IF diff = {} THEN 0
       ELSE LET i == Min(diff) IN Sign(a[i] - b[i])

(* CommonHandle::compare: memcmp over the common length, then length.     *)
CommonHandleCompare(a, b) ==
    LET n    == IF Len(a) < Len(b) THEN Len(a) ELSE Len(b)
        diff == {i \in 1..n : a[i] # b[i]}
    IN IF diff = {} THEN Sign(Len(a) - Len(b))
       ELSE LET i == Min(diff) IN Sign(a[i] - b[i])

RowKeyValue(isCommon, bytes, intValue) ==
    [is_common_handle |-> isCommon, value |-> bytes, int_value |-> intValue]

\* RowKeyValue::fromIntHandle
fromIntHandle(i) == RowKeyValue(FALSE, EncodeInt64(i), i)

\* The sentinels, defined in RowKeyRange.cpp.  INT_HANDLE_MAX_KEY carries
\* the int Int64 max but bytes larger than any encoded int (lines 216-220).
INT_HANDLE_MIN_KEY    == fromIntHandle(IntMin)
INT_HANDLE_MAX_KEY    == RowKeyValue(FALSE, EncodeInt64(IntMax) \o <<0>>, IntMax)
COMMON_HANDLE_MIN_KEY == RowKeyValue(TRUE, <<CodecFlagBytes>>, 0)
COMMON_HANDLE_MAX_KEY == RowKeyValue(TRUE, <<CodecFlagMax>>, 0)
EMPTY_STRING_KEY      == RowKeyValue(TRUE, <<>>, 0)

\* RowKeyValue::fromHandle: a common handle keeps its bytes; an int handle
\* decodes its int, and a suffix after the int moves it to the next int.
fromHandle(isCommon, bytes) ==
    IF isCommon THEN RowKeyValue(TRUE, bytes, 0)
    ELSE LET i == DecodeInt64(bytes)
         IN RowKeyValue(FALSE, bytes,
                        IF Len(bytes) > IntWidth /\ i # IntMax THEN i + 1 ELSE i)

\* RowKeyValue(const RowKeyValueRef &): an int ref is re-encoded.
RowKeyValueOfRef(r) ==
    IF r.is_common_handle THEN RowKeyValue(TRUE, r.data, r.int_value)
    ELSE fromIntHandle(r.int_value)

\* RowKeyValue::toRowKeyValueRef: a ref that points at the value's bytes.
toRowKeyValueRef(v) ==
    [is_common_handle |-> v.is_common_handle, data |-> v.value, int_value |-> v.int_value]

\* RowKeyColumnContainer::getRowKeyValue: a ref read from a handle column.
\* An int handle column yields a ref with a null data pointer.
ColumnRef(isCommon, bytes, i) ==
    IF isCommon THEN [is_common_handle |-> TRUE, data |-> bytes, int_value |-> 0]
    ELSE [is_common_handle |-> FALSE, data |-> NullData, int_value |-> i]

(* RowKeyColumnContainer: a handle column as getRowKeyValue reads it.  A *)
(* column is a ColumnConst or not, around data with a ColumnString's      *)
(* chars (each row's bytes followed by a 0 byte) and offsets (the end of  *)
(* each row's terminator), or the Int64 values of an int column.          *)
RowKeyColumnContainer(column, isCommon) ==
    [is_common_handle   |-> isCommon,
     is_constant_column |-> column.is_const,
     string_data        |-> column.data.chars,
     string_offsets     |-> column.data.offsets,
     int_data           |-> column.data.ints]

\* Fault: the row's size taken with its terminating 0 byte.
getRowKeyValueWithTerminator(c, index) ==
    LET i == IF c.is_constant_column THEN 0 ELSE index IN
    IF c.is_common_handle
    THEN LET prev == IF i = 0 THEN 0 ELSE c.string_offsets[i]
         IN ColumnRef(TRUE, SubSeq(c.string_data, prev + 1, c.string_offsets[i + 1]), 0)
    ELSE ColumnRef(FALSE, <<>>, c.int_data[i + 1])

\* getRowKeyValue(index), 0-based: a constant column reads row 0; a row
\* of a string column spans offsets[index - 1] .. offsets[index] - 1,
\* less its terminator.
getRowKeyValue(c, index) ==
    LET i == IF c.is_constant_column THEN 0 ELSE index IN
    IF c.is_common_handle
    THEN LET prev == IF i = 0 THEN 0 ELSE c.string_offsets[i]
             size == c.string_offsets[i + 1] - prev - 1
         IN ColumnRef(TRUE, SubSeq(c.string_data, prev + 1, prev + size), 0)
    ELSE ColumnRef(FALSE, <<>>, c.int_data[i + 1])

\* Fault: the int fast path without the Int64-max fallback.
RowKeyValueRefCompareIntOnly(a, b) ==
    IF a.is_common_handle # b.is_common_handle THEN "throw"
    ELSE IF a.is_common_handle THEN CommonHandleCompare(a.data, b.data)
    ELSE Sign(a.int_value - b.int_value)

(* operator<=>(RowKeyValueRef, RowKeyValueRef): ints are compared directly *)
(* unless both are Int64 max and one has data, in which case only the      *)
(* INT_HANDLE_MAX_KEY bytes count as larger.  Mixing kinds throws.         *)
CompareThrows == "throw"

RowKeyValueRefCompare(a, b) ==
    IF a.is_common_handle # b.is_common_handle THEN CompareThrows
    ELSE IF a.is_common_handle THEN CommonHandleCompare(a.data, b.data)
    ELSE IF \/ a.int_value # b.int_value
            \/ a.int_value # INT_HANDLE_MAX_KEY.int_value
            \/ (a.data = NullData /\ b.data = NullData)
         THEN Sign(a.int_value - b.int_value)
    ELSE LET IsInf(r) == /\ r.data # NullData
                         /\ CommonHandleCompare(r.data, INT_HANDLE_MAX_KEY.value) = 0
             AsInt(bool) == IF bool THEN 1 ELSE 0
         IN Sign(AsInt(IsInf(a)) - AsInt(IsInf(b)))

\* operator<=>(RowKeyValue, RowKeyValue): raw bytes only.
RowKeyValueCompare(a, b) == CommonHandleCompare(a.value, b.value)

\* std::min / std::max over RowKeyValue (they use the byte comparison).
MinValue(a, b) == IF RowKeyValueCompare(b, a) < 0 THEN b ELSE a
MaxValue(a, b) == IF RowKeyValueCompare(a, b) < 0 THEN b ELSE a

-----------------------------------------------------------------------------
\* Fault: the bytes move to the next key but prefix_int_value does not.
toPrefixNextNoIntBump(v) ==
    LET keys  == v.value
        notFF == {i \in DOMAIN keys : keys[i] # ByteMax}
        bytes == IF notFF = {} THEN keys \o <<0>>
                 ELSE [i \in DOMAIN keys |->
                         IF i < Max(notFF) THEN keys[i]
                         ELSE IF i = Max(notFF) THEN keys[i] + 1 ELSE 0]
    IN RowKeyValue(v.is_common_handle, bytes, v.int_value)

(* RowKeyValue::toPrefixNext: bump the last non-0xFF byte and zero the     *)
(* 0xFF bytes after it; if every byte is 0xFF, append a 0 byte instead.    *)
(* The int of an int handle moves to the next int unless it is Int64 max. *)
toPrefixNext(v) ==
    LET keys  == v.value
        notFF == {i \in DOMAIN keys : keys[i] # ByteMax}
        bytes == IF notFF = {} THEN keys \o <<0>>
                 ELSE LET index == Max(notFF)
                      IN [i \in DOMAIN keys |->
                            IF i < index THEN keys[i]
                            ELSE IF i = index THEN keys[i] + 1 ELSE 0]
        next  == IF ~v.is_common_handle /\ v.int_value # IntMax
                 THEN v.int_value + 1 ELSE v.int_value
    IN RowKeyValue(v.is_common_handle, bytes, next)

\* RowKeyValue::toNext: a common handle appends a 0 byte.
toNext(v) ==
    IF ~v.is_common_handle THEN toPrefixNext(v)
    ELSE RowKeyValue(TRUE, Append(v.value, 0), v.int_value)

-----------------------------------------------------------------------------
(* RowKeyRange: [start, end).                                              *)
RowKeyRange(s, e, isCommon, colSize) ==
    [is_common_handle |-> isCommon, start |-> s, end |-> e, rowkey_column_size |-> colSize]

MinKey(isCommon) == IF isCommon THEN COMMON_HANDLE_MIN_KEY ELSE INT_HANDLE_MIN_KEY
MaxKey(isCommon) == IF isCommon THEN COMMON_HANDLE_MAX_KEY ELSE INT_HANDLE_MAX_KEY

\* startFrom / endWith take a ref and materialise it with toRowKeyValue.
startFrom(ref, isCommon, colSize) ==
    RowKeyRange(RowKeyValueOfRef(ref), MaxKey(isCommon), isCommon, colSize)
endWith(ref, isCommon, colSize) ==
    RowKeyRange(MinKey(isCommon), RowKeyValueOfRef(ref), isCommon, colSize)
newAll(isCommon, colSize)       == RowKeyRange(MinKey(isCommon), MaxKey(isCommon), isCommon, colSize)
newNone(isCommon, colSize)      == RowKeyRange(MaxKey(isCommon), MinKey(isCommon), isCommon, colSize)

isEndInfinite(r) ==
    IF r.is_common_handle
    THEN r.end.value = <<CodecFlagMax>>
    ELSE /\ r.end.int_value = INT_HANDLE_MAX_KEY.int_value
         /\ CommonHandleCompare(r.end.value, INT_HANDLE_MAX_KEY.value) >= 0

isStartInfinite(r) ==
    IF r.is_common_handle
    THEN r.start.value \in {<<CodecFlagBytes>>, <<CodecFlagNil>>}
    ELSE r.start.int_value = INT_HANDLE_MIN_KEY.int_value

all(r)  == isStartInfinite(r) /\ isEndInfinite(r)
\* Fault: an empty range [k, k) is not reported as none.
noneStrict(r) == RowKeyValueCompare(r.start, r.end) > 0
none(r) == RowKeyValueCompare(r.start, r.end) >= 0

\* Fault: std::min where std::max belongs for the start.
shrinkMinStart(r, other) ==
    RowKeyRange(MinValue(r.start, other.start), MinValue(r.end, other.end),
                r.is_common_handle, r.rowkey_column_size)

shrink(r, other) ==
    RowKeyRange(MaxValue(r.start, other.start), MinValue(r.end, other.end),
                r.is_common_handle, r.rowkey_column_size)

\* Fault: std::max where std::min belongs for the start.
mergeMaxStart(r, other) ==
    RowKeyRange(MaxValue(r.start, other.start), MaxValue(r.end, other.end),
                r.is_common_handle, r.rowkey_column_size)

merge(r, other) ==
    RowKeyRange(MinValue(r.start, other.start), MaxValue(r.end, other.end),
                r.is_common_handle, r.rowkey_column_size)

\* RowKeyRange::swap
swap(r, other) == <<other, r>>

setStart(r, v) == [r EXCEPT !.start = v]
setEnd(r, v)   == [r EXCEPT !.end = v]

\* Fault: a closed upper bound, so adjacent ranges intersect.
intersectInclusive(r, other) ==
    /\ RowKeyValueCompare(other.start, r.end) <= 0
    /\ RowKeyValueCompare(r.start, other.end) <= 0

intersect(r, other) ==
    /\ RowKeyValueCompare(other.start, r.end) < 0
    /\ RowKeyValueCompare(r.start, other.end) < 0

getStart(r) == toRowKeyValueRef(r.start)
getEnd(r)   == toRowKeyValueRef(r.end)

checkStart(r, ref) == RowKeyValueRefCompare(getStart(r), ref) <= 0
checkEnd(r, ref)   == RowKeyValueRefCompare(ref, getEnd(r)) < 0
check(r, ref)      == checkStart(r, ref) /\ checkEnd(r, ref)

\* Fault: the "rhs.end == this->end counts as included" case is dropped.
checkRangeIncludedNoEqualEnd(r, rhs) ==
    checkStart(r, getStart(rhs)) /\ checkEnd(r, getEnd(rhs))

checkRangeIncluded(r, rhs) ==
    /\ checkStart(r, getStart(rhs))
    /\ \/ RowKeyValueRefCompare(getEnd(r), getEnd(rhs)) = 0
       \/ checkEnd(r, getEnd(rhs))

\* mergeRanges: fold of min(start) / max(end) starting from newNone.
mergeRanges(ranges, isCommon, colSize) ==
    LET Step(acc, x) == [acc EXCEPT !.start = MinValue(acc.start, x.start),
                                    !.end   = MaxValue(acc.end, x.end)]
    IN FoldLeft(Step, newNone(isCommon, colSize), ranges)

-----------------------------------------------------------------------------
(* HandleRange: the [start, end) range of int handles; end = HandleRange  *)
(* ::MAX (Int64 max) is taken as +inf, and all() is [MIN, MAX).           *)
HandleRange(s, e) == [start |-> s, end |-> e]
HandleRangeAll(h) == h.start = IntMin /\ h.end = IntMax

\* EncodeUInt(CodecFlagInt) then EncodeInt64: an int as a common handle.
EncodeCommonInt(i) == <<CodecFlagInt>> \o EncodeInt64(i)

\* Fault: an end of HandleRange::MAX encoded as it is, not as +inf.
fromHandleRangeNoInfEnd(h, isCommon) ==
    IF isCommon
    THEN IF HandleRangeAll(h) THEN newAll(TRUE, 1)
         ELSE RowKeyRange(fromHandle(TRUE, EncodeCommonInt(h.start)),
                          fromHandle(TRUE, EncodeCommonInt(h.end)), TRUE, 1)
    ELSE IF HandleRangeAll(h) THEN newAll(FALSE, 1)
         ELSE RowKeyRange(RowKeyValue(FALSE, EncodeInt64(h.start), h.start),
                          RowKeyValue(FALSE, EncodeInt64(h.end), h.end), FALSE, 1)

\* RowKeyRange::fromHandleRange
fromHandleRange(h, isCommon) ==
    IF isCommon
    THEN IF HandleRangeAll(h) THEN newAll(TRUE, 1)
         ELSE RowKeyRange(fromHandle(TRUE, EncodeCommonInt(h.start)),
                          IF h.end = IntMax THEN COMMON_HANDLE_MAX_KEY
                          ELSE fromHandle(TRUE, EncodeCommonInt(h.end)),
                          TRUE, 1)
    ELSE IF HandleRangeAll(h) THEN newAll(FALSE, 1)
         ELSE RowKeyRange(RowKeyValue(FALSE, EncodeInt64(h.start), h.start),
                          IF h.end = IntMax THEN INT_HANDLE_MAX_KEY
                          ELSE RowKeyValue(FALSE, EncodeInt64(h.end), h.end),
                          FALSE, 1)

\* RowKeyRange::toHandleRange; a common-handle range throws.
toHandleRange(r) ==
    IF r.is_common_handle THEN CompareThrows
    ELSE HandleRange(r.start.int_value, r.end.int_value)

-----------------------------------------------------------------------------
(* Raw TiKV record keys.  A table's record key is 't', EncodeInt64(table  *)
(* id), '_', 'r' and the handle bytes.  The model's bytes cannot hold the  *)
(* ASCII letters; the three tag bytes keep their order ('_' < 'r' < 't'),  *)
(* and only their being the same in every key matters.                     *)
TagT          == ByteMax
TagUnderscore == ByteMax - 2
TagR          == ByteMax - 1

\* DecodedTiKVKey::makeKeyspacePrefix(NullspaceID): no keyspace prefix.
KeyspacePrefix == <<>>

\* The record prefix written by TableRangeMinMax and toRegionRange.
RecordPrefix(tableId) == <<TagT>> \o EncodeInt64(tableId) \o <<TagUnderscore, TagR>>

\* Fault: the last key of an int table taken as fromIntHandle(Int64 max),
\* without the suffix byte of INT_HANDLE_MAX_KEY.
TableRangeMinMaxIntMaxPlain(tableId, isCommon) ==
    LET prefix == KeyspacePrefix \o RecordPrefix(tableId)
        maxKey == IF isCommon THEN COMMON_HANDLE_MAX_KEY ELSE fromIntHandle(IntMax)
    IN [min |-> prefix \o MinKey(isCommon).value, max |-> prefix \o maxKey.value]

\* RowKeyRange::TableRangeMinMax(NullspaceID, table_id, is_common_handle):
\* the raw keys of the table's first and last handle sentinels.
TableRangeMinMax(tableId, isCommon) ==
    LET prefix == KeyspacePrefix \o RecordPrefix(tableId)
    IN [min |-> prefix \o MinKey(isCommon).value, max |-> prefix \o MaxKey(isCommon).value]

\* RowKeyRange::toRegionRange(table_id): the range's bounds as raw keys.
toRegionRange(r, tableId) ==
    <<RecordPrefix(tableId) \o r.start.value, RecordPrefix(tableId) \o r.end.value>>

-----------------------------------------------------------------------------
(* Persistence.  serialize writes the kind, the column size and the two   *)
(* byte strings; deserialize reads them back and maps a legacy open bound *)
(* (rowkey_column_size flag bytes) to the common-handle sentinel.          *)
serialize(r) ==
    [is_common_handle |-> r.is_common_handle, rowkey_column_size |-> r.rowkey_column_size,
     start |-> r.start.value, end |-> r.end.value]

\* RowKeyValue::operator== and RowKeyRange::operator==.
RowKeyValueEq(a, b) ==
    a.is_common_handle = b.is_common_handle /\ a.value = b.value /\ a.int_value = b.int_value
RowKeyRangeEq(a, b) == RowKeyValueEq(a.start, b.start) /\ RowKeyValueEq(a.end, b.end)

\* RowKeyValue::serialize writes the kind and the bytes; deserialize parses
\* them again with fromHandle.
RowKeyValueSerialize(v) == [is_common_handle |-> v.is_common_handle, value |-> v.value]
RowKeyValueDeserialize(rec) == fromHandle(rec.is_common_handle, rec.value)

isLegacyCommonMin(colSize, bytes) ==
    /\ colSize > 0
    /\ Len(bytes) = colSize
    /\ \A i \in 1..colSize : bytes[i] \in {CodecFlagBytes, CodecFlagNil}

isLegacyCommonMax(colSize, bytes) ==
    /\ colSize > 0
    /\ Len(bytes) = colSize
    /\ \A i \in 1..colSize : bytes[i] = CodecFlagMax

\* Fault: only the legacy start is mapped to its sentinel.
deserializeNoLegacyMax(rec) ==
    LET colSize == rec.rowkey_column_size
        s == IF isLegacyCommonMin(colSize, rec.start) THEN COMMON_HANDLE_MIN_KEY.value ELSE rec.start
    IN RowKeyRange(fromHandle(rec.is_common_handle, s), fromHandle(rec.is_common_handle, rec.end),
                   rec.is_common_handle, colSize)

deserialize(rec) ==
    LET colSize == rec.rowkey_column_size
        s == IF isLegacyCommonMin(colSize, rec.start) THEN COMMON_HANDLE_MIN_KEY.value ELSE rec.start
        e == IF isLegacyCommonMax(colSize, rec.end) THEN COMMON_HANDLE_MAX_KEY.value ELSE rec.end
    IN RowKeyRange(fromHandle(rec.is_common_handle, s), fromHandle(rec.is_common_handle, e),
                   rec.is_common_handle, colSize)

=============================================================================
