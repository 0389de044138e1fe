---------------------------- MODULE MCRowKeyOrder ----------------------------
(***************************************************************************)
(* The ordering of row keys.  The state is one RowKeyValueRef, taken      *)
(* from every ref the code builds: refs of RowKeyValues made by           *)
(* fromIntHandle, the sentinels and common-handle byte strings, and refs  *)
(* read from an int handle column (data == nullptr).  The invariants      *)
(* quantify over the other refs, so every pair and triple is compared.    *)
(***************************************************************************)
EXTENDS RowKey

CONSTANT MaxLen     \* longest common-handle byte string

VARIABLE ref

IntValues    == {fromIntHandle(i) : i \in Ints} \cup {INT_HANDLE_MAX_KEY}
CommonValues == {RowKeyValue(TRUE, s, 0) : s \in BoundedSeq(Byte, MaxLen)}
              \cup {COMMON_HANDLE_MIN_KEY, COMMON_HANDLE_MAX_KEY, EMPTY_STRING_KEY}
Values       == IntValues \cup CommonValues

ColumnRefs   == {ColumnRef(FALSE, <<>>, i) : i \in Ints}
              \cup {ColumnRef(TRUE, s, 0) : s \in BoundedSeq(Byte, MaxLen - 1)}
Refs         == {toRowKeyValueRef(v) : v \in Values} \cup ColumnRefs

\* Handle columns as a block holds them.  A ColumnString stores each row's
\* bytes followed by a 0 byte and the running end of each row; a
\* ColumnConst wraps a one-row data column.
StringColumn(rows) ==
    [chars   |-> FoldLeft(LAMBDA acc, k : acc \o k \o <<0>>, <<>>, rows),
     offsets |-> [i \in DOMAIN rows |->
                    FoldLeft(LAMBDA n, k : n + Len(k) + 1, 0, SubSeq(rows, 1, i))],
     ints    |-> <<>>]
IntColumn(rows) == [chars |-> <<>>, offsets |-> <<>>, ints |-> rows]
Column(isConst, data) == [is_const |-> isConst, data |-> data]

\* Blocks of one or two rows.
Rows(S) == UNION {[1..n -> S] : n \in 1..2}

Init == ref \in Refs

\* A RowKeyValueRef variable is (re)assigned any ref the code can build.
Assign(r) == ref' = r

Next == \E r \in Refs : Assign(r)

Spec == Init /\ [][Next]_ref

SameKind(a, b) == a.is_common_handle = b.is_common_handle
Cmp(a, b) == RowKeyValueRefCompare(a, b)

-----------------------------------------------------------------------------
(* Row keys are sorted, ranges are checked and segments are located with  *)
(* operator<=>(RowKeyValueRef, RowKeyValueRef).  It must be a total order *)
(* (antisymmetric and transitive) on every ref of one kind, including    *)
(* column refs without data and the INT_HANDLE_MAX_KEY fallback.          *)
RefCompareIsTotalOrder ==
    \A b, c \in Refs :
        SameKind(ref, b) /\ SameKind(b, c) =>
            /\ Cmp(ref, b) = -Cmp(b, ref)
            /\ (Cmp(ref, b) <= 0 /\ Cmp(b, c) <= 0) => Cmp(ref, c) <= 0

\* The bytes a ref stands for: its data, or the encoding of its int.
RefBytes(r) == IF r.data = NullData THEN EncodeInt64(r.int_value) ELSE r.data

(* The int fast path of operator<=>(RowKeyValueRef) is an optimisation:   *)
(* on every int ref the code builds it must order as the bytes the ref   *)
(* stands for, the INT_HANDLE_MAX_KEY bytes and data-less column refs     *)
(* included.                                                              *)
RefCompareMatchesBytes ==
    \A b \in Refs :
        SameKind(ref, b) => Cmp(ref, b) = CommonHandleCompare(RefBytes(ref), RefBytes(b))

(* RowKeyValue::toNext "returns the smallest row key which is larger than *)
(* the current row key": for a key read from a handle column, the next    *)
(* key is larger, and no ref lies strictly between the two.              *)
ToNextIsSuccessor ==
    ref \in ColumnRefs =>
        LET n == toRowKeyValueRef(toNext(RowKeyValueOfRef(ref)))
        IN /\ Cmp(ref, n) = -1
           /\ \A x \in Refs : SameKind(ref, x) /\ Cmp(ref, x) = -1 => Cmp(n, x) <= 0

(* getRowKeyValue(i) reads row i of a block: the bytes between two       *)
(* offsets less the terminator for a string column, the Int64 for an int  *)
(* column, and row 0 for a constant column whatever i is.  Every column  *)
(* ref is read back from every block that holds it at some row.          *)
ColumnReadsRow ==
    \A i \in 0..1 :
        /\ ref \in ColumnRefs /\ ref.is_common_handle =>
              /\ \A rows \in Rows(BoundedSeq(Byte, MaxLen - 1)) :
                    i < Len(rows) /\ rows[i + 1] = ref.data =>
                       getRowKeyValue(RowKeyColumnContainer(Column(FALSE, StringColumn(rows)), TRUE), i) = ref
              /\ getRowKeyValue(RowKeyColumnContainer(Column(TRUE, StringColumn(<<ref.data>>)), TRUE), i) = ref
        /\ ref \in ColumnRefs /\ ~ref.is_common_handle =>
              /\ \A rows \in Rows(Ints) :
                    i < Len(rows) /\ rows[i + 1] = ref.int_value =>
                       getRowKeyValue(RowKeyColumnContainer(Column(FALSE, IntColumn(rows)), FALSE), i) = ref
              /\ getRowKeyValue(RowKeyColumnContainer(Column(TRUE, IntColumn(<<ref.int_value>>)), FALSE), i) = ref

-----------------------------------------------------------------------------
(* Spec section 8 states "a.toNext() > a" for every row key value,        *)
(* sentinels included.                                                     *)
ToNextIsGreater ==
    \A v \in Values :
        toRowKeyValueRef(v) = ref =>
            Cmp(ref, toRowKeyValueRef(toNext(v))) = -1

(* The doc comment of RowKeyValue::toPrefixNext: the range                *)
(* [this, this.toPrefixNext()) contains all keys with the prefix `this`.  *)
PrefixNextCoversPrefix ==
    \A v \in CommonValues :
        toRowKeyValueRef(v) = ref =>
            \A x \in BoundedSeq(Byte, MaxLen + 1) :
                IsPrefix(v.value, x) =>
                    /\ CommonHandleCompare(v.value, x) <= 0
                    /\ CommonHandleCompare(x, toPrefixNext(v).value) < 0
=============================================================================
