---------------------------- MODULE MlModelStore ----------------------------
(***************************************************************************)
(* The model store of MlBreakEngine (icu4c/source/common/mlbe.cpp): the    *)
(* constructor and loadMLModel.  The "jaml" break-iterator bundle holds a  *)
(* string array modelKeys and an int vector modelValues; loadMLModel puts  *)
(* key idx -> value idx into the Hashtable fModel and subtracts every      *)
(* value from fNegativeSum.  Every resource call may fail, setting the    *)
(* shared UErrorCode that all later calls test first.                     *)
(*                                                                         *)
(* openBundles is the set of heap UResourceBundles the code has opened    *)
(* and not closed.                                                         *)
(***************************************************************************)
EXTENDS Integers, Sequences, SequencesExt, Functions

CONSTANTS
    Resources,    \* the bundles "jaml" may be: a record, or Missing
    Missing,      \* a bundle or a table entry that is not there
    NotAString,   \* a modelKeys entry getString cannot read
    UBValues,     \* what value[idx] may read past the end of the vector
    AllocMayFail, \* whether Hashtable construction or puti may run out of memory
    Int32Bits     \* the width of int32_t (32; at most 30 for TLC)

ASSUME Int32Bits \in 2 .. 30

VARIABLES
    resource,     \* the "jaml" bundle this process finds
    pc,
    status,       \* the UErrorCode passed to the constructor
    fModel,       \* the Hashtable: feature key -> weight
    fNegativeSum,
    valueVec,     \* value, the int vector read from modelValues
    keyArr,       \* stringArray, the modelKeys array
    idx,
    openBundles

vars == <<resource, pc, status, fModel, fNegativeSum, valueVec, keyArr, idx, openBundles>>

(* An int32_t, wrapping in two's complement as the build's 32-bit        *)
(* arithmetic does on a signed overflow.                                   *)
Int32(x) == ((x + 2^(Int32Bits - 1)) % 2^Int32Bits) - 2^(Int32Bits - 1)

(* puti(key, v): insert or overwrite.  uhash_puti keeps the integer in   *)
(* the entry's value slot, where zero means empty: a zero removes the key. *)
Put(m, k, v) ==
    IF v = 0 THEN [x \in DOMAIN m \ {k} |-> m[x]]
             ELSE [x \in DOMAIN m \cup {k} |-> IF x = k THEN v ELSE m[x]]

Fail == status' = "error" /\ pc' = "exit"

(* Faulty variant, for mutation: any entry read as a key.                  *)
ReadableAny(entry) == TRUE

(* Lines 307-309: getString succeeds on a string entry.                    *)
Readable(entry) == entry # NotAString

(* Faulty variant, for mutation: value[idx + 1] read for key idx.          *)
ValueAtNext(n) == IF n + 1 <= Len(valueVec) THEN {valueVec[n + 1]} ELSE UBValues

(* Line 311, value[idx] for the key at 1-based position n: past the end  *)
(* of the vector (U_ASSERT is compiled out) the read is undefined and may *)
(* yield any of UBValues.                                                  *)
ValueAt(n) == IF n <= Len(valueVec) THEN {valueVec[n]} ELSE UBValues

Init ==
    /\ resource \in Resources
    /\ pc = "ctor"
    /\ status = "ok"
    /\ fModel = [k \in {} |-> 0]
    /\ fNegativeSum = 0
    /\ valueVec = <<>> /\ keyArr = <<>> /\ idx = 0
    /\ openBundles = {}

(* Lines 21-31: fModel(status) builds the Hashtable; on failure the        *)
(* constructor returns before loading.                                     *)
Construct ==
    /\ pc = "ctor"
    /\ \/ pc' = "open" /\ UNCHANGED status
       \/ AllocMayFail /\ status' = "error" /\ pc' = "done"
    /\ UNCHANGED <<resource, fModel, fNegativeSum, valueVec, keyArr, idx, openBundles>>

(* Line 293: ures_openDirect(U_ICUDATA_BRKITR, "jaml").                    *)
OpenDirect ==
    /\ pc = "open"
    /\ IF resource = Missing
       THEN Fail /\ UNCHANGED openBundles
       ELSE pc' = "values" /\ openBundles' = openBundles \cup {"jaml"} /\ UNCHANGED status
    /\ UNCHANGED <<resource, fModel, fNegativeSum, valueVec, keyArr, idx>>

(* Lines 296-298: ures_getByKey(rb, "modelValues") opens a bundle held by  *)
(* a LocalUResourceBundlePointer; ures_getIntVector reads it.              *)
GetModelValues ==
    /\ pc = "values"
    /\ IF resource.values = Missing
       THEN Fail /\ UNCHANGED <<valueVec, openBundles>>
       ELSE /\ pc' = "keys"
            /\ valueVec' = resource.values
            /\ openBundles' = openBundles \cup {"modelValues"}
            /\ UNCHANGED status
    /\ UNCHANGED <<resource, fModel, fNegativeSum, keyArr, idx>>

(* Lines 301-304: modelKeys through the stack bundle; getArray.            *)
GetModelKeys ==
    /\ pc = "keys"
    /\ IF resource.keys = Missing
       THEN Fail /\ UNCHANGED keyArr
       ELSE pc' = "load" /\ keyArr' = resource.keys /\ UNCHANGED status
    /\ UNCHANGED <<resource, fModel, fNegativeSum, valueVec, idx, openBundles>>

(* Lines 306-313, a readable key while no error is pending: subtract     *)
(* value[idx] from fNegativeSum, then puti, which may fail.               *)
LoadEntry ==
    /\ pc = "load"
    /\ idx < Len(keyArr)
    /\ status = "ok"
    /\ Readable(keyArr[idx + 1])
    /\ \E v \in ValueAt(idx + 1) :
          /\ fNegativeSum' = Int32(fNegativeSum - v)
          /\ \/ fModel' = Put(fModel, keyArr[idx + 1], v) /\ UNCHANGED status
             \/ AllocMayFail /\ status' = "error" /\ UNCHANGED fModel
    /\ idx' = idx + 1
    /\ UNCHANGED <<resource, pc, valueVec, keyArr, openBundles>>

(* getString fails on an entry that is not a string; the loop goes on.    *)
LoadEntryNotString ==
    /\ pc = "load"
    /\ idx < Len(keyArr)
    /\ status = "ok"
    /\ ~Readable(keyArr[idx + 1])
    /\ status' = "error"
    /\ idx' = idx + 1
    /\ UNCHANGED <<resource, pc, fModel, fNegativeSum, valueVec, keyArr, openBundles>>

(* With an error pending, getString returns at once and the entry is     *)
(* skipped.                                                                *)
LoadEntrySkip ==
    /\ pc = "load"
    /\ idx < Len(keyArr)
    /\ status = "error"
    /\ idx' = idx + 1
    /\ UNCHANGED <<resource, pc, status, fModel, fNegativeSum, valueVec, keyArr, openBundles>>

LoadDone ==
    /\ pc = "load"
    /\ idx >= Len(keyArr)
    /\ pc' = "exit"
    /\ UNCHANGED <<resource, status, fModel, fNegativeSum, valueVec, keyArr, idx, openBundles>>

(* Return from loadMLModel: the LocalUResourceBundlePointer modelValue     *)
(* closes its bundle; rbp was orphan()ed at line 294, so nothing closes    *)
(* the "jaml" bundle.                                                      *)
Exit ==
    /\ pc = "exit"
    /\ pc' = "done"
    /\ openBundles' = openBundles \ {"modelValues"}
    /\ UNCHANGED <<resource, status, fModel, fNegativeSum, valueVec, keyArr, idx>>

Constructed ==
    /\ pc = "done"
    /\ UNCHANGED vars

Next ==
    \/ Construct \/ OpenDirect \/ GetModelValues \/ GetModelKeys
    \/ LoadEntry \/ LoadEntryNotString \/ LoadEntrySkip \/ LoadDone \/ Exit
    \/ Constructed

Spec == Init /\ [][Next]_vars

-----------------------------------------------------------------------------
TypeOK ==
    /\ pc \in {"ctor", "open", "values", "keys", "load", "exit", "done"}
    /\ status \in {"ok", "error"}
    /\ fNegativeSum \in -(2^(Int32Bits - 1)) .. 2^(Int32Bits - 1) - 1
    /\ idx \in 0 .. Len(keyArr)
    /\ openBundles \subseteq {"jaml", "modelValues"}
    /\ \A k \in DOMAIN fModel : k # NotAString /\ fModel[k] \in Int

(* The weights a resource specifies: key n -> value n.                     *)
ResourceWeights(r) ==
    [k \in ToSet(r.keys) |-> r.values[CHOOSE n \in DOMAIN r.keys : r.keys[n] = k]]

(* A constructor that reports success has loaded exactly the resource's   *)
(* key/value pairs, and its bias is the negated sum of the loaded weights *)
(* (spec.md 3): a failure at any entry, or a value subtracted but not     *)
(* stored, must surface as an error instead of a partial model.           *)
LoadedFaithfully ==
    pc = "done" /\ status = "ok" =>
        /\ fModel = ResourceWeights(resource)
        /\ fNegativeSum = -SumFunction(fModel)

(* A constructor that reports success was given as many values as keys    *)
(* (spec.md 7: a key/value size mismatch is a ResourceError).              *)
SizesChecked ==
    pc = "done" /\ status = "ok" => Len(resource.keys) = Len(resource.values)

(* The bias of a successfully constructed store is the negated sum of the *)
(* weights the Hashtable holds (spec.md 3: "bias = negative sum of all    *)
(* weights").  It relates the two results of the load loop at line 312:   *)
(* the subtraction and the puti that may overwrite an earlier key.        *)
BiasIsNegatedSum ==
    pc = "done" /\ status = "ok" => fNegativeSum = -SumFunction(fModel)

(* Once constructed, the engine holds no resource bundle open.             *)
NoBundleLeak ==
    pc = "done" => openBundles = {}
=============================================================================
