------------------------- MODULE TimeZoneBundleCache -------------------------
(***************************************************************************)
(* UResourceBundleNative.cacheTimeZoneBundles (android_icu4j libcore_bridge *)
(* com_android_icu_util_UResourceBundleNative.cpp): open and close the four *)
(* time-zone bundles in turn so that ICU's bundle cache keeps them loaded.  *)
(* Each openDirectAndCloseRes has its own UErrorCode; a failure is logged   *)
(* and the next bundle is still tried.                                      *)
(*                                                                          *)
(* ures_openDirect either returns an open bundle, which also enters ICU's   *)
(* process-wide cache, or fails with an error code (a missing table, an     *)
(* allocation failure) and returns no bundle.                               *)
(***************************************************************************)
EXTENDS Integers, Sequences, FiniteSets

CONSTANTS
    AllocMayFail \* whether ures_openDirect may run out of memory

VARIABLES
    pc,          \* "open", "close" or "done"
    k,           \* the 1-based position of the bundle being handled
    status,      \* the current call's UErrorCode: "ok" or one of ErrorNames
    open,        \* bundles opened and not closed
    cached,      \* bundles ICU's cache holds
    log,         \* the ALOGE lines: <<bundle, error name>>
    available    \* the bundles ICU's data file holds

vars == <<pc, k, status, open, cached, log, available>>

(* Lines 38-41, in call order.                                             *)
TimeZoneBundles == <<"zoneinfo64", "timezoneTypes", "metaZones", "windowsZones">>

BundleSet == {TimeZoneBundles[n] : n \in DOMAIN TimeZoneBundles}

Bundle == TimeZoneBundles[k]

(* What ures_openDirect may report for bundle b.                         *)
OpenErrors(b) ==
    (IF b \in available THEN {} ELSE {"U_MISSING_RESOURCE_ERROR"})
    \cup (IF AllocMayFail THEN {"U_MEMORY_ALLOCATION_ERROR"} ELSE {})

(* Faulty variant, for mutation: ures_close left out.                     *)
CloseResNone(b) == open

(* Line 34: ures_close(res); the cache keeps the loaded data.             *)
CloseRes(b) == open \ {b}

(* Faulty variant, for mutation: one UErrorCode shared by the four calls, *)
(* so an earlier failure is still set when the next call starts.          *)
ResetStatusShared == status

(* Line 27: every openDirectAndCloseRes starts from U_ZERO_ERROR.         *)
ResetStatus == "ok"

(* Faulty variant, for mutation: one call past the last bundle.           *)
MoreBundlesPastEnd == k <= Len(TimeZoneBundles)

(* Lines 38-41: a call follows while bundles remain.                      *)
MoreBundles == k < Len(TimeZoneBundles)

Init ==
    /\ pc = "open" /\ k = 1 /\ status = "ok"
    /\ open = {} /\ cached = {} /\ log = <<>>
    /\ available \in SUBSET BundleSet

(* Lines 28-32: ures_openDirect(nullptr, res_name, &status); on failure  *)
(* log the error name and return.  ICU functions return at once, keeping *)
(* the failure, when the status passed in already holds one.              *)
OpenDirect ==
    /\ pc = "open"
    /\ \/ /\ status = "ok"
          /\ Bundle \in available
          /\ pc' = "close"
          /\ open' = open \cup {Bundle}
          /\ cached' = cached \cup {Bundle}
          /\ UNCHANGED <<status, log>>
       \/ \E e \in IF status = "ok" THEN OpenErrors(Bundle) ELSE {status} :
             /\ status' = e
             /\ pc' = "next"
             /\ log' = Append(log, <<Bundle, e>>)
             /\ UNCHANGED <<open, cached>>
    /\ UNCHANGED <<k, available>>

Close ==
    /\ pc = "close"
    /\ open' = CloseRes(Bundle)
    /\ pc' = "next"
    /\ UNCHANGED <<k, status, cached, log, available>>

(* Lines 38-41: go on with the next openDirectAndCloseRes, which starts   *)
(* from U_ZERO_ERROR (line 27), or return.                                *)
NextBundle ==
    /\ pc = "next"
    /\ IF MoreBundles
       THEN pc' = "open" /\ k' = k + 1 /\ status' = ResetStatus
       ELSE pc' = "done" /\ UNCHANGED <<k, status>>
    /\ UNCHANGED <<open, cached, log, available>>

Returned ==
    /\ pc = "done"
    /\ UNCHANGED vars

Next == OpenDirect \/ Close \/ NextBundle \/ Returned

Spec == Init /\ [][Next]_vars

-----------------------------------------------------------------------------
TypeOK ==
    /\ pc \in {"open", "close", "next", "done"}
    /\ k \in 1 .. Len(TimeZoneBundles)
    /\ status \in {"ok", "U_MISSING_RESOURCE_ERROR", "U_MEMORY_ALLOCATION_ERROR"}
    /\ open \cup cached \subseteq available
    /\ log \in Seq(BundleSet \X {"U_MISSING_RESOURCE_ERROR", "U_MEMORY_ALLOCATION_ERROR"})

LoggedBundles == {log[n][1] : n \in DOMAIN log}

(* When cacheTimeZoneBundles returns, each of the four bundles was tried  *)
(* on its own: it is in ICU's cache, or it was logged once with the error *)
(* its own ures_openDirect met (missing from the data, or out of memory). *)
(* A failure of one openDirectAndCloseRes must not make a later bundle    *)
(* that the data holds fail or go unloaded.                               *)
EveryBundleTried ==
    pc = "done" =>
        /\ \A b \in BundleSet : b \in cached \/ b \in LoggedBundles
        /\ cached \cap LoggedBundles = {}
        /\ Len(log) = Cardinality(LoggedBundles)
        /\ \A n \in DOMAIN log : log[n][2] \in OpenErrors(log[n][1])

(* Every bundle opened is closed before the next one is opened: at most   *)
(* one is ever open, and none when the call returns.                       *)
NoBundleLeak ==
    /\ \A b1, b2 \in open : b1 = b2
    /\ pc = "done" => open = {}
=============================================================================
