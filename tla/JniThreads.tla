------------------------------ MODULE JniThreads ------------------------------
(***************************************************************************)
(* Java threads calling the native methods of android_icu4j's              *)
(* libcore_bridge.  Each thread runs one native call at a time; the JNIEnv *)
(* of a thread holds at most one pending Java exception, which is thrown   *)
(* in Java when the native returns.  A Java thread calls a native only     *)
(* with no exception pending: a thrown exception is caught or propagated   *)
(* in Java before the next call.                                           *)
(*                                                                         *)
(* The JNI helpers the bindings use (ScopedUtfChars, ScopedIcuLocale,      *)
(* jniCreateString, maybeThrowIcuException) are in libnativehelper and     *)
(* libcore, not in this repository; their outcomes are the choices JNI    *)
(* documents: a null jstring raises NullPointerException, a failed        *)
(* allocation returns NULL with OutOfMemoryError pending.                  *)
(***************************************************************************)
EXTENDS Integers

CONSTANTS
    Threads,      \* the Java threads
    MaxCalls,     \* native calls per thread
    AllocMayFail, \* whether a JNI or ICU allocation may fail
    NULL          \* the null jstring / jstring return

VARIABLES
    pc,           \* pc[t]: "idle", a step of the current native, or "ret"
    native,       \* native[t]: the native method thread t is running
    exc,          \* exc[t]: the pending exception, or "none"
    ret,          \* ret[t]: the jstring returned, NULL, or "void"
    calls,        \* calls[t]: native calls thread t has made
    effected      \* effected[t]: the current call changed process-wide state

threadVars == <<pc, native, exc, ret, calls, effected>>

(* A JNI allocation (GetStringUTFChars, NewString) that fails.            *)
OOM == IF AllocMayFail THEN {"OutOfMemoryError"} ELSE {}

(* Thread t enters native m: Java has no exception pending.               *)
Enter(t, m, firstPc) ==
    /\ pc[t] = "idle"
    /\ calls[t] < MaxCalls
    /\ pc' = [pc EXCEPT ![t] = firstPc]
    /\ native' = [native EXCEPT ![t] = m]
    /\ exc' = [exc EXCEPT ![t] = "none"]
    /\ ret' = [ret EXCEPT ![t] = "void"]
    /\ calls' = [calls EXCEPT ![t] = @ + 1]
    /\ effected' = [effected EXCEPT ![t] = FALSE]

(* The native returns to Java: a pending exception is thrown there and    *)
(* leaves the JNIEnv; the native's frame is gone.                          *)
Leave(t) ==
    /\ pc[t] = "ret"
    /\ pc' = [pc EXCEPT ![t] = "idle"]
    /\ native' = [native EXCEPT ![t] = "none"]
    /\ exc' = [exc EXCEPT ![t] = "none"]
    /\ ret' = [ret EXCEPT ![t] = "void"]
    /\ effected' = [effected EXCEPT ![t] = FALSE]
    /\ UNCHANGED calls

ThreadsInit ==
    /\ pc = [t \in Threads |-> "idle"]
    /\ native = [t \in Threads |-> "none"]
    /\ exc = [t \in Threads |-> "none"]
    /\ ret = [t \in Threads |-> "void"]
    /\ calls = [t \in Threads |-> 0]
    /\ effected = [t \in Threads |-> FALSE]
=============================================================================
