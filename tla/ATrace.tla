-------------------------------- MODULE ATrace --------------------------------
(***************************************************************************)
(* The ATrace JNI bindings (android_icu4j libcore_bridge                    *)
(* com_android_i18n_util_ATrace.cpp): nativeTraceBegin and nativeTraceEnd  *)
(* forward to the cutils ATRACE_BEGIN / ATRACE_END macros.                  *)
(*                                                                          *)
(* ATRACE_BEGIN(name) writes a "B" line for the calling thread only while  *)
(* the Dalvik trace tag is enabled, and ATRACE_END an "E" line likewise;   *)
(* another process turns tracing on and off at any time.  A NULL name is  *)
(* printed as "(null)".  ScopedUtfChars(env, event) throws                 *)
(* NullPointerException for a null jstring, and GetStringUTFChars may fail *)
(* with OutOfMemoryError; c_str() is then NULL.                            *)
(***************************************************************************)
EXTENDS JniThreads, Sequences

CONSTANTS
    Events        \* the non-null event names Java passes

VARIABLES
    event,        \* event[t]: the jstring of the current nativeTraceBegin
    eventName,    \* eventName[t]: event_name.c_str(), or NULL
    enabled,      \* atrace_is_tag_enabled(ATRACE_TAG_DALVIK)
    trace         \* trace[t]: the lines written for thread t

traceVars == <<event, eventName, enabled, trace>>

(* The outcomes of ScopedUtfChars event_name(env, e).                      *)
ScopedUtfChars(e) ==
    IF e = NULL
    THEN {[chars |-> NULL, exc |-> "NullPointerException"]}
    ELSE {[chars |-> e, exc |-> "none"]} \cup {[chars |-> NULL, exc |-> x] : x \in OOM}

CallNativeTraceBegin(t) ==
    \E e \in Events \cup {NULL} :
        /\ Enter(t, "nativeTraceBegin", "utf")
        /\ event' = [event EXCEPT ![t] = e]
        /\ UNCHANGED <<eventName, enabled, trace>>

(* Line 26: ScopedUtfChars event_name(env, event).                          *)
TraceBeginUtfChars(t) ==
    /\ pc[t] = "utf"
    /\ \E o \in ScopedUtfChars(event[t]) :
          /\ eventName' = [eventName EXCEPT ![t] = o.chars]
          /\ exc' = [exc EXCEPT ![t] = o.exc]
    /\ pc' = [pc EXCEPT ![t] = "begin"]
    /\ UNCHANGED <<native, ret, calls, effected, event, enabled, trace>>

(* Line 28: ATRACE_BEGIN(event_name.c_str()), whether or not c_str() is    *)
(* NULL.                                                                    *)
TraceBegin(t) ==
    /\ pc[t] = "begin"
    /\ IF enabled
       THEN /\ trace' = [trace EXCEPT ![t] = Append(@, <<"B", eventName[t]>>)]
            /\ effected' = [effected EXCEPT ![t] = TRUE]
       ELSE UNCHANGED <<trace, effected>>
    /\ pc' = [pc EXCEPT ![t] = "ret"]
    /\ UNCHANGED <<native, exc, ret, calls, event, eventName, enabled>>

(* Lines 25-29: nativeTraceBegin.                                           *)
NativeTraceBegin(t) == TraceBeginUtfChars(t) \/ TraceBegin(t)

CallNativeTraceEnd(t) ==
    /\ Enter(t, "nativeTraceEnd", "end")
    /\ UNCHANGED traceVars

(* Lines 31-33: ATRACE_END().                                               *)
NativeTraceEnd(t) ==
    /\ pc[t] = "end"
    /\ IF enabled
       THEN /\ trace' = [trace EXCEPT ![t] = Append(@, <<"E">>)]
            /\ effected' = [effected EXCEPT ![t] = TRUE]
       ELSE UNCHANGED <<trace, effected>>
    /\ pc' = [pc EXCEPT ![t] = "ret"]
    /\ UNCHANGED <<native, exc, ret, calls, event, eventName, enabled>>

(* Another process toggles the Dalvik tag (debug.atrace.tags.enableflags). *)
SetTracing ==
    /\ enabled' = ~enabled
    /\ UNCHANGED <<event, eventName, trace>> /\ UNCHANGED threadVars

(* event and event_name go out of scope when the native returns; the       *)
(* ScopedUtfChars destructor releases the chars.                          *)
TraceReturn(t) ==
    /\ event' = [event EXCEPT ![t] = NULL]
    /\ eventName' = [eventName EXCEPT ![t] = NULL]
    /\ UNCHANGED <<enabled, trace>>

TraceInit ==
    /\ event = [t \in Threads |-> NULL]
    /\ eventName = [t \in Threads |-> NULL]
    /\ enabled \in BOOLEAN
    /\ trace = [t \in Threads |-> <<>>]

TraceNext ==
    \/ \E t \in Threads :
          \/ CallNativeTraceBegin(t) \/ NativeTraceBegin(t)
          \/ CallNativeTraceEnd(t) \/ NativeTraceEnd(t)
    \/ SetTracing
=============================================================================
