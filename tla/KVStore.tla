------------------------------ MODULE KVStore -------------------------------
(***************************************************************************)
(* What a database promises to the handlers that call it: a map from keys  *)
(* to values on which every put, get, exists and erase takes effect in one *)
(* step between its call and its return.  With no_overwrite set, a put     *)
(* never changes a key that is there.  A call may fail, which leaves the   *)
(* map alone: a put or an erase says so, a get is answered as not found or *)
(* with an empty value, and an exists either way.                          *)
(***************************************************************************)
CONSTANTS Threads, Keys, Values, None

VARIABLES
    no_overwrite, \* the option the database was opened with
    kv,           \* the map: None where there is no key
    call,         \* the call of each thread, <<operation, key, value>>, or None
    ans,          \* its answer once it has taken effect, or None
    failed        \* the threads whose call has failed

vars == <<no_overwrite, kv, call, ans, failed>>

Operations == {"put", "get", "exists", "erase"}

Init ==
    /\ no_overwrite \in BOOLEAN
    /\ kv \in [Keys -> Values \cup {None}]
    /\ call = [t \in Threads |-> None]
    /\ ans = [t \in Threads |-> None]
    /\ failed = {}

Invoke(t, o, k, v) ==
    /\ call[t] = None
    /\ call' = [call EXCEPT ![t] = <<o, k, v>>]
    /\ UNCHANGED <<no_overwrite, kv, ans, failed>>

\* The call of t takes effect: key k gets value w and the call is answered a.
Effect(t, o, k, v, w, a) ==
    /\ call[t] = <<o, k, v>> /\ ans[t] = None
    /\ kv' = [kv EXCEPT ![k] = w]
    /\ ans' = [ans EXCEPT ![t] = a]
    /\ UNCHANGED <<no_overwrite, call, failed>>

\* The call of t fails, and is answered a.
Fail(t, o, k, v, a) ==
    /\ call[t] = <<o, k, v>> /\ ans[t] = None
    /\ ans' = [ans EXCEPT ![t] = a]
    /\ failed' = failed \cup {t}
    /\ UNCHANGED <<no_overwrite, kv, call>>

Put(t, k, v) ==
    \/ ~(no_overwrite /\ kv[k] # None) /\ Effect(t, "put", k, v, v, "SUCCESS")
    \/ no_overwrite /\ kv[k] # None    /\ Effect(t, "put", k, v, kv[k], "KEYEXISTS")
    \/ Fail(t, "put", k, v, "PUT")

Get(t, k, v) ==
    \/ kv[k] # None /\ Effect(t, "get", k, v, kv[k], kv[k])
    \/ kv[k] = None /\ Effect(t, "get", k, v, kv[k], "UNKNOWN_KEY")
    \/ \E a \in {"EMPTY", "UNKNOWN_KEY"} : Fail(t, "get", k, v, a)

Exists(t, k, v) ==
    \/ kv[k] # None /\ Effect(t, "exists", k, v, kv[k], "THERE")
    \/ kv[k] = None /\ Effect(t, "exists", k, v, kv[k], "NOT_THERE")
    \/ \E a \in {"THERE", "NOT_THERE"} : Fail(t, "exists", k, v, a)

\* An erase of a key that is not there may be refused.
Erase(t, k, v) ==
    \/ Effect(t, "erase", k, v, None, "SUCCESS")
    \/ kv[k] = None /\ Effect(t, "erase", k, v, None, "ERASE")
    \/ Fail(t, "erase", k, v, "ERASE")

Return(t) ==
    /\ ans[t] # None
    /\ call' = [call EXCEPT ![t] = None]
    /\ ans' = [ans EXCEPT ![t] = None]
    /\ failed' = failed \ {t}
    /\ UNCHANGED <<no_overwrite, kv>>

Next ==
    \E t \in Threads :
        \/ Return(t)
        \/ \E k \in Keys, v \in Values :
               \/ \E o \in Operations : Invoke(t, o, k, v)
               \/ Put(t, k, v) \/ Get(t, k, v) \/ Exists(t, k, v) \/ Erase(t, k, v)

Spec == Init /\ [][Next]_vars
=============================================================================
