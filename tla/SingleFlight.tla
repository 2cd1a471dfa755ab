---------------------------- MODULE SingleFlight ----------------------------
(***************************************************************************)
(* What get_or_set of infrastructure/cache.py promises its callers, with   *)
(* no lock, no queue and no deadline: for each key at most one factory     *)
(* call is in flight, one takes off only when no value younger than the    *)
(* TTL is stored, and every value handed out is younger than the TTL.      *)
(* Who is served next, and when stale values are dropped, is left open.    *)
(***************************************************************************)
EXTENDS Integers

CONSTANTS
    Callers,    \* coroutines that call get_or_set
    Keys,       \* cache keys
    TTL,        \* seconds a value stays valid
    MaxTime     \* bound on the clock

VARIABLES
    now,        \* the monotonic clock
    made,       \* when the value stored under each key was made, or Nothing
    flight,     \* callers whose factory call for the key is in flight
    asking,     \* callers that wait for a value of the key
    served      \* age of the last value each caller was handed

vars == <<now, made, flight, asking, served>>

Nothing == -1

Init ==
    /\ now = 0
    /\ made = [k \in Keys |-> Nothing]
    /\ flight = [k \in Keys |-> {}]
    /\ asking = [k \in Keys |-> {}]
    /\ served = [c \in Callers |-> 0]

Fresh(k) == made[k] # Nothing /\ now - made[k] < TTL

Busy(c) == \E k \in Keys : c \in flight[k] \cup asking[k]

Drops == {made} \cup {[made EXCEPT ![k] = Nothing] : k \in {k \in Keys : ~Fresh(k)}}

\* A call that does not find a value at once joins those who wait for one.
Ask(c, k) ==
    /\ ~Busy(c) /\ ~Fresh(k)
    /\ asking' = [asking EXCEPT ![k] = @ \cup {c}]
    /\ made' \in Drops
    /\ UNCHANGED <<now, flight, served>>

\* A factory call takes off, for a caller that asks or asks only now.
TakeOff(c, k) ==
    /\ c \in asking[k] \/ ~Busy(c)
    /\ ~Fresh(k) /\ flight[k] = {}
    /\ flight' = [flight EXCEPT ![k] = {c}]
    /\ asking' = [asking EXCEPT ![k] = @ \ {c}]
    /\ made' \in Drops
    /\ UNCHANGED <<now, served>>

\* The factory returns: its value is stored and handed to its caller.
Land(c, k) ==
    /\ c \in flight[k]
    /\ flight' = [flight EXCEPT ![k] = {}]
    /\ made' = [made EXCEPT ![k] = now]
    /\ served' = [served EXCEPT ![c] = 0]
    /\ UNCHANGED <<now, asking>>

\* A stored value is handed to a caller that asks or asks only now.
Serve(c, k) ==
    /\ c \in asking[k] \/ ~Busy(c)
    /\ Fresh(k)
    /\ asking' = [asking EXCEPT ![k] = @ \ {c}]
    /\ served' = [served EXCEPT ![c] = now - made[k]]
    /\ UNCHANGED <<now, made, flight>>

\* A call ends without a value.
GiveUp(c, k) ==
    /\ c \in flight[k] \cup asking[k]
    /\ flight' = [flight EXCEPT ![k] = @ \ {c}]
    /\ asking' = [asking EXCEPT ![k] = @ \ {c}]
    /\ UNCHANGED <<now, made, served>>

\* Values may also be stored or dropped from outside of any call.
Replace ==
    /\ made' \in [Keys -> {now, Nothing} \cup {made[k] : k \in Keys}]
    /\ \A k \in Keys : made'[k] \in {now, Nothing, made[k]}
    /\ UNCHANGED <<now, flight, asking, served>>

Tick ==
    /\ now < MaxTime
    /\ now' = now + 1
    /\ UNCHANGED <<made, flight, asking, served>>

Next ==
    \/ \E c \in Callers, k \in Keys :
        Ask(c, k) \/ TakeOff(c, k) \/ Land(c, k) \/ Serve(c, k) \/ GiveUp(c, k)
    \/ Replace \/ Tick

Spec == Init /\ [][Next]_vars

=============================================================================
