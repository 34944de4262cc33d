---------------------------- MODULE ProcessMutex ----------------------------
(***************************************************************************)
(* What the fixed-path process lock of src/lib/atomic-process-lock.js      *)
(* promises to its callers: one holder at a time; a caller is inside only  *)
(* while it is the holder; it stops being the holder only after it has     *)
(* left, or by the reclaim of a dead process.                              *)
(***************************************************************************)
CONSTANTS Ctx,       \* acquisitions; each has its own random token
          Process,   \* process incarnations (pid and start identity)
          ProcOf,    \* the process an acquisition runs in
          None       \* no holder

VARIABLES holder, inside, alive
vars == <<holder, inside, alive>>

Init == holder = None /\ inside = {} /\ alive = Process

Acquire(c) == /\ ProcOf[c] \in alive
              /\ holder = None
              /\ holder' = c
              /\ UNCHANGED <<inside, alive>>

Enter(c) == /\ holder = c
            /\ inside' = inside \cup {c}
            /\ UNCHANGED <<holder, alive>>

Leave(c) == inside' = inside \ {c} /\ UNCHANGED <<holder, alive>>

Release(c) == /\ ProcOf[c] \in alive
              /\ holder = c /\ c \notin inside
              /\ holder' = None
              /\ UNCHANGED <<inside, alive>>

Reclaim(c) == /\ holder = c
              /\ ProcOf[c] \notin alive
              /\ holder' = None
              /\ UNCHANGED <<inside, alive>>

Crash(p) == /\ alive' = alive \ {p}
            /\ inside' = {c \in inside : ProcOf[c] # p}
            /\ UNCHANGED holder

Next == \/ \E c \in Ctx : Acquire(c) \/ Enter(c) \/ Leave(c)
                          \/ Release(c) \/ Reclaim(c)
        \/ \E p \in Process : Crash(p)

Spec == Init /\ [][Next]_vars
=============================================================================
