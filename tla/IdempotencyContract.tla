------------------------ MODULE IdempotencyContract ------------------------
(***************************************************************************)
(* What the port IdempotencyStore (domain/ports.py, domain/idempotency.py) *)
(* promises the callers of reserve(), complete() and release(), with no    *)
(* table, clock, expiry or retry in sight:                                 *)
(*                                                                         *)
(*  - NEW is granted to one caller per key at a time;                      *)
(*  - COMPLETED hands out what an earlier caller with the same key and     *)
(*    content recorded, after that caller's complete();                    *)
(*  - CONFLICT means that somebody did send other content under the key;   *)
(*  - IN_PROGRESS may be answered at any time: turning a caller away       *)
(*    invokes nothing.                                                     *)
(*                                                                         *)
(* A store may give up on a key, and then grants NEW without excluding     *)
(* anybody, and a complete() or release() that is carried out again later  *)
(* may undo what another caller was granted; from then on the key is       *)
(* unguarded.                                                              *)
(***************************************************************************)
CONSTANTS
    Callers,        \* requests that carry a key
    KeyOf(_),       \* the application and key of a caller
    HashOf(_)       \* the content of a caller's request

VARIABLES
    state,          \* where each caller is
    answer,         \* what each caller took away
    recorded,       \* callers whose result has been recorded
    unguarded       \* keys the store has given up on

contractVars == << state, answer, recorded, unguarded >>

SameKey(c, d) == KeyOf(c) = KeyOf(d)

Init ==
    /\ state = [c \in Callers |-> "idle"]
    /\ answer = [c \in Callers |-> "none"]
    /\ recorded = {}
    /\ unguarded = {}

\* A caller moves on, and may take an answer away.
Move(c, to) == state' = [state EXCEPT ![c] = to]
Take(c, what) == answer' = [answer EXCEPT ![c] = what]

Ask(c) ==
    /\ state[c] = "idle"
    /\ Move(c, "asking")
    /\ UNCHANGED << answer, recorded, unguarded >>

\* NEW: nobody else is working under the key.
Grant(c) ==
    /\ \A d \in Callers : state[d] = "working" /\ SameKey(c, d) => KeyOf(c) \in unguarded
    /\ UNCHANGED << answer, recorded, unguarded >>

\* NEW, although the store could not find out who is working under the key.
GiveUp(c) ==
    /\ unguarded' = unguarded \cup {KeyOf(c)}
    /\ UNCHANGED << answer, recorded >>

InProgress(c) == Take(c, "in_progress")

Conflict(c) ==
    /\ Take(c, "conflict")
    /\ \E d \in Callers : state[d] # "idle" /\ SameKey(c, d) /\ HashOf(c) # HashOf(d)

\* COMPLETED: c takes away the recorded result of an earlier caller.
Replay(c) ==
    \E d \in recorded :
        /\ state[d] \in {"leaving", "gone"} /\ SameKey(c, d) /\ HashOf(c) = HashOf(d)
        /\ Take(c, d)

\* reserve() fails, or the caller's process dies.
Raise(c) == UNCHANGED answer

\* The answer of reserve().
Reserve(c) ==
    /\ state[c] = "asking"
    /\ \/ Move(c, "working") /\ (Grant(c) \/ GiveUp(c))
       \/ /\ Move(c, "gone")
          /\ InProgress(c) \/ Conflict(c) \/ Replay(c) \/ Raise(c)
          /\ UNCHANGED << recorded, unguarded >>

Record(c) ==
    /\ recorded' = recorded \cup {c}
    /\ UNCHANGED << state, answer, unguarded >>

\* complete() or release() has done its work, which its caller is yet to hear.
Settle(c) ==
    /\ Move(c, "leaving")
    /\ UNCHANGED << answer, recorded, unguarded >>

\* complete() or release() may be carried out again before c hears of it, and
\* then undoes whatever others that have come under the key were granted.
Repeat(c) ==
    \/ UNCHANGED unguarded
    \/ /\ unguarded' = unguarded \cup {KeyOf(c)}
       /\ \E d \in Callers \ {c} : state[d] # "idle" /\ SameKey(c, d)

\* complete() returns, and the caller takes its own, recorded result away; or
\* release(), an exception, or the death of the caller's process ends the call.
Depart(c) ==
    /\ Move(c, "gone")
    /\ (c \in recorded /\ Take(c, c)) \/ UNCHANGED answer
    /\ UNCHANGED recorded

Work(c) ==
    /\ state[c] = "working"
    /\ Record(c) \/ Settle(c) \/ (Depart(c) /\ UNCHANGED unguarded)

Leave(c) ==
    /\ state[c] = "leaving"
    /\ Depart(c) \/ UNCHANGED << state, answer, recorded >>
    /\ Repeat(c)

Next ==
    \E c \in Callers :
        Ask(c) \/ Reserve(c) \/ Work(c) \/ Leave(c)

Spec == Init /\ [][Next]_contractVars

=============================================================================
