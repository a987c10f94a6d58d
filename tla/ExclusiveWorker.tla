-------------------------- MODULE ExclusiveWorker --------------------------
(***************************************************************************)
(* What the worker bridge promises to the rest of the API, without queue,  *)
(* timers, signals or files: calls take turns on the application, a caller *)
(* is answered after its turn is over, and the one exception, a turn whose *)
(* end could not be proved, closes the bridge for good.  WorkerQueue       *)
(* implements this specification.                                          *)
(***************************************************************************)
CONSTANT Calls

VARIABLES
  holder,   \* the calls whose processes can act on the application
  status,   \* "idle", "waiting" or "answered"
  broken    \* no further turn will be granted

avars == <<holder, status, broken>>

AbsInit ==
  /\ holder = {}
  /\ status = [c \in Calls |-> "idle"]
  /\ broken = FALSE

Ask(c) ==
  /\ status[c] = "idle"
  /\ status' = [status EXCEPT ![c] = "waiting"]
  /\ UNCHANGED <<holder, broken>>

(* A turn begins: nobody else has one, and the call was not yet answered. *)
Enter(c) ==
  /\ holder = {} /\ ~broken /\ status[c] # "answered"
  /\ holder' = {c}
  /\ status' = [status EXCEPT ![c] = "waiting"]
  /\ UNCHANGED broken

Leave(c) ==
  /\ holder' = holder \ {c}
  /\ UNCHANGED <<status, broken>>

(* Some calls that have no turn (any more) are answered together. *)
Answer(S) ==
  /\ S \cap holder = {} /\ \A c \in S : status[c] # "answered"
  /\ status' = [c \in Calls |-> IF c \in S THEN "answered" ELSE status[c]]
  /\ UNCHANGED <<holder, broken>>

(* A call is answered although its turn was not seen to end. *)
GiveUp(c) ==
  /\ status[c] = "waiting"
  /\ status' = [status EXCEPT ![c] = "answered"]
  /\ broken' = TRUE
  /\ UNCHANGED holder

AbsNext ==
  \/ \E c \in Calls : Ask(c) \/ Enter(c) \/ Leave(c) \/ GiveUp(c)
  \/ \E S \in SUBSET Calls : Answer(S)

AbsSpec == AbsInit /\ [][AbsNext]_avars

=============================================================================
