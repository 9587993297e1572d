---------------------------- MODULE TopologyCow ----------------------------
(***************************************************************************)
(* TopologyState: a map that is never changed in place.  AddWarmingUp,     *)
(* Activate and Remove load the current map, change a copy of it and store *)
(* the copy; Get and WarmingUpPairs are one load of an immutable map.      *)
(*                                                                         *)
(* The Go and Kotlin implementations hold a lock from before the load      *)
(* until after the store.  rust-impl holds none, and relies on the engine  *)
(* being the only writer.                                                  *)
(***************************************************************************)
CONSTANTS
  Keys,          \* the pair keys
  Writers,       \* the threads that call AddWarmingUp, Activate or Remove
  Nobody,        \* the owner of a lock nobody holds
  Locked,        \* whether a write takes the lock
  Guarded        \* whether Activate returns early unless the pair is WarmingUp

ASSUME CowAssumption ==
  /\ Nobody \notin Writers
  /\ Locked \in BOOLEAN
  /\ Guarded \in BOOLEAN
  /\ Locked \/ \A v, w \in Writers : v = w

VARIABLES
  map,           \* the map the atomic reference points to
  mu,            \* the owner of the lock
  wr             \* the call each writer has under way

cowVars == <<map, mu, wr>>

Statuses == {"None", "WarmingUp", "Active", "Removed"}

Maps == [Keys -> Statuses]

CowInit ==
  /\ map = [k \in Keys |-> "None"]
  /\ mu = Nobody
  /\ wr = [w \in Writers |-> [at |-> "idle"]]

-----------------------------------------------------------------------------
(* Plausible bugs, for the mutation runs. *)

(* The lock is not waited for. *)
EnterAtOnce(w) ==
  /\ wr[w].at = "waiting"
  /\ mu' = w
  /\ wr' = [wr EXCEPT ![w].at = "locked"]
  /\ UNCHANGED map

(* Activate tries again until it finds the pair warming up. *)
RetryActivate(w) ==
  /\ wr[w].at = "locked"
  /\ Guarded /\ wr[w].status = "Active" /\ map[wr[w].key] # "WarmingUp"
  /\ wr' = [wr EXCEPT ![w].at = "waiting"]
  /\ mu' = IF Locked THEN Nobody ELSE mu
  /\ UNCHANGED map

-----------------------------------------------------------------------------
(* A call is made that will set the status of a pair. *)
Call(w, k, s) ==
  /\ wr[w].at = "idle"
  /\ wr' = [wr EXCEPT ![w] = [at |-> "waiting", key |-> k, status |-> s]]
  /\ UNCHANGED <<map, mu>>

AddWarmingUp(w, k) == Call(w, k, "WarmingUp")

Activate(w, k) == Call(w, k, "Active")

Remove(w, k) == Call(w, k, "Removed")

(* mu.Lock, where there is one. *)
Enter(w) ==
  /\ wr[w].at = "waiting"
  /\ IF Locked THEN mu = Nobody /\ mu' = w ELSE UNCHANGED mu
  /\ wr' = [wr EXCEPT ![w].at = "locked"]
  /\ UNCHANGED map

(* Activate of go-pure-impl finds the pair in another state. *)
ReturnEarly(w) ==
  /\ wr[w].at = "locked"
  /\ Guarded /\ wr[w].status = "Active" /\ map[wr[w].key] # "WarmingUp"
  /\ wr' = [wr EXCEPT ![w] = [at |-> "idle"]]
  /\ mu' = IF Locked THEN Nobody ELSE mu
  /\ UNCHANGED map

(* The map is loaded, and a copy of it changed. *)
Copy(w) ==
  /\ wr[w].at = "locked"
  /\ ~(Guarded /\ wr[w].status = "Active" /\ map[wr[w].key] # "WarmingUp")
  /\ wr' = [wr EXCEPT ![w] =
              [at |-> "copied", key |-> @.key, status |-> @.status,
               copy |-> [map EXCEPT ![wr[w].key] = wr[w].status]]]
  /\ UNCHANGED <<map, mu>>

(* The reference is set to the copy. *)
Store(w) ==
  /\ wr[w].at = "copied"
  /\ map' = wr[w].copy
  /\ wr' = [wr EXCEPT ![w] = [at |-> "stored"]]
  /\ UNCHANGED mu

(* The deferred Unlock, and the return. *)
Unlock(w) ==
  /\ wr[w].at = "stored"
  /\ mu' = IF Locked THEN Nobody ELSE mu
  /\ wr' = [wr EXCEPT ![w] = [at |-> "idle"]]
  /\ UNCHANGED map

Write(w) == ReturnEarly(w) \/ Copy(w) \/ Store(w) \/ Unlock(w)

CowNext ==
  \E w \in Writers :
    \/ \E k \in Keys : AddWarmingUp(w, k) \/ Activate(w, k) \/ Remove(w, k)
    \/ Enter(w)
    \/ Write(w)

CowSpec == CowInit /\ [][CowNext]_cowVars

(* A thread inside the call is scheduled, and a mutex is not handed to the  *)
(* others for ever (sync.Mutex changes to its starvation mode).             *)
FairCowSpec == CowSpec /\ \A w \in Writers : WF_cowVars(Write(w)) /\ SF_cowVars(Enter(w))

-----------------------------------------------------------------------------
Calls ==
  [at : {"idle", "stored"}]
    \cup [at : {"waiting", "locked"}, key : Keys, status : Statuses \ {"None"}]
    \cup [at : {"copied"}, key : Keys, status : Statuses \ {"None"}, copy : Maps]

(* Types of the map, the lock and the calls. *)
TypeOK ==
  /\ map \in Maps
  /\ mu \in Writers \cup {Nobody}
  /\ wr \in [Writers -> Calls]

(* A copy about to be stored differs from the current map in its own pair    *)
(* only: no other write has been stored since it was taken.                 *)
CopyIsFresh ==
  \A w \in Writers :
    wr[w].at = "copied" => wr[w].copy = [map EXCEPT ![wr[w].key] = wr[w].status]

Atomic == INSTANCE StatusMap WITH status <- map

(* Concurrent writers lose no update, and Activate decides by the status it *)
(* replaces: the copy-on-write map is an atomic one.                        *)
AtomicMap == Atomic!Spec

(* Every call returns, the early return of Activate included. *)
CallsReturn == \A w \in Writers : wr[w].at # "idle" ~> wr[w].at = "idle"

=============================================================================
