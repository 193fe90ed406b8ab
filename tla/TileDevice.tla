----------------------------- MODULE TileDevice -----------------------------
(***************************************************************************)
(* What a driver promises its callers, whatever the DMA does: a tile is a  *)
(* transaction.  Between its beginning and its commit or abort nobody      *)
(* reads a result or changes a parameter, and a commit reports the whole   *)
(* tile that was written, computed under one parameter.                    *)
(***************************************************************************)
CONSTANTS Threads, Writes, Reads, Stores, NoCall, NoThread,
          Params,         \* values of the accelerator's writable parameter
          Compute(_, _),  \* the result of a write under a parameter
          NoResult,       \* there is nothing to read
          FORGETS         \* does beginning a tile forget the last result?

VARIABLES pending,  \* the call each thread is in
          outcome,  \* what it will return: "ok", "failed", or not known yet
          got,      \* what it has read
          owner,    \* the thread whose tile is running
          param, result

vars == <<pending, outcome, got, owner, param, result>>

Init == /\ pending = [t \in Threads |-> NoCall]
        /\ outcome = [t \in Threads |-> "none"]
        /\ got = [t \in Threads |-> NoResult]
        /\ owner = NoThread /\ param \in Params /\ result = NoResult

Call(t) == /\ pending[t] = NoCall
           /\ \E c \in Writes \cup Reads \cup Stores :
                 pending' = [pending EXCEPT ![t] = c]
           /\ UNCHANGED <<outcome, got, owner, param, result>>

\* A call gets its outcome, once.
Decide(t, o) == outcome[t] = "none" /\ outcome' = [outcome EXCEPT ![t] = o]

Begin(t) == /\ pending[t] \in Writes /\ outcome[t] = "none" /\ owner = NoThread
            /\ owner' = t
            /\ result' = IF FORGETS THEN NoResult ELSE result
            /\ UNCHANGED <<pending, outcome, got, param>>

Commit(t) == /\ owner = t /\ Decide(t, "ok")
             /\ owner' = NoThread
             /\ result' = Compute(pending[t], param)
             /\ UNCHANGED <<pending, got, param>>

\* A call that fails leaves no trace but what Begin forgot.
Abort(t) == /\ pending[t] # NoCall /\ Decide(t, "failed")
            /\ owner' = IF owner = t THEN NoThread ELSE owner
            /\ UNCHANGED <<pending, got, param, result>>

Read(t) == /\ pending[t] \in Reads /\ owner = NoThread /\ Decide(t, "ok")
           /\ got' = [got EXCEPT ![t] = result]
           /\ UNCHANGED <<pending, owner, param, result>>

Store(t) == /\ pending[t] \in Stores /\ owner = NoThread /\ Decide(t, "ok")
            /\ param' = pending[t].slope
            /\ UNCHANGED <<pending, got, owner, result>>

Return(t) == /\ outcome[t] # "none"
             /\ pending' = [pending EXCEPT ![t] = NoCall]
             /\ outcome' = [outcome EXCEPT ![t] = "none"]
             /\ got' = [got EXCEPT ![t] = NoResult]
             /\ UNCHANGED <<owner, param, result>>

Next == \E t \in Threads :
            \/ Call(t) \/ Begin(t) \/ Commit(t) \/ Abort(t)
            \/ Read(t) \/ Store(t) \/ Return(t)

Spec == Init /\ [][Next]_vars
=============================================================================
