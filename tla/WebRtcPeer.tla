----------------------------- MODULE WebRtcPeer -----------------------------
(***************************************************************************)
(* PeerConnection of modules/modwebrtc.c.  Each has a native worker that   *)
(* drives the protocol; script threads give the GIL up while they use the  *)
(* connection, close() while it waits.  A soft reset closes every peer     *)
(* with the GIL held, before the other threads are told to exit, and what  *)
(* they still make is left to the finalisers.                              *)
(*                                                                         *)
(* What happens under the GIL without an atomic or a lock another thread   *)
(* sees is one step.  A constructor that fails undoes all it did under the *)
(* GIL and is left out.                                                    *)
(***************************************************************************)
EXTENDS WebRtcParameters, Naturals, FiniteSets

Threads == Script \cup {Main}

VARIABLES
  stage,        \* main: running scripts, or how far its soft reset is
  gil,          \* the owner of the GIL, of those that keep it over more than one step
  at,           \* where each thread is, and with which peer
  todo,         \* the peers webrtc_deinit_all has still to visit
  peer,         \* the objects
  registered,   \* webrtc_active_objs
  count,        \* webrtc_peer_count
  library       \* between peer_init and peer_deinit?

registry == <<registered, count, library>>
reset == <<stage, todo>>
vars == <<reset, gil, at, peer, registry>>

NoPeer == [live |-> FALSE, closed |-> FALSE, active |-> 0, pc |-> FALSE, worker |-> "none", mutex |-> Nobody]
Away == [pc |-> "idle", peer |-> Nobody]
Goto(t, pc) == at' = [at EXCEPT ![t].pc = pc]
Leave(t) == at' = [at EXCEPT ![t] = Away]

Init ==
  /\ stage = "run" /\ todo = {}
  /\ gil = Nobody
  /\ at = [t \in Threads |-> Away]
  /\ peer = [p \in Peers |-> NoPeer]
  /\ registered = {} /\ count = 0 /\ library = FALSE

\* The thread runs Python, which takes the GIL.
RunsPython(t) == at[t].pc = "idle" /\ gil = Nobody /\ (t = Main => stage = "run")

-----------------------------------------------------------------------------
(* Construction and the registry. *)

\* webrtc_peer_make_new and webrtc_register_peer, when nothing fails
Make(t, p) ==
  /\ RunsPython(t) /\ ~peer[p].live
  /\ Cardinality(registered) < MaxPeers
  /\ registered' = registered \cup {p}
  /\ count' = count + 1
  /\ library' = (library \/ count = 0)
  /\ peer' = [peer EXCEPT ![p] = [NoPeer EXCEPT !.live = TRUE, !.pc = TRUE, !.worker = "check"]]
  /\ UNCHANGED <<reset, gil, at>>

\* webrtc_unregister_peer, which only the closer of a peer calls; close() takes the GIL again first.
Unregister(t) ==
  LET p == at[t].peer
  IN /\ at[t].pc = "unregister" /\ gil \in {Nobody, t}
     /\ IF p \in registered
        THEN /\ registered' = registered \ {p}
             /\ count' = count - 1
             /\ library' = (library /\ count' # 0)
        ELSE UNCHANGED registry
     /\ Leave(t)
     /\ UNCHANGED <<reset, gil, peer>>

-----------------------------------------------------------------------------
(* A call: create_offer, create_answer, set_remote_description,            *)
(* add_ice_candidate, send_video and send_audio.                           *)

\* webrtc_begin_call counts the call ...
CallCounts(t, p) ==
  /\ RunsPython(t) /\ peer[p].live
  /\ gil' = t
  /\ peer' = [peer EXCEPT ![p].active = @ + 1]
  /\ at' = [at EXCEPT ![t] = [pc |-> "begin", peer |-> p]]
  /\ UNCHANGED <<reset, registry>>

Mut_ChecksConnectionOnly(t) ==
  LET p == at[t].peer
  IN /\ at[t].pc = "begin"
     /\ gil' = Nobody
     /\ \/ /\ peer' = [peer EXCEPT ![p].active = @ - 1]
           /\ Leave(t)
        \/ peer[p].pc /\ Goto(t, "call") /\ UNCHANGED peer
     /\ UNCHANGED <<reset, registry>>

\* ... before it looks whether the peer is closed.  A copy of an argument that cannot be made ends the call too.
CallChecks(t) ==
  LET p == at[t].peer
  IN /\ at[t].pc = "begin"
     /\ gil' = Nobody
     /\ \/ /\ peer' = [peer EXCEPT ![p].active = @ - 1]
           /\ Leave(t)
        \/ ~peer[p].closed /\ peer[p].pc /\ Goto(t, "call") /\ UNCHANGED peer
     /\ UNCHANGED <<reset, registry>>

CallLocks(t) ==
  LET p == at[t].peer
  IN /\ at[t].pc = "call" /\ peer[p].mutex = Nobody
     /\ peer' = [peer EXCEPT ![p].mutex = t]
     /\ Goto(t, "inside")
     /\ UNCHANGED <<reset, gil, registry>>

CallUnlocks(t) ==
  LET p == at[t].peer
  IN /\ at[t].pc = "inside"
     /\ peer' = [peer EXCEPT ![p].mutex = Nobody]
     /\ Goto(t, "end")
     /\ UNCHANGED <<reset, gil, registry>>

\* webrtc_end_call comes before MP_THREAD_GIL_ENTER.
EndCall(t) ==
  LET p == at[t].peer
  IN /\ at[t].pc = "end"
     /\ peer' = [peer EXCEPT ![p].active = @ - 1]
     /\ Goto(t, "return")
     /\ UNCHANGED <<reset, gil, registry>>

Return(t) ==
  /\ at[t].pc = "return" /\ gil = Nobody
  /\ Leave(t)
  /\ UNCHANGED <<reset, gil, peer, registry>>

-----------------------------------------------------------------------------
(* webrtc_worker. *)

WorkerChecks(p) ==
  /\ peer[p].worker = "check"
  /\ peer' = [peer EXCEPT ![p].worker = IF peer[p].closed THEN "done" ELSE "lock"]
  /\ UNCHANGED <<reset, gil, at, registry>>

WorkerLocks(p) ==
  /\ peer[p].worker = "lock" /\ peer[p].mutex = Nobody
  /\ peer' = [peer EXCEPT ![p].worker = "loop", ![p].mutex = p]
  /\ UNCHANGED <<reset, gil, at, registry>>

WorkerUnlocks(p) ==
  /\ peer[p].worker = "loop"
  /\ peer' = [peer EXCEPT ![p].worker = "check", ![p].mutex = Nobody]
  /\ UNCHANGED <<reset, gil, at, registry>>

Worker(p) == WorkerChecks(p) \/ WorkerLocks(p) \/ WorkerUnlocks(p)

-----------------------------------------------------------------------------
(* Closing. *)

\* webrtc_close gives the GIL up.  The sweep of a reset calls it for every object.
Close(t, p) ==
  /\ RunsPython(t) \/ (t = Main /\ stage = "sweep" /\ at[t].pc = "idle")
  /\ peer[p].live
  /\ at' = [at EXCEPT ![t] = [pc |-> "close", peer |-> p]]
  /\ UNCHANGED <<reset, gil, peer, registry>>

\* webrtc_close_internal: the exchange on closed, and stop_requested, which only the worker reads
CloseOnce(t) ==
  LET p == at[t].peer
  IN /\ at[t].pc = "close"
     /\ IF peer[p].closed
        THEN UNCHANGED peer /\ IF gil = t THEN Leave(t) ELSE Goto(t, "return")
        ELSE peer' = [peer EXCEPT ![p].closed = TRUE] /\ Goto(t, "drain")
     /\ UNCHANGED <<reset, gil, registry>>

Drained(t) ==
  /\ at[t].pc = "drain" /\ peer[at[t].peer].active = 0
  /\ Goto(t, "join")
  /\ UNCHANGED <<reset, gil, peer, registry>>

Joined(t) ==
  LET p == at[t].peer
  IN /\ at[t].pc = "join" /\ peer[p].worker = "done"
     /\ peer' = [peer EXCEPT ![p].worker = "none"]
     /\ Goto(t, "destroy")
     /\ UNCHANGED <<reset, gil, registry>>

\* The connection is destroyed under the mutex, then the mutex.
Destroy(t) ==
  LET p == at[t].peer
  IN /\ at[t].pc = "destroy" /\ peer[p].mutex = Nobody
     /\ peer' = [peer EXCEPT ![p].pc = FALSE, ![p].mutex = Destroyed]
     /\ Goto(t, "unregister")
     /\ UNCHANGED <<reset, gil, registry>>

\* An object that nothing refers to is swept; its finaliser finds it closed.
Collect(p) ==
  /\ peer[p].live /\ p \notin registered
  /\ \A t \in Threads : at[t].peer # p
  /\ stage \in {"run", "exit"} /\ gil = Nobody
  /\ peer' = [peer EXCEPT ![p].live = FALSE]
  /\ UNCHANGED <<reset, gil, at, registry>>

-----------------------------------------------------------------------------
(* The soft reset, in main_(). *)

\* webrtc_deinit_all.  Without the GIL nobody changes the registry while it goes through it.
StartDeinit ==
  /\ RunsPython(Main)
  /\ stage' = "deinit" /\ gil' = Main /\ todo' = registered
  /\ UNCHANGED <<at, peer, registry>>

VisitPeer ==
  /\ stage = "deinit" /\ at[Main].pc = "idle"
  /\ \E p \in todo :
       /\ todo' = todo \ {p}
       /\ at' = [at EXCEPT ![Main] = [pc |-> "close", peer |-> p]]
  /\ UNCHANGED <<stage, gil, peer, registry>>

\* The other threads are told to exit, and get the GIL to do so.
DeinitDone ==
  /\ stage = "deinit" /\ at[Main].pc = "idle" /\ todo = {}
  /\ stage' = "exit" /\ gil' = Nobody
  /\ UNCHANGED <<todo, at, peer, registry>>

Exit(t) ==
  /\ stage = "exit" /\ at[t].pc = "idle" /\ gil = Nobody
  /\ Goto(t, "gone")
  /\ UNCHANGED <<reset, gil, peer, registry>>

\* mp_thread_shutdown_workers, then gc_sweep_all
StartSweep ==
  /\ stage = "exit" /\ \A t \in Script : at[t].pc = "gone"
  /\ stage' = "sweep"
  /\ UNCHANGED <<todo, gil, at, peer, registry>>

\* An object is freed when its finaliser has returned, whatever refers to it.
SweepFrees(p) ==
  /\ stage = "sweep" /\ at[Main].pc = "idle" /\ peer[p].live /\ peer[p].closed
  /\ peer' = [peer EXCEPT ![p].live = FALSE]
  /\ UNCHANGED <<reset, gil, at, registry>>

Boot ==
  /\ stage = "sweep" /\ at[Main].pc = "idle" /\ \A p \in Peers : ~peer[p].live
  /\ stage' = "run"
  /\ at' = [t \in Threads |-> Away]
  /\ UNCHANGED <<todo, gil, peer, registry>>

-----------------------------------------------------------------------------
Thread(t) ==
  \/ \E p \in Peers : Make(t, p) \/ CallCounts(t, p) \/ Close(t, p)
  \/ CallChecks(t) \/ CallLocks(t) \/ CallUnlocks(t) \/ EndCall(t) \/ Return(t)
  \/ CloseOnce(t) \/ Drained(t) \/ Joined(t) \/ Destroy(t) \/ Unregister(t)

Next ==
  \/ \E t \in Threads : Thread(t)
  \/ \E p \in Peers : Worker(p) \/ Collect(p) \/ SweepFrees(p)
  \/ StartDeinit \/ VisitPeer \/ DeinitDone \/ StartSweep \/ Boot
  \/ \E t \in Script : Exit(t)

\* What a thread does in a call or a close; main keeps the GIL while it deinitialises.
Proceed(t) ==
  \/ CallChecks(t) \/ CallLocks(t) \/ CallUnlocks(t) \/ EndCall(t)
  \/ CloseOnce(t) \/ Joined(t) \/ Destroy(t)
  \/ gil = t /\ Unregister(t)

\* Threads and workers that are not waiting run.  The drain polls every millisecond, so that the two instructions in
\* which a refused call is counted do not hide the zero for ever.
Fairness ==
  /\ \A t \in Threads : WF_vars(Proceed(t)) /\ SF_vars(Drained(t))
  /\ WF_vars(VisitPeer \/ DeinitDone)
  /\ \A p \in Peers : WF_vars(Worker(p))

Spec == Init /\ [][Next]_vars /\ Fairness

-----------------------------------------------------------------------------
\* The values every variable may take.
TypeOK ==
  /\ stage \in {"run", "deinit", "exit", "sweep"} /\ todo \subseteq Peers
  /\ gil \in Threads \cup {Nobody}
  /\ at \in [Threads -> [pc : {"idle", "begin", "call", "inside", "end", "return", "close", "drain", "join", "destroy",
                               "unregister", "gone"},
                         peer : Peers \cup {Nobody}]]
  /\ peer \in [Peers -> [live : BOOLEAN, closed : BOOLEAN, active : Nat, pc : BOOLEAN,
                         worker : {"none", "check", "lock", "loop", "done"},
                         mutex : Threads \cup Peers \cup {Nobody, Destroyed}]]
  /\ registered \subseteq Peers /\ count \in Nat /\ library \in BOOLEAN

InCall(t, p) == at[t].peer = p /\ at[t].pc \in {"call", "inside"}

\* Neither a call nor the worker meets a connection or a mutex that was destroyed, or a freed object.
UsedAlive ==
  \A p \in Peers :
    (\E t \in Threads : InCall(t, p)) \/ peer[p].worker # "none" => peer[p].pc /\ peer[p].mutex # Destroyed

\* The object of a thread that is in it has not been freed.
ObjectsAlive == \A t \in Threads : at[t].peer # Nobody => peer[at[t].peer].live

\* A connection is registered, so that the collector keeps its object and the reset finds it, and the library is up
\* as long as there is one, and no longer than peers are registered.
RegistryExact ==
  /\ \A p \in Peers : peer[p].pc => p \in registered
  /\ \A p \in registered : peer[p].live
  /\ count = Cardinality(registered) /\ library = (registered # {})

\* Nothing of a peer outlives the VM: the next one starts with an empty registry, no worker and no library.
SweptClean ==
  stage = "sweep" /\ (\A p \in Peers : ~peer[p].live) =>
    /\ registered = {} /\ ~library
    /\ \A p \in Peers : peer[p].worker = "none" /\ ~peer[p].pc

\* Peers are used while they are there and are gone with the VM, however calls, closes and a reset overlap.
PeersSound == UsedAlive /\ ObjectsAlive /\ RegistryExact /\ SweptClean

\* A close comes to its end, also the one of a reset, which holds the GIL while it waits for calls and worker.
ClosesEnd ==
  /\ \A t \in Threads : at[t].pc = "drain" ~> at[t].pc = "unregister"
  /\ stage = "deinit" ~> stage = "exit"
=============================================================================
