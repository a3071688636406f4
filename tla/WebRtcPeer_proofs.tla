------------------------- MODULE WebRtcPeer_proofs -------------------------
(***************************************************************************)
(* Theorems about WebRtcPeer, W in the instance of MCIndependent, for any  *)
(* script threads, any peers and any limit on them.                        *)
(***************************************************************************)
EXTENDS MCIndependent, FiniteSetTheorems, TLAPS

(* The instance has names of its own for a few constants, and an operator  *)
(* for the size of a set.                                                  *)
LEMMA PeerConstants ==
  /\ W!Main \notin Script
  /\ {W!Nobody, W!Destroyed} \cap (Script \cup Peers) = {}
BY WebRtcAssumption DEF Main, Nobody, Destroyed, W!Main, W!Nobody, W!Destroyed

\* The size of a set.
LEMMA PeerCardinality == \A X : W!Cardinality(X) = Cardinality(X)
BY DEF W!Cardinality, Cardinality

\* The calls that the counter of a peer counts, and the thread that closes it.
Callers(p) == {t \in W!Threads : at[t].peer = p /\ at[t].pc \in {"begin", "call", "inside", "end"}}
Closing(t, p) == at[t].peer = p /\ at[t].pc \in {"drain", "join", "destroy", "unregister"}

\* A thread has a peer while it is in a call or in close(), and the peer is not freed.
Places ==
  /\ \A t \in W!Threads : at[t].pc \in {"idle", "gone"} <=> at[t].peer = W!Nobody
  /\ W!ObjectsAlive

\* active is the number of the calls that have been counted.
Counts == \A p \in Peers : IsFiniteSet(Callers(p)) /\ peer[p].active = Cardinality(Callers(p))

\* A peer is closed by one thread, which stays until it is off the registry.
OneCloser ==
  /\ \A t \in W!Threads, p \in Peers : Closing(t, p) => peer[p].closed
  /\ \A t, u \in W!Threads, p \in Peers : Closing(t, p) /\ Closing(u, p) => t = u
  /\ \A p \in registered : peer[p].closed => \E t \in W!Threads : Closing(t, p)

\* What a close has brought about by the time it is where it is.
Progress ==
  /\ \A t \in W!Threads, p \in Peers : at[t].peer = p =>
       /\ at[t].pc \in {"join", "destroy", "unregister"} => \A u \in W!Threads : ~W!InCall(u, p)
       /\ at[t].pc \in {"destroy", "unregister"} => peer[p].worker = "none"
       /\ at[t].pc = "unregister" => ~peer[p].pc
  /\ \A p \in Peers : peer[p].pc => peer[p].mutex # W!Destroyed

\* Whoever has the GIL over more than one step, and what a reset may rely on.
Lock ==
  /\ \A t \in W!Threads : at[t].pc = "begin" => gil = t
  /\ stage # "run" => at[W!Main].pc \in {"idle", "close", "drain", "join", "destroy", "unregister", "return"}
  /\ stage = "deinit" => gil = W!Main /\ todo \subseteq registered /\ at[W!Main].peer \notin todo
  /\ stage = "sweep" => \A t \in Script : at[t].pc = "gone"

\* The inductive invariant.
PeersInv == W!TypeOK /\ Places /\ Counts /\ OneCloser /\ Progress /\ Lock /\ W!UsedAlive /\ W!RegistryExact
            /\ IsFiniteSet(registered)

-----------------------------------------------------------------------------
PeerPoints == {"idle", "begin", "call", "inside", "end", "return", "close", "drain", "join", "destroy", "unregister",
               "gone"}
ThreadStates == [W!Threads -> [pc : PeerPoints, peer : Peers \cup {W!Nobody}]]
PeerRecords == [live : BOOLEAN, closed : BOOLEAN, active : Nat, pc : BOOLEAN,
                worker : {"none", "check", "lock", "loop", "done"},
                mutex : W!Threads \cup Peers \cup {W!Nobody, W!Destroyed}]
PeerStates == [Peers -> PeerRecords]

(* What Goto and Leave do to the places of the threads.                    *)
LEMMA MoveFacts ==
  ASSUME at \in ThreadStates, NEW t \in W!Threads
  PROVE  /\ \A a \in PeerPoints : W!Goto(t, a) =>
              /\ at' \in ThreadStates /\ at'[t].pc = a /\ at'[t].peer = at[t].peer
              /\ \A u \in W!Threads \ {t} : at'[u] = at[u]
         /\ W!Leave(t) =>
              /\ at' \in ThreadStates /\ at'[t].pc = "idle" /\ at'[t].peer = W!Nobody
              /\ \A u \in W!Threads \ {t} : at'[u] = at[u]
<1>1. ASSUME NEW a \in PeerPoints, W!Goto(t, a)
      PROVE  /\ at' \in ThreadStates /\ at'[t].pc = a /\ at'[t].peer = at[t].peer
             /\ \A u \in W!Threads \ {t} : at'[u] = at[u]
  BY <1>1 DEF W!Goto, ThreadStates
<1>2. ASSUME W!Leave(t)
      PROVE  /\ at' \in ThreadStates /\ at'[t].pc = "idle" /\ at'[t].peer = W!Nobody
             /\ \A u \in W!Threads \ {t} : at'[u] = at[u]
  <2>1. W!Away \in [pc : PeerPoints, peer : Peers \cup {W!Nobody}] /\ W!Away.pc = "idle" /\ W!Away.peer = W!Nobody
    BY DEF W!Away, PeerPoints
  <2> QED
    BY <1>2, <2>1 DEF W!Leave, ThreadStates
<1> QED
  BY <1>1, <1>2

(* One in the counted calls of a peer makes its counter positive.          *)
LEMMA CountedOnce ==
  ASSUME W!TypeOK, Counts, NEW t \in W!Threads, NEW p \in Peers, t \in Callers(p)
  PROVE  peer[p].active \in Nat /\ peer[p].active - 1 \in Nat
<1>1. peer[p].active \in Nat
  BY DEF W!TypeOK
<1>2. IsFiniteSet(Callers(p)) /\ peer[p].active = Cardinality(Callers(p))
  BY DEF Counts
<1>3. peer[p].active # 0
  BY <1>2, FS_EmptySet
<1> QED
  BY <1>1, <1>3

-----------------------------------------------------------------------------
(* Every step keeps the types,                                             *)
LEMMA PeersTypeStep ==
  ASSUME W!TypeOK, Places, Counts, W!RegistryExact, IsFiniteSet(registered), [W!Next]_W!vars
  PROVE  W!TypeOK'
<1>t. /\ stage \in {"run", "deinit", "exit", "sweep"} /\ todo \subseteq Peers
      /\ gil \in W!Threads \cup {W!Nobody} /\ at \in ThreadStates /\ peer \in PeerStates
      /\ registered \subseteq Peers /\ peers \in Nat /\ library \in BOOLEAN
  BY DEF W!TypeOK, ThreadStates, PeerStates, PeerRecords, PeerPoints
<1>n. /\ stage' \in {"run", "deinit", "exit", "sweep"} /\ todo' \subseteq Peers
      /\ gil' \in W!Threads \cup {W!Nobody} /\ at' \in ThreadStates /\ peer' \in PeerStates
      /\ registered' \subseteq Peers /\ peers' \in Nat /\ library' \in BOOLEAN
      => W!TypeOK'
  BY DEF W!TypeOK, ThreadStates, PeerStates, PeerRecords, PeerPoints
<1>m. W!Main \in W!Threads
  BY DEF W!Threads
<1>p. \A t \in W!Threads : at[t].pc \notin {"idle", "gone"} => at[t].peer \in Peers
  BY <1>t DEF ThreadStates, Places
<1>r. ASSUME NEW p \in Peers
      PROVE  /\ [peer EXCEPT ![p].closed = TRUE] \in PeerStates
             /\ [peer EXCEPT ![p].pc = FALSE, ![p].mutex = W!Destroyed] \in PeerStates
             /\ [peer EXCEPT ![p].worker = "loop", ![p].mutex = p] \in PeerStates
             /\ [peer EXCEPT ![p].worker = "check", ![p].mutex = W!Nobody] \in PeerStates
  <2>1. \A rec \in PeerRecords : [peer EXCEPT ![p] = rec] \in PeerStates
    BY <1>t DEF PeerStates
  <2>2. peer[p] \in PeerRecords
    BY <1>t DEF PeerStates
  <2>3. [peer[p] EXCEPT !.closed = TRUE] \in PeerRecords
    BY <2>2 DEF PeerRecords
  <2>4. [peer[p] EXCEPT !.pc = FALSE, !.mutex = W!Destroyed] \in PeerRecords
    BY <2>2 DEF PeerRecords
  <2>5. [peer[p] EXCEPT !.worker = "loop", !.mutex = p] \in PeerRecords
    BY <2>2 DEF PeerRecords
  <2>6. [peer[p] EXCEPT !.worker = "check", !.mutex = W!Nobody] \in PeerRecords
    BY <2>2 DEF PeerRecords
  <2>7. /\ [peer EXCEPT ![p].closed = TRUE] = [peer EXCEPT ![p] = [peer[p] EXCEPT !.closed = TRUE]]
        /\ [peer EXCEPT ![p].pc = FALSE, ![p].mutex = W!Destroyed]
             = [peer EXCEPT ![p] = [peer[p] EXCEPT !.pc = FALSE, !.mutex = W!Destroyed]]
        /\ [peer EXCEPT ![p].worker = "loop", ![p].mutex = p]
             = [peer EXCEPT ![p] = [peer[p] EXCEPT !.worker = "loop", !.mutex = p]]
        /\ [peer EXCEPT ![p].worker = "check", ![p].mutex = W!Nobody]
             = [peer EXCEPT ![p] = [peer[p] EXCEPT !.worker = "check", !.mutex = W!Nobody]]
    BY <1>t DEF PeerStates
  <2> QED
    BY <2>1, <2>3, <2>4, <2>5, <2>7, <2>6
<1>1. ASSUME NEW t \in W!Threads, NEW p \in Peers, W!Make(t, p)
      PROVE  W!TypeOK'
  <2>1. peer' \in PeerStates
    BY <1>t, <1>1 DEF W!Make, W!NoPeer, PeerStates, PeerRecords
  <2>2. library' \in BOOLEAN
    BY <1>t, <1>1 DEF W!Make
  <2>3. peers' \in Nat
    BY <1>t, <1>1 DEF W!Make
  <2> QED
    BY <1>t, <1>n, <1>1, <2>1, <2>2, <2>3 DEF W!Make, W!reset
<1>2. ASSUME NEW t \in W!Threads, NEW p \in Peers, W!CallCounts(t, p)
      PROVE  W!TypeOK'
  <2>1. peer' \in PeerStates
    BY <1>t, <1>2 DEF W!CallCounts, PeerStates, PeerRecords
  <2>2. at' \in ThreadStates
    BY <1>t, <1>2 DEF W!CallCounts, ThreadStates, PeerPoints
  <2> QED
    BY <1>t, <1>n, <1>2, <2>1, <2>2 DEF W!CallCounts, W!reset, W!registry
<1>3. ASSUME NEW t \in W!Threads, NEW p \in Peers, W!Close(t, p)
      PROVE  W!TypeOK'
  <2>1. at' \in ThreadStates
    BY <1>t, <1>3 DEF W!Close, ThreadStates, PeerPoints
  <2> QED
    BY <1>t, <1>n, <1>3, <2>1 DEF W!Close, W!reset, W!registry
<1>4. ASSUME NEW t \in W!Threads, W!CallChecks(t)
      PROVE  W!TypeOK'
  <2>1. at[t].peer \in Peers /\ t \in Callers(at[t].peer)
    BY <1>p, <1>4 DEF W!CallChecks, Callers
  <2>2. peer[at[t].peer].active - 1 \in Nat
    BY <2>1, CountedOnce
  <2>3. peer' \in PeerStates
    BY <1>t, <1>4, <2>1, <2>2 DEF W!CallChecks, PeerStates, PeerRecords
  <2>4. at' \in ThreadStates
    BY <1>t, <1>4, MoveFacts DEF W!CallChecks, PeerPoints
  <2> QED
    BY <1>t, <1>n, <1>4, <2>3, <2>4 DEF W!CallChecks, W!reset, W!registry
<1>5. ASSUME NEW t \in W!Threads, W!EndCall(t)
      PROVE  W!TypeOK'
  <2>1. at[t].peer \in Peers /\ t \in Callers(at[t].peer)
    BY <1>p, <1>5 DEF W!EndCall, Callers
  <2>2. peer[at[t].peer].active - 1 \in Nat
    BY <2>1, CountedOnce
  <2>3. peer' \in PeerStates
    BY <1>t, <1>5, <2>1, <2>2 DEF W!EndCall, PeerStates, PeerRecords
  <2>4. at' \in ThreadStates
    BY <1>t, <1>5, MoveFacts DEF W!EndCall, PeerPoints
  <2> QED
    BY <1>t, <1>n, <1>5, <2>3, <2>4 DEF W!EndCall, W!reset, W!registry
<1>6. ASSUME NEW t \in W!Threads, W!CallLocks(t) \/ W!CallUnlocks(t)
      PROVE  W!TypeOK'
  <2>1. at[t].peer \in Peers
    BY <1>p, <1>6 DEF W!CallLocks, W!CallUnlocks
  <2>2. peer' \in PeerStates
    BY <1>t, <1>6, <2>1 DEF W!CallLocks, W!CallUnlocks, PeerStates, PeerRecords
  <2>3. at' \in ThreadStates
    BY <1>t, <1>6, MoveFacts DEF W!CallLocks, W!CallUnlocks, PeerPoints
  <2> QED
    BY <1>t, <1>n, <1>6, <2>2, <2>3 DEF W!CallLocks, W!CallUnlocks, W!reset, W!registry
<1>7. ASSUME NEW t \in W!Threads, W!Return(t) \/ W!Drained(t)
      PROVE  W!TypeOK'
  <2>1. at' \in ThreadStates
    BY <1>t, <1>7, MoveFacts DEF W!Return, W!Drained, PeerPoints
  <2> QED
    BY <1>t, <1>n, <1>7, <2>1 DEF W!Return, W!Drained, W!reset, W!registry
<1>8. ASSUME NEW t \in W!Threads, W!CloseOnce(t) \/ W!Joined(t) \/ W!Destroy(t)
      PROVE  W!TypeOK'
  <2>1. at[t].peer \in Peers
    BY <1>p, <1>8 DEF W!CloseOnce, W!Joined, W!Destroy
  <2>2. peer' \in PeerStates
    <3>1. CASE W!CloseOnce(t)
      <4>1. UNCHANGED peer \/ peer' = [peer EXCEPT ![at[t].peer].closed = TRUE]
        BY <3>1 DEF W!CloseOnce
      <4> QED
        BY <1>t, <1>r, <2>1, <4>1
    <3>2. CASE W!Joined(t)
      BY <1>t, <2>1, <3>2 DEF W!Joined, PeerStates, PeerRecords
    <3>3. CASE W!Destroy(t)
      BY <1>t, <1>r, <2>1, <3>3 DEF W!Destroy
    <3> QED
      BY <1>8, <3>1, <3>2, <3>3
  <2>3. at' \in ThreadStates
    BY <1>t, <1>8, MoveFacts DEF W!CloseOnce, W!Joined, W!Destroy, PeerPoints
  <2> QED
    BY <1>t, <1>n, <1>8, <2>2, <2>3 DEF W!CloseOnce, W!Joined, W!Destroy, W!reset, W!registry
<1>9. ASSUME NEW t \in W!Threads, W!Unregister(t)
      PROVE  W!TypeOK'
  <2>1. at' \in ThreadStates
    BY <1>t, <1>9, MoveFacts DEF W!Unregister
  <2>2. registered' \subseteq Peers /\ peers' \in Nat /\ library' \in BOOLEAN
    <3>1. CASE UNCHANGED W!registry
      BY <1>t, <3>1 DEF W!registry
    <3>2. CASE at[t].peer \in registered
      <4>1. peers = Cardinality(registered) /\ Cardinality(registered) # 0
        BY <3>2, FS_EmptySet, PeerCardinality DEF W!RegistryExact
      <4>2. registered' = registered \ {at[t].peer} /\ peers' = peers - 1 /\ library' = (library /\ peers' # 0)
        BY <1>9, <3>2 DEF W!Unregister
      <4> QED
        BY <1>t, <4>1, <4>2
    <3> QED
      BY <1>9, <3>1, <3>2 DEF W!Unregister
  <2> QED
    BY <1>t, <1>n, <1>9, <2>1, <2>2 DEF W!Unregister, W!reset
<1>10. ASSUME NEW p \in Peers, W!Worker(p) \/ W!Collect(p) \/ W!SweepFrees(p)
       PROVE  W!TypeOK'
  <2>1. peer' \in PeerStates
    <3>1. CASE W!WorkerChecks(p)
      BY <1>t, <3>1 DEF W!WorkerChecks, PeerStates, PeerRecords
    <3>2. CASE W!WorkerLocks(p)
      BY <1>t, <1>r, <3>2 DEF W!WorkerLocks
    <3>3. CASE W!WorkerUnlocks(p)
      BY <1>t, <1>r, <3>3 DEF W!WorkerUnlocks
    <3>4. CASE W!Collect(p) \/ W!SweepFrees(p)
      <4>1. peer' = [peer EXCEPT ![p].live = FALSE]
        BY <3>4 DEF W!Collect, W!SweepFrees
      <4> QED
        BY <1>t, <4>1, ZenonT(60) DEF PeerStates, PeerRecords
    <3> QED
      BY <1>10, <3>1, <3>2, <3>3, <3>4 DEF W!Worker
  <2> QED
    BY <1>t, <1>n, <1>10, <2>1 DEF W!Worker, W!WorkerChecks, W!WorkerLocks, W!WorkerUnlocks, W!Collect,
      W!SweepFrees, W!reset, W!registry
<1>11. CASE W!StartDeinit \/ W!DeinitDone \/ W!StartSweep
  BY <1>t, <1>n, <1>m, <1>11 DEF W!StartDeinit, W!DeinitDone, W!StartSweep, W!registry
<1>12. CASE W!VisitPeer
  <2>1. at' \in ThreadStates /\ todo' \subseteq Peers
    BY <1>t, <1>m, <1>12 DEF W!VisitPeer, ThreadStates, PeerPoints
  <2> QED
    BY <1>t, <1>n, <1>12, <2>1 DEF W!VisitPeer, W!registry
<1>13. CASE W!Boot
  <2>1. at' \in ThreadStates
    BY <1>13 DEF W!Boot, W!Away, ThreadStates, PeerPoints
  <2> QED
    BY <1>t, <1>n, <1>13, <2>1 DEF W!Boot, W!registry
<1>14. ASSUME NEW t \in Script, W!Exit(t)
       PROVE  W!TypeOK'
  <2>1. at' \in ThreadStates
    BY <1>t, <1>14, MoveFacts DEF W!Exit, PeerPoints, W!Threads
  <2> QED
    BY <1>t, <1>n, <1>14, <2>1 DEF W!Exit, W!reset, W!registry
<1>15. CASE UNCHANGED W!vars
  BY <1>t, <1>n, <1>15 DEF W!vars, W!reset, W!registry
<1> QED
  BY <1>1, <1>2, <1>3, <1>4, <1>5, <1>6, <1>7, <1>8, <1>9, <1>10, <1>11, <1>12, <1>13, <1>14, <1>15, Zenon
     DEF W!Next, W!Thread

(* the places of the threads,                                              *)
LEMMA PlacesStep ==
  ASSUME W!TypeOK, Places, W!RegistryExact, Lock, [W!Next]_W!vars
  PROVE  Places'
<1> DEFINE LiveKept == \A q \in Peers : peer[q].live => peer'[q].live
<1>t. at \in ThreadStates /\ peer \in PeerStates /\ todo \subseteq Peers /\ registered \subseteq Peers
  BY DEF W!TypeOK, ThreadStates, PeerStates, PeerRecords, PeerPoints
<1>n. W!Nobody \notin Peers /\ W!Main \in W!Threads /\ Script \subseteq W!Threads
  BY PeerConstants DEF W!Threads
<1>p. \A u \in W!Threads : at[u].peer # W!Nobody => at[u].peer \in Peers
  BY <1>t DEF ThreadStates
<1>k. ASSUME at' = at, LiveKept
      PROVE  Places'
  BY <1>k, <1>p DEF Places, W!ObjectsAlive
<1>g. ASSUME LiveKept, NEW t \in W!Threads, \A u \in W!Threads \ {t} : at'[u] = at[u],
             \/ at'[t].pc \in {"idle", "gone"} /\ at'[t].peer = W!Nobody
             \/ /\ at'[t].pc \notin {"idle", "gone"} /\ at'[t].peer # W!Nobody
                /\ peer'[at'[t].peer].live
      PROVE  Places'
  BY <1>g, <1>p DEF Places, W!ObjectsAlive
<1>s. UNCHANGED peer => LiveKept
  OBVIOUS
<1>m. ASSUME NEW t \in W!Threads, at[t].pc \notin {"idle", "gone"}, LiveKept,
             NEW a \in PeerPoints \ {"idle", "gone"}, W!Goto(t, a) \/ W!Leave(t)
      PROVE  Places'
  <2>1. CASE W!Goto(t, a)
    <3>1. /\ at'[t].pc = a /\ at'[t].peer = at[t].peer
          /\ \A u \in W!Threads \ {t} : at'[u] = at[u]
      BY <1>t, <2>1, MoveFacts
    <3>2. at[t].peer # W!Nobody /\ peer[at[t].peer].live
      BY <1>m DEF Places, W!ObjectsAlive
    <3> QED
      BY <1>g, <1>m, <1>p, <3>1, <3>2
  <2>2. CASE W!Leave(t)
    BY <1>g, <1>m, <1>t, <2>2, MoveFacts
  <2> QED
    BY <1>m, <2>1, <2>2
<1> HIDE DEF LiveKept
<1>1. ASSUME NEW t \in W!Threads, NEW p \in Peers, W!Make(t, p)
      PROVE  Places'
  <2>1. LiveKept
    BY <1>t, <1>1 DEF W!Make, W!NoPeer, PeerStates, PeerRecords, LiveKept
  <2> QED
    BY <1>k, <1>1, <2>1 DEF W!Make
<1>2. ASSUME NEW t \in W!Threads, NEW p \in Peers, W!CallCounts(t, p) \/ W!Close(t, p)
      PROVE  Places'
  <2>1. LiveKept /\ peer'[p].live
    BY <1>t, <1>2 DEF W!CallCounts, W!Close, PeerStates, PeerRecords, LiveKept
  <2>2. at'[t].pc \in {"begin", "close"} /\ at'[t].peer = p /\ \A u \in W!Threads \ {t} : at'[u] = at[u]
    BY <1>t, <1>2 DEF W!CallCounts, W!Close, ThreadStates
  <2> QED
    BY <1>g, <1>n, <2>1, <2>2
<1>3. ASSUME NEW t \in W!Threads, W!CallChecks(t) \/ W!CallLocks(t) \/ W!CallUnlocks(t) \/ W!EndCall(t)
      PROVE  Places'
  <2>1. at[t].pc \in {"begin", "call", "inside", "end"}
    BY <1>3 DEF W!CallChecks, W!CallLocks, W!CallUnlocks, W!EndCall
  <2>2. LiveKept
    BY <1>t, <1>3 DEF W!CallChecks, W!CallLocks, W!CallUnlocks, W!EndCall, PeerStates, PeerRecords, LiveKept
  <2>3. \/ W!Goto(t, "call") \/ W!Goto(t, "inside") \/ W!Goto(t, "end") \/ W!Goto(t, "return") \/ W!Leave(t)
    BY <1>3 DEF W!CallChecks, W!CallLocks, W!CallUnlocks, W!EndCall
  <2>4. {"call", "inside", "end", "return"} \subseteq PeerPoints \ {"idle", "gone"}
    BY DEF PeerPoints
  <2> QED
    BY <1>m, <2>1, <2>2, <2>3, <2>4
<1>4. ASSUME NEW t \in W!Threads,
             W!Return(t) \/ W!Drained(t) \/ W!CloseOnce(t) \/ W!Joined(t) \/ W!Destroy(t) \/ W!Unregister(t)
      PROVE  Places'
  <2>1. at[t].pc \in {"return", "close", "drain", "join", "destroy", "unregister"}
    BY <1>4 DEF W!Return, W!Drained, W!CloseOnce, W!Joined, W!Destroy, W!Unregister
  <2>2. LiveKept
    <3>1. CASE W!Return(t)
      BY <1>t, <3>1 DEF W!Return, PeerStates, PeerRecords, LiveKept
    <3>2. CASE W!Drained(t)
      BY <1>t, <3>2 DEF W!Drained, PeerStates, PeerRecords, LiveKept
    <3>3. CASE W!CloseOnce(t)
      BY <1>t, <3>3 DEF W!CloseOnce, PeerStates, PeerRecords, LiveKept
    <3>4. CASE W!Joined(t)
      BY <1>t, <3>4 DEF W!Joined, PeerStates, PeerRecords, LiveKept
    <3>5. CASE W!Destroy(t)
      BY <1>t, <3>5 DEF W!Destroy, PeerStates, PeerRecords, LiveKept
    <3>6. CASE W!Unregister(t)
      BY <1>t, <3>6 DEF W!Unregister, PeerStates, PeerRecords, LiveKept
    <3> QED
      BY <1>4, <3>1, <3>2, <3>3, <3>4, <3>5, <3>6
  <2>3. \/ W!Goto(t, "return") \/ W!Goto(t, "drain") \/ W!Goto(t, "join") \/ W!Goto(t, "destroy")
           \/ W!Goto(t, "unregister")
        \/ W!Leave(t)
    BY <1>4 DEF W!Return, W!Drained, W!CloseOnce, W!Joined, W!Destroy, W!Unregister
  <2>4. {"return", "drain", "join", "destroy", "unregister"} \subseteq PeerPoints \ {"idle", "gone"}
    BY DEF PeerPoints
  <2> QED
    BY <1>m, <2>1, <2>2, <2>3, <2>4
<1>5. ASSUME NEW p \in Peers, W!Worker(p)
      PROVE  Places'
  <2>1. LiveKept
    BY <1>t, <1>5 DEF W!Worker, W!WorkerChecks, W!WorkerLocks, W!WorkerUnlocks, PeerStates, PeerRecords, LiveKept
  <2> QED
    BY <1>k, <1>5, <2>1 DEF W!Worker, W!WorkerChecks, W!WorkerLocks, W!WorkerUnlocks
<1>6. ASSUME NEW p \in Peers, W!Collect(p) \/ W!SweepFrees(p)
      PROVE  Places'
  <2>1. \A u \in W!Threads : at[u].peer # p
    <3>1. CASE W!Collect(p)
      BY <3>1 DEF W!Collect
    <3>2. CASE W!SweepFrees(p)
      BY <1>n, <3>2 DEF W!SweepFrees, Lock, Places, W!Threads
    <3> QED
      BY <1>6, <3>1, <3>2
  <2>2. \A q \in Peers \ {p} : peer'[q] = peer[q]
    BY <1>t, <1>6 DEF W!Collect, W!SweepFrees, PeerStates
  <2>3. at' = at
    BY <1>6 DEF W!Collect, W!SweepFrees
  <2> QED
    BY <1>p, <2>1, <2>2, <2>3 DEF Places, W!ObjectsAlive
<1>7. CASE W!StartDeinit \/ W!DeinitDone \/ W!StartSweep
  BY <1>k, <1>s, <1>7 DEF W!StartDeinit, W!DeinitDone, W!StartSweep
<1>8. CASE W!VisitPeer
  <2>1. PICK p \in todo : at' = [at EXCEPT ![W!Main] = [pc |-> "close", peer |-> p]]
    BY <1>8 DEF W!VisitPeer
  <2>2. at'[W!Main].pc = "close" /\ at'[W!Main].peer = p /\ \A u \in W!Threads \ {W!Main} : at'[u] = at[u]
    BY <1>n, <1>t, <2>1 DEF ThreadStates
  <2>3. peer[p].live /\ p \in Peers /\ UNCHANGED peer
    BY <1>8, <1>t DEF W!VisitPeer, Lock, W!RegistryExact
  <2> QED
    BY <1>g, <1>n, <1>s, <2>2, <2>3
<1>9. CASE W!Boot
  BY <1>9 DEF W!Boot, W!Away, Places, W!ObjectsAlive
<1>10. ASSUME NEW t \in Script, W!Exit(t)
       PROVE  Places'
  <2>1. at'[t].pc = "gone" /\ at'[t].peer = at[t].peer /\ \A u \in W!Threads \ {t} : at'[u] = at[u]
    BY <1>n, <1>t, <1>10, MoveFacts DEF W!Exit, PeerPoints
  <2>2. at[t].peer = W!Nobody
    BY <1>n, <1>10 DEF W!Exit, Places
  <2>3. UNCHANGED peer
    BY <1>10 DEF W!Exit
  <2> QED
    BY <1>g, <1>n, <1>s, <2>1, <2>2, <2>3
<1>11. CASE UNCHANGED W!vars
  BY <1>k, <1>s, <1>11 DEF W!vars
<1> QED
  BY <1>1, <1>2, <1>3, <1>4, <1>5, <1>6, <1>7, <1>8, <1>9, <1>10, <1>11, Zenon DEF W!Next, W!Thread

(* the counters of the calls,                                              *)
LEMMA CountsStep ==
  ASSUME W!TypeOK, Places, Counts, Lock, [W!Next]_W!vars
  PROVE  Counts'
<1>t. at \in ThreadStates /\ peer \in PeerStates /\ todo \subseteq Peers
  BY DEF W!TypeOK, ThreadStates, PeerStates, PeerRecords, PeerPoints
<1>n. W!Nobody \notin Peers /\ W!Main \in W!Threads /\ Script \subseteq W!Threads
  BY PeerConstants DEF W!Threads
<1>p. \A u \in W!Threads : at[u].pc \notin {"idle", "gone"} => at[u].peer \in Peers
  BY <1>t DEF ThreadStates, Places
<1>a. \A q \in Peers : peer[q].active \in Nat
  BY <1>t DEF PeerStates, PeerRecords
<1> DEFINE Counted(q) == IsFiniteSet(Callers(q)') /\ peer'[q].active = Cardinality(Callers(q)')
           InCounted(u, q) == at[u].peer = q /\ at[u].pc \in {"begin", "call", "inside", "end"}
           SameActive == \A q \in Peers : peer'[q].active = peer[q].active
<1>q. (\A q \in Peers : Counted(q)) => Counts'
  BY DEF Counts
<1>c. \A q \in Peers : IsFiniteSet(Callers(q)) /\ peer[q].active = Cardinality(Callers(q))
  BY DEF Counts
<1>k. ASSUME NEW q \in Peers, \A u \in W!Threads : InCounted(u, q)' <=> InCounted(u, q),
             peer'[q].active = peer[q].active
      PROVE  Counted(q)
  <2>1. Callers(q)' = Callers(q)
    BY <1>k DEF Callers
  <2> QED
    BY <1>c, <1>k, <2>1
<1>u. ASSUME NEW q \in Peers, NEW t \in W!Threads, InCounted(t, q), ~InCounted(t, q)',
             \A u \in W!Threads \ {t} : at'[u] = at[u], peer'[q].active = peer[q].active - 1
      PROVE  Counted(q)
  <2>1. Callers(q)' = Callers(q) \ {t} /\ t \in Callers(q)
    BY <1>u DEF Callers
  <2>2. IsFiniteSet(Callers(q) \ {t}) /\ Cardinality(Callers(q) \ {t}) = Cardinality(Callers(q)) - 1
    BY <1>c, <2>1, FS_RemoveElement
  <2> QED
    BY <1>c, <1>u, <2>1, <2>2
<1>g. ASSUME NEW t \in W!Threads, \A u \in W!Threads \ {t} : at'[u] = at[u], SameActive,
             \A q \in Peers : InCounted(t, q)' <=> InCounted(t, q)
      PROVE  Counts'
  BY <1>g, <1>k, <1>q
<1>e. ASSUME at' = at, SameActive
      PROVE  Counts'
  BY <1>e, <1>k, <1>q
<1>d. ASSUME NEW t \in W!Threads, at[t].pc \in {"begin", "end"}, W!Leave(t) \/ W!Goto(t, "return"),
             peer' = [peer EXCEPT ![at[t].peer].active = @ - 1]
      PROVE  Counts'
  <2>1. at[t].peer \in Peers /\ InCounted(t, at[t].peer)
    BY <1>d, <1>p
  <2>2. at'[t].pc \in {"idle", "return"} /\ \A u \in W!Threads \ {t} : at'[u] = at[u]
    BY <1>d, <1>t, MoveFacts DEF PeerPoints
  <2>3. /\ peer'[at[t].peer].active = peer[at[t].peer].active - 1
        /\ \A q \in Peers \ {at[t].peer} : peer'[q].active = peer[q].active
    BY <1>d, <1>t, <2>1 DEF PeerStates, PeerRecords
  <2>4. \A q \in Peers : Counted(q)
    <3> SUFFICES ASSUME NEW q \in Peers PROVE Counted(q)
      OBVIOUS
    <3>1. CASE q = at[t].peer
      BY <1>u, <2>1, <2>2, <2>3, <3>1
    <3>2. CASE q # at[t].peer
      BY <1>k, <2>1, <2>2, <2>3, <3>2
    <3> QED
      BY <3>1, <3>2
  <2> QED
    BY <1>q, <2>4
<1>1. ASSUME NEW t \in W!Threads, NEW p \in Peers, W!Make(t, p)
      PROVE  Counts'
  <2>1. \A q \in Peers : Counted(q)
    <3> SUFFICES ASSUME NEW q \in Peers PROVE Counted(q)
      OBVIOUS
    <3>1. CASE q # p
      <4>1. peer'[q].active = peer[q].active /\ at' = at
        BY <1>1, <1>t, <3>1 DEF W!Make, PeerStates
      <4> QED
        BY <1>k, <4>1
    <3>2. CASE q = p
      <4>1. Callers(q)' = {}
        BY <1>1, <1>n, <3>2 DEF W!Make, Callers, Places, W!ObjectsAlive
      <4>2. peer'[q].active = 0
        BY <1>1, <1>t, <3>2 DEF W!Make, W!NoPeer, PeerStates
      <4> QED
        BY <4>1, <4>2, FS_EmptySet
    <3> QED
      BY <3>1, <3>2
  <2> QED
    BY <1>q, <2>1
<1>2. ASSUME NEW t \in W!Threads, NEW p \in Peers, W!CallCounts(t, p)
      PROVE  Counts'
  <2>1. /\ at'[t].pc = "begin" /\ at'[t].peer = p /\ \A u \in W!Threads \ {t} : at'[u] = at[u]
        /\ at[t].pc = "idle"
    BY <1>2, <1>t DEF W!CallCounts, W!RunsPython, ThreadStates
  <2>2. /\ peer'[p].active = peer[p].active + 1
        /\ \A q \in Peers \ {p} : peer'[q].active = peer[q].active
    BY <1>2, <1>t DEF W!CallCounts, PeerStates, PeerRecords
  <2>3. \A q \in Peers : Counted(q)
    <3> SUFFICES ASSUME NEW q \in Peers PROVE Counted(q)
      OBVIOUS
    <3>1. CASE q # p
      BY <1>k, <2>1, <2>2, <3>1
    <3>2. CASE q = p
      <4>1. Callers(q)' = Callers(q) \cup {t} /\ t \notin Callers(q)
        BY <2>1, <3>2 DEF Callers
      <4>2. IsFiniteSet(Callers(q) \cup {t}) /\ Cardinality(Callers(q) \cup {t}) = Cardinality(Callers(q)) + 1
        BY <1>c, <4>1, FS_AddElement
      <4> QED
        BY <1>c, <2>2, <3>2, <4>1, <4>2
    <3> QED
      BY <3>1, <3>2
  <2> QED
    BY <1>q, <2>3
<1>3. ASSUME NEW t \in W!Threads, NEW p \in Peers, W!Close(t, p)
      PROVE  Counts'
  <2>1. /\ at'[t].pc = "close" /\ \A u \in W!Threads \ {t} : at'[u] = at[u]
        /\ at[t].pc = "idle" /\ UNCHANGED peer
    BY <1>3, <1>t DEF W!Close, W!RunsPython, ThreadStates
  <2> QED
    BY <1>g, <2>1
<1>4. ASSUME NEW t \in W!Threads, W!CallChecks(t)
      PROVE  Counts'
  <2>1. CASE peer' = [peer EXCEPT ![at[t].peer].active = @ - 1] /\ W!Leave(t)
    BY <1>4, <1>d, <2>1 DEF W!CallChecks
  <2>2. CASE W!Goto(t, "call") /\ UNCHANGED peer
    <3>1. at'[t].pc = "call" /\ at'[t].peer = at[t].peer /\ \A u \in W!Threads \ {t} : at'[u] = at[u]
          /\ at[t].pc = "begin"
      BY <1>4, <1>t, <2>2, MoveFacts DEF W!CallChecks, PeerPoints
    <3> QED
      BY <1>4, <1>g, <2>2, <3>1 DEF W!CallChecks
  <2> QED
    BY <1>4, <2>1, <2>2 DEF W!CallChecks
<1>5. ASSUME NEW t \in W!Threads, W!EndCall(t)
      PROVE  Counts'
  BY <1>5, <1>d DEF W!EndCall
<1>6. ASSUME NEW t \in W!Threads, W!CallLocks(t) \/ W!CallUnlocks(t)
      PROVE  Counts'
  <2>1. /\ at[t].pc \in {"call", "inside"} /\ at'[t].pc \in {"inside", "end"} /\ at'[t].peer = at[t].peer
        /\ \A u \in W!Threads \ {t} : at'[u] = at[u]
    BY <1>6, <1>t, MoveFacts DEF W!CallLocks, W!CallUnlocks, PeerPoints
  <2>2. SameActive
    BY <1>6, <1>t DEF W!CallLocks, W!CallUnlocks, PeerStates, PeerRecords
  <2> QED
    BY <1>g, <2>1, <2>2
<1>7. ASSUME NEW t \in W!Threads,
             W!Return(t) \/ W!Drained(t) \/ W!CloseOnce(t) \/ W!Joined(t) \/ W!Destroy(t) \/ W!Unregister(t)
      PROVE  Counts'
  <2>1. at[t].pc \in {"return", "drain", "close", "join", "destroy", "unregister"}
    BY <1>7 DEF W!Return, W!Drained, W!CloseOnce, W!Joined, W!Destroy, W!Unregister
  <2>2. \/ W!Goto(t, "return") \/ W!Goto(t, "drain") \/ W!Goto(t, "join") \/ W!Goto(t, "destroy")
           \/ W!Goto(t, "unregister")
        \/ W!Leave(t)
    BY <1>7 DEF W!Return, W!Drained, W!CloseOnce, W!Joined, W!Destroy, W!Unregister
  <2>3. /\ at'[t].pc \in {"return", "drain", "join", "destroy", "unregister", "idle"}
        /\ \A u \in W!Threads \ {t} : at'[u] = at[u]
    BY <1>t, <2>2, MoveFacts DEF PeerPoints
  <2>4. SameActive
    BY <1>7, <1>t, SMTT(30)
       DEF W!Return, W!Drained, W!CloseOnce, W!Joined, W!Destroy, W!Unregister, PeerStates, PeerRecords
  <2> QED
    BY <1>g, <2>1, <2>3, <2>4
<1>8. ASSUME NEW p \in Peers, W!Worker(p) \/ W!Collect(p) \/ W!SweepFrees(p)
      PROVE  Counts'
  <2>1. at' = at
    BY <1>8 DEF W!Worker, W!WorkerChecks, W!WorkerLocks, W!WorkerUnlocks, W!Collect, W!SweepFrees
  <2>2. SameActive
    BY <1>8, <1>t
       DEF W!Worker, W!WorkerChecks, W!WorkerLocks, W!WorkerUnlocks, W!Collect, W!SweepFrees, PeerStates,
       PeerRecords
  <2> QED
    BY <1>e, <2>1, <2>2
<1>9. CASE W!StartDeinit \/ W!DeinitDone \/ W!StartSweep
  BY <1>9, <1>e DEF W!StartDeinit, W!DeinitDone, W!StartSweep
<1>10. CASE W!VisitPeer
  <2>1. PICK p \in todo : at' = [at EXCEPT ![W!Main] = [pc |-> "close", peer |-> p]]
    BY <1>10 DEF W!VisitPeer
  <2>2. /\ at'[W!Main].pc = "close" /\ \A u \in W!Threads \ {W!Main} : at'[u] = at[u]
        /\ at[W!Main].pc = "idle" /\ UNCHANGED peer
    BY <1>10, <1>n, <1>t, <2>1 DEF W!VisitPeer, ThreadStates
  <2> QED
    BY <1>g, <1>n, <2>2
<1>11. CASE W!Boot
  <2>1. /\ at[W!Main].pc = "idle" /\ \A u \in Script : at[u].pc = "gone"
        /\ UNCHANGED peer
    BY <1>11 DEF W!Boot, Lock
  <2>2. \A u \in W!Threads : at[u].pc \in {"idle", "gone"} /\ at'[u].pc = "idle"
    BY <1>11, <2>1 DEF W!Boot, W!Away, W!Threads
  <2> QED
    BY <1>k, <1>q, <2>1, <2>2
<1>12. ASSUME NEW t \in Script, W!Exit(t)
       PROVE  Counts'
  <2>1. /\ at'[t].pc = "gone" /\ at[t].pc = "idle" /\ \A u \in W!Threads \ {t} : at'[u] = at[u]
        /\ UNCHANGED peer
    BY <1>n, <1>t, <1>12, MoveFacts DEF W!Exit, PeerPoints
  <2> QED
    BY <1>g, <1>n, <2>1
<1>13. CASE UNCHANGED W!vars
  BY <1>13, <1>e DEF W!vars
<1> QED
  BY <1>1, <1>2, <1>3, <1>4, <1>5, <1>6, <1>7, <1>8, <1>9, <1>10, <1>11, <1>12, <1>13, Zenon DEF W!Next, W!Thread

(* who closes a peer,                                                      *)
LEMMA OneCloserStep ==
  ASSUME W!TypeOK, Places, OneCloser, Lock, W!RegistryExact, [W!Next]_W!vars
  PROVE  OneCloser'
<1>t. at \in ThreadStates /\ peer \in PeerStates /\ todo \subseteq Peers /\ registered \subseteq Peers
  BY DEF W!TypeOK, ThreadStates, PeerStates, PeerRecords, PeerPoints
<1>n. W!Main \in W!Threads /\ Script \subseteq W!Threads
  BY DEF W!Threads
<1> DEFINE SameClosed == \A q \in Peers : peer'[q].closed = peer[q].closed
<1>g. ASSUME NEW t \in W!Threads, \A u \in W!Threads \ {t} : at'[u] = at[u], SameClosed, registered' = registered,
             \A q \in Peers : Closing(t, q)' <=> Closing(t, q)
      PROVE  OneCloser'
  <2>1. \A u \in W!Threads, q \in Peers : Closing(u, q)' <=> Closing(u, q)
    BY <1>g DEF Closing
  <2> QED
    BY <1>g, <1>t, <2>1 DEF OneCloser
<1>e. ASSUME at' = at, SameClosed, registered' = registered
      PROVE  OneCloser'
  <2>1. \A u \in W!Threads, q \in Peers : Closing(u, q)' <=> Closing(u, q)
    BY <1>e DEF Closing
  <2> QED
    BY <1>e, <1>t, <2>1 DEF OneCloser
<1>1. ASSUME NEW t \in W!Threads, NEW p \in Peers, W!Make(t, p)
      PROVE  OneCloser'
  <2>1. \A u \in W!Threads, q \in Peers : (Closing(u, q)' <=> Closing(u, q)) /\ ~Closing(u, p)
    BY <1>1 DEF W!Make, Closing, Places, W!ObjectsAlive, W!Nobody
  <2>2. ~peer'[p].closed /\ \A q \in Peers \ {p} : peer'[q].closed = peer[q].closed
    BY <1>1, <1>t DEF W!Make, W!NoPeer, PeerStates
  <2>3. registered' = registered \cup {p}
    BY <1>1 DEF W!Make
  <2> QED
    BY <1>t, <2>1, <2>2, <2>3 DEF OneCloser
<1>2. ASSUME NEW t \in W!Threads, NEW p \in Peers, W!CallCounts(t, p) \/ W!Close(t, p)
      PROVE  OneCloser'
  <2>1. /\ at'[t].pc \in {"begin", "close"} /\ at[t].pc = "idle" /\ \A u \in W!Threads \ {t} : at'[u] = at[u]
    BY <1>2, <1>t DEF W!CallCounts, W!Close, W!RunsPython, ThreadStates
  <2>2. SameClosed /\ registered' = registered
    BY <1>2, <1>t DEF W!CallCounts, W!Close, W!registry, PeerStates, PeerRecords
  <2> QED
    BY <1>g, <2>1, <2>2 DEF Closing
<1>3. ASSUME NEW t \in W!Threads,
             W!CallChecks(t) \/ W!CallLocks(t) \/ W!CallUnlocks(t) \/ W!EndCall(t) \/ W!Return(t)
      PROVE  OneCloser'
  <2>1. W!Goto(t, "call") \/ W!Goto(t, "inside") \/ W!Goto(t, "end") \/ W!Goto(t, "return") \/ W!Leave(t)
    BY <1>3 DEF W!CallChecks, W!CallLocks, W!CallUnlocks, W!EndCall, W!Return
  <2>2. /\ at[t].pc \in {"begin", "call", "inside", "end", "return"}
        /\ at'[t].pc \in {"call", "inside", "end", "return", "idle"}
        /\ \A u \in W!Threads \ {t} : at'[u] = at[u]
    BY <1>3, <1>t, <2>1, MoveFacts DEF W!CallChecks, W!CallLocks, W!CallUnlocks, W!EndCall, W!Return, PeerPoints
  <2>3. SameClosed /\ registered' = registered
    BY <1>3, <1>t DEF W!CallChecks, W!CallLocks, W!CallUnlocks, W!EndCall, W!Return, W!registry, PeerStates,
      PeerRecords
  <2> QED
    BY <1>g, <2>2, <2>3 DEF Closing
<1>4. ASSUME NEW t \in W!Threads, W!CloseOnce(t)
      PROVE  OneCloser'
  <2>1. at[t].pc = "close" /\ at[t].peer \in Peers /\ registered' = registered
    BY <1>4, <1>t DEF W!CloseOnce, Places, ThreadStates, W!registry
  <2>2. CASE peer[at[t].peer].closed
    <3>1. UNCHANGED peer /\ (W!Leave(t) \/ W!Goto(t, "return"))
      BY <1>4, <2>2 DEF W!CloseOnce
    <3>2. at'[t].pc \in {"idle", "return"} /\ \A u \in W!Threads \ {t} : at'[u] = at[u]
      BY <1>t, <3>1, MoveFacts DEF PeerPoints
    <3> QED
      BY <1>g, <2>1, <3>1, <3>2 DEF Closing
  <2>3. CASE ~peer[at[t].peer].closed
    <3>1. W!Goto(t, "drain") /\ peer' = [peer EXCEPT ![at[t].peer].closed = TRUE]
      BY <1>4, <2>3 DEF W!CloseOnce
    <3>2. /\ at'[t].pc = "drain" /\ at'[t].peer = at[t].peer
          /\ \A u \in W!Threads \ {t} : at'[u] = at[u]
      BY <1>t, <3>1, MoveFacts DEF PeerPoints
    <3>3. peer'[at[t].peer].closed /\ \A q \in Peers \ {at[t].peer} : peer'[q].closed = peer[q].closed
      BY <1>t, <2>1, <3>1 DEF PeerStates, PeerRecords
    <3>4. Closing(t, at[t].peer)' /\ \A q \in Peers \ {at[t].peer} : ~Closing(t, q)'
      BY <3>2 DEF Closing
    <3>5. \A u \in W!Threads \ {t} : ~Closing(u, at[t].peer) /\ \A q \in Peers : Closing(u, q)' <=> Closing(u, q)
      BY <2>1, <2>3, <3>2 DEF Closing, OneCloser
    <3>6. \A q \in Peers : ~Closing(t, q)
      BY <2>1 DEF Closing
    <3>a. \A u \in W!Threads, q \in Peers : Closing(u, q)' => peer'[q].closed
      BY <3>3, <3>4, <3>5 DEF OneCloser
    <3>b. \A u, v \in W!Threads, q \in Peers : Closing(u, q)' /\ Closing(v, q)' => u = v
      BY <2>1, <3>4, <3>5 DEF OneCloser
    <3>c. \A q \in registered' : peer'[q].closed => \E u \in W!Threads : Closing(u, q)'
      <4> SUFFICES ASSUME NEW q \in registered', peer'[q].closed
                   PROVE  \E u \in W!Threads : Closing(u, q)'
        OBVIOUS
      <4>1. CASE q = at[t].peer
        <5>1. Closing(t, q)'
          BY <3>2, <4>1 DEF Closing
        <5> QED
          BY <5>1
      <4>2. CASE q # at[t].peer
        <5>1. q \in registered /\ q \in Peers /\ peer[q].closed
          BY <1>t, <2>1, <3>3, <4>2
        <5>2. PICK u \in W!Threads : Closing(u, q)
          BY <5>1 DEF OneCloser
        <5> QED
          BY <3>5, <3>6, <5>1, <5>2
      <4> QED
        BY <4>1, <4>2
    <3> QED
      BY <3>a, <3>b, <3>c DEF OneCloser
  <2> QED
    BY <2>2, <2>3
<1>5. ASSUME NEW t \in W!Threads, W!Drained(t) \/ W!Joined(t) \/ W!Destroy(t)
      PROVE  OneCloser'
  <2>1. /\ at[t].pc \in {"drain", "join", "destroy"} /\ at'[t].pc \in {"join", "destroy", "unregister"}
        /\ at'[t].peer = at[t].peer
        /\ \A u \in W!Threads \ {t} : at'[u] = at[u]
    BY <1>5, <1>t, MoveFacts DEF W!Drained, W!Joined, W!Destroy, PeerPoints
  <2>2. SameClosed /\ registered' = registered
    BY <1>5, <1>t DEF W!Drained, W!Joined, W!Destroy, W!registry, PeerStates, PeerRecords
  <2> QED
    BY <1>g, <2>1, <2>2 DEF Closing
<1>6. ASSUME NEW t \in W!Threads, W!Unregister(t)
      PROVE  OneCloser'
  <2>1. /\ at'[t].pc = "idle" /\ \A u \in W!Threads \ {t} : at'[u] = at[u]
    BY <1>6, <1>t, MoveFacts DEF W!Unregister
  <2>2. UNCHANGED peer /\ registered' = registered \ {at[t].peer}
    BY <1>6 DEF W!Unregister, W!registry
  <2>3. \A q \in Peers : ~Closing(t, q)'
    BY <2>1 DEF Closing
  <2>4. \A u \in W!Threads \ {t}, q \in Peers : Closing(u, q)' <=> Closing(u, q)
    BY <2>1 DEF Closing
  <2>5. \A q \in registered' : ~Closing(t, q)
    BY <2>2 DEF Closing
  <2> QED
    BY <1>t, <2>2, <2>3, <2>4, <2>5 DEF OneCloser
<1>7. ASSUME NEW p \in Peers, W!Worker(p) \/ W!Collect(p) \/ W!SweepFrees(p)
      PROVE  OneCloser'
  <2>1. at' = at /\ registered' = registered
    BY <1>7 DEF W!Worker, W!WorkerChecks, W!WorkerLocks, W!WorkerUnlocks, W!Collect, W!SweepFrees, W!registry
  <2>2. SameClosed
    BY <1>7, <1>t
       DEF W!Worker, W!WorkerChecks, W!WorkerLocks, W!WorkerUnlocks, W!Collect, W!SweepFrees, PeerStates,
       PeerRecords
  <2> QED
    BY <1>e, <2>1, <2>2
<1>8. CASE W!StartDeinit \/ W!DeinitDone \/ W!StartSweep
  BY <1>8, <1>e DEF W!StartDeinit, W!DeinitDone, W!StartSweep, W!registry
<1>9. CASE W!VisitPeer
  <2>1. PICK p \in todo : at' = [at EXCEPT ![W!Main] = [pc |-> "close", peer |-> p]]
    BY <1>9 DEF W!VisitPeer
  <2>2. /\ at'[W!Main].pc = "close" /\ \A u \in W!Threads \ {W!Main} : at'[u] = at[u]
        /\ at[W!Main].pc = "idle" /\ UNCHANGED peer /\ registered' = registered
    BY <1>9, <1>n, <1>t, <2>1 DEF W!VisitPeer, ThreadStates, W!registry
  <2> QED
    BY <1>g, <1>n, <2>2 DEF Closing
<1>10. CASE W!Boot
  <2>1. \A u \in W!Threads, q \in Peers : ~Closing(u, q)'
    BY <1>10 DEF W!Boot, W!Away, Closing
  <2>2. registered' = {}
    BY <1>10, <1>t DEF W!Boot, W!registry, W!RegistryExact
  <2> QED
    BY <2>1, <2>2 DEF OneCloser
<1>11. ASSUME NEW t \in Script, W!Exit(t)
       PROVE  OneCloser'
  <2>1. /\ at'[t].pc = "gone" /\ at[t].pc = "idle" /\ \A u \in W!Threads \ {t} : at'[u] = at[u]
        /\ UNCHANGED peer /\ registered' = registered
    BY <1>n, <1>t, <1>11, MoveFacts DEF W!Exit, PeerPoints, W!registry
  <2> QED
    BY <1>g, <1>n, <2>1 DEF Closing
<1>12. CASE UNCHANGED W!vars
  BY <1>12, <1>e DEF W!vars, W!registry
<1> QED
  BY <1>1, <1>2, <1>3, <1>4, <1>5, <1>6, <1>7, <1>8, <1>9, <1>10, <1>11, <1>12, Zenon DEF W!Next, W!Thread

(* what a close has brought about,                                         *)
LEMMA ProgressStep ==
  ASSUME W!TypeOK, Places, Counts, OneCloser, Progress, [W!Next]_W!vars
  PROVE  Progress'
<1>t. at \in ThreadStates /\ peer \in PeerStates /\ todo \subseteq Peers
  BY DEF W!TypeOK, ThreadStates, PeerStates, PeerRecords, PeerPoints
<1>n. W!Main \in W!Threads /\ Script \subseteq W!Threads
  BY DEF W!Threads
<1>d. W!Nobody # W!Destroyed /\ W!Destroyed \notin W!Threads /\ W!Destroyed \notin Peers /\ W!Nobody \notin Peers
  BY PeerConstants DEF W!Threads, W!Nobody, W!Destroyed, W!Main
<1> DEFINE PeersKept == \A q \in Peers :
             /\ peer[q].worker = "none" => peer'[q].worker = "none"
             /\ peer'[q].pc => peer[q].pc /\ peer'[q].mutex # W!Destroyed
           Late == {"join", "destroy", "unregister"}
<1>g. ASSUME NEW t \in W!Threads, \A u \in W!Threads \ {t} : at'[u] = at[u], PeersKept,
             at'[t].pc \notin Late, \A q \in Peers : W!InCall(t, q)' => W!InCall(t, q)
      PROVE  Progress'
  <2>1. \A u \in W!Threads, q \in Peers : W!InCall(u, q)' => W!InCall(u, q)
    BY <1>g DEF W!InCall
  <2> QED
    BY <1>g, <2>1 DEF Progress
<1>e. ASSUME at' = at, PeersKept
      PROVE  Progress'
  <2>1. \A u \in W!Threads, q \in Peers : W!InCall(u, q)' => W!InCall(u, q)
    BY <1>e DEF W!InCall
  <2> QED
    BY <1>e, <2>1 DEF Progress
<1>u. UNCHANGED peer => PeersKept
  BY DEF Progress
<1>1. ASSUME NEW t \in W!Threads, NEW p \in Peers, W!Make(t, p)
      PROVE  Progress'
  <2>1. \A u \in W!Threads : at[u].peer # p
    BY <1>1, <1>d DEF W!Make, Places, W!ObjectsAlive
  <2>2. /\ peer'[p].mutex = W!Nobody /\ at' = at
        /\ \A q \in Peers \ {p} : peer'[q] = peer[q]
    BY <1>1, <1>t DEF W!Make, W!NoPeer, PeerStates
  <2>3. \A u \in W!Threads, q \in Peers : W!InCall(u, q)' <=> W!InCall(u, q)
    BY <2>2 DEF W!InCall
  <2> QED
    BY <1>d, <2>1, <2>2, <2>3 DEF Progress
<1>2. ASSUME NEW t \in W!Threads, NEW p \in Peers, W!CallCounts(t, p) \/ W!Close(t, p)
      PROVE  Progress'
  <2>1. /\ at'[t].pc \in {"begin", "close"} /\ \A u \in W!Threads \ {t} : at'[u] = at[u]
    BY <1>2, <1>t DEF W!CallCounts, W!Close, W!RunsPython, ThreadStates
  <2>2. PeersKept
    BY <1>2, <1>t DEF W!CallCounts, W!Close, PeerStates, PeerRecords, Progress
  <2> QED
    BY <1>g, <2>1, <2>2 DEF W!InCall
<1>3. ASSUME NEW t \in W!Threads, W!CallChecks(t)
      PROVE  Progress'
  <2>1. at[t].pc = "begin" /\ at[t].peer \in Peers
    BY <1>3, <1>t DEF W!CallChecks, Places, ThreadStates
  <2>2. PeersKept
    BY <1>3, <1>t DEF W!CallChecks, PeerStates, PeerRecords, Progress
  <2>3. CASE W!Leave(t)
    <3>1. at'[t].pc = "idle" /\ \A u \in W!Threads \ {t} : at'[u] = at[u]
      BY <1>t, <2>3, MoveFacts
    <3> QED
      BY <1>g, <2>2, <3>1 DEF W!InCall
  <2>4. CASE W!Goto(t, "call") /\ ~peer[at[t].peer].closed
    <3>1. /\ at'[t].pc = "call" /\ at'[t].peer = at[t].peer
          /\ \A u \in W!Threads \ {t} : at'[u] = at[u]
      BY <1>t, <2>4, MoveFacts DEF PeerPoints
    <3>2. \A u \in W!Threads : at[u].peer = at[t].peer => at[u].pc \notin Late
      BY <2>1, <2>4 DEF OneCloser, Closing
    <3>3. \A u \in W!Threads, q \in Peers : W!InCall(u, q)' => W!InCall(u, q) \/ q = at[t].peer
      BY <3>1 DEF W!InCall
    <3> QED
      BY <2>1, <2>2, <3>1, <3>2, <3>3 DEF Progress
  <2> QED
    BY <1>3, <2>3, <2>4 DEF W!CallChecks
<1>4. ASSUME NEW t \in W!Threads, W!CallLocks(t) \/ W!CallUnlocks(t) \/ W!EndCall(t) \/ W!Return(t)
      PROVE  Progress'
  <2>1. W!Goto(t, "inside") \/ W!Goto(t, "end") \/ W!Goto(t, "return") \/ W!Leave(t)
    BY <1>4 DEF W!CallLocks, W!CallUnlocks, W!EndCall, W!Return
  <2>2. /\ at'[t].pc \in {"inside", "end", "return", "idle"}
        /\ \A u \in W!Threads \ {t} : at'[u] = at[u]
        /\ at'[t].pc = "inside" => at[t].pc = "call" /\ at'[t].peer = at[t].peer
    BY <1>4, <1>t, <2>1, MoveFacts DEF W!CallLocks, W!CallUnlocks, W!EndCall, W!Return, PeerPoints
  <2>3. PeersKept
    BY <1>4, <1>t, <1>d DEF W!CallLocks, W!CallUnlocks, W!EndCall, W!Return, PeerStates, PeerRecords, Progress
  <2> QED
    BY <1>g, <2>2, <2>3 DEF W!InCall
<1>5. ASSUME NEW t \in W!Threads, W!CloseOnce(t)
      PROVE  Progress'
  <2>1. W!Leave(t) \/ W!Goto(t, "return") \/ W!Goto(t, "drain")
    BY <1>5 DEF W!CloseOnce
  <2>2. /\ at'[t].pc \in {"idle", "return", "drain"}
        /\ \A u \in W!Threads \ {t} : at'[u] = at[u]
    BY <1>t, <2>1, MoveFacts DEF PeerPoints
  <2>3. PeersKept
    BY <1>5, <1>t DEF W!CloseOnce, PeerStates, PeerRecords, Progress
  <2> QED
    BY <1>g, <2>2, <2>3 DEF W!InCall
<1>6. ASSUME NEW t \in W!Threads, W!Drained(t)
      PROVE  Progress'
  <2>1. /\ at[t].pc = "drain" /\ at'[t].pc = "join" /\ at'[t].peer = at[t].peer /\ at[t].peer \in Peers
        /\ \A u \in W!Threads \ {t} : at'[u] = at[u]
        /\ UNCHANGED peer
    BY <1>6, <1>t, MoveFacts DEF W!Drained, PeerPoints, Places, ThreadStates
  <2>2. Callers(at[t].peer) = {}
    BY <1>6, <2>1, FS_EmptySet DEF W!Drained, Counts
  <2>3. \A u \in W!Threads, q \in Peers : (W!InCall(u, q)' => W!InCall(u, q)) /\ ~W!InCall(u, at[t].peer)
    BY <2>1, <2>2 DEF W!InCall, Callers
  <2> QED
    BY <2>1, <2>3 DEF Progress
<1>7. ASSUME NEW t \in W!Threads, W!Joined(t) \/ W!Destroy(t)
      PROVE  Progress'
  <2>1. /\ at[t].pc \in {"join", "destroy"} /\ at[t].peer \in Peers /\ at'[t].peer = at[t].peer
        /\ at'[t].pc = (IF at[t].pc = "join" THEN "destroy" ELSE "unregister")
        /\ \A u \in W!Threads \ {t} : at'[u] = at[u]
    BY <1>7, <1>t, MoveFacts DEF W!Joined, W!Destroy, PeerPoints, Places, ThreadStates
  <2>2. PeersKept
    BY <1>7, <1>t DEF W!Joined, W!Destroy, PeerStates, PeerRecords, Progress
  <2>3. at'[t].pc = "unregister" => ~peer'[at[t].peer].pc
    BY <1>7, <1>t, <2>1 DEF W!Joined, W!Destroy, PeerStates, PeerRecords
  <2>4. peer'[at[t].peer].worker = "none"
    BY <1>7, <1>t, <2>1 DEF W!Joined, W!Destroy, PeerStates, PeerRecords, Progress
  <2>5. \A u \in W!Threads, q \in Peers : W!InCall(u, q)' => W!InCall(u, q)
    BY <2>1 DEF W!InCall
  <2> QED
    BY <2>1, <2>2, <2>3, <2>4, <2>5 DEF Progress
<1>8. ASSUME NEW t \in W!Threads, W!Unregister(t)
      PROVE  Progress'
  <2>1. at'[t].pc = "idle" /\ \A u \in W!Threads \ {t} : at'[u] = at[u]
    BY <1>8, <1>t, MoveFacts DEF W!Unregister
  <2> QED
    BY <1>8, <1>g, <1>u, <2>1 DEF W!Unregister, W!InCall
<1>9. ASSUME NEW p \in Peers, W!Worker(p) \/ W!Collect(p) \/ W!SweepFrees(p)
      PROVE  Progress'
  <2>1. at' = at
    BY <1>9 DEF W!Worker, W!WorkerChecks, W!WorkerLocks, W!WorkerUnlocks, W!Collect, W!SweepFrees
  <2>2. PeersKept
    BY <1>9, <1>t, <1>d
       DEF W!Worker, W!WorkerChecks, W!WorkerLocks, W!WorkerUnlocks, W!Collect, W!SweepFrees, PeerStates,
       PeerRecords, Progress
  <2> QED
    BY <1>e, <2>1, <2>2
<1>10. CASE W!StartDeinit \/ W!DeinitDone \/ W!StartSweep
  BY <1>10, <1>e, <1>u DEF W!StartDeinit, W!DeinitDone, W!StartSweep
<1>11. CASE W!VisitPeer
  <2>1. PICK p \in todo : at' = [at EXCEPT ![W!Main] = [pc |-> "close", peer |-> p]]
    BY <1>11 DEF W!VisitPeer
  <2>2. at'[W!Main].pc = "close" /\ (\A u \in W!Threads \ {W!Main} : at'[u] = at[u]) /\ UNCHANGED peer
    BY <1>11, <1>n, <1>t, <2>1 DEF W!VisitPeer, ThreadStates
  <2> QED
    BY <1>g, <1>n, <1>u, <2>2 DEF W!InCall
<1>12. CASE W!Boot
  BY <1>12 DEF W!Boot, W!Away, Progress
<1>13. ASSUME NEW t \in Script, W!Exit(t)
       PROVE  Progress'
  <2>1. at'[t].pc = "gone" /\ (\A u \in W!Threads \ {t} : at'[u] = at[u]) /\ UNCHANGED peer
    BY <1>n, <1>t, <1>13, MoveFacts DEF W!Exit, PeerPoints
  <2> QED
    BY <1>g, <1>n, <1>u, <2>1 DEF W!InCall
<1>14. CASE UNCHANGED W!vars
  BY <1>14, <1>e, <1>u DEF W!vars
<1> QED
  BY <1>1, <1>2, <1>3, <1>4, <1>5, <1>6, <1>7, <1>8, <1>9, <1>10, <1>11, <1>12, <1>13, <1>14, Zenon
    DEF W!Next, W!Thread

(* who has the GIL, and what a reset relies on,                            *)
LEMMA LockStep ==
  ASSUME W!TypeOK, Places, Lock, [W!Next]_W!vars
  PROVE  Lock'
<1>t. at \in ThreadStates /\ todo \subseteq Peers /\ registered \subseteq Peers
  BY DEF W!TypeOK, ThreadStates, PeerPoints
<1>n. W!Main \in W!Threads /\ Script \subseteq W!Threads /\ W!Main \notin Script /\ W!Nobody \notin W!Threads
      /\ W!Nobody \notin Peers
  BY PeerConstants DEF W!Threads, W!Main, W!Nobody
<1>s. W!Threads = Script \cup {W!Main}
  BY DEF W!Threads
<1> DEFINE Ours == {"idle", "close", "drain", "join", "destroy", "unregister", "return"}
<1>g. ASSUME NEW t \in W!Threads, \A u \in W!Threads \ {t} : at'[u] = at[u], UNCHANGED <<stage, todo, gil>>,
             stage = "deinit" => todo \subseteq registered',
             at[t].pc # "gone", at'[t].pc # "begin",
             t = W!Main /\ stage # "run" => at'[t].pc \in Ours,
             t = W!Main /\ stage = "deinit" => at'[t].peer \notin todo
      PROVE  Lock'
  BY <1>g, <1>n, <1>s DEF Lock
<1>e. ASSUME at' = at, UNCHANGED <<stage, todo, gil>>, stage = "deinit" => todo \subseteq registered'
      PROVE  Lock'
  BY <1>e DEF Lock
<1>f. gil = W!Nobody => \A u \in W!Threads : at[u].pc # "begin"
  BY <1>n DEF Lock
<1>1. ASSUME NEW t \in W!Threads, NEW p \in Peers, W!Make(t, p)
      PROVE  Lock'
  BY <1>1, <1>e, <1>n DEF W!Make, W!RunsPython, W!reset, Lock
<1>2. ASSUME NEW t \in W!Threads, NEW p \in Peers, W!CallCounts(t, p)
      PROVE  Lock'
  <2>1. /\ at'[t].pc = "begin" /\ at[t].pc = "idle" /\ \A u \in W!Threads \ {t} : at'[u] = at[u]
        /\ gil = W!Nobody /\ gil' = t /\ UNCHANGED <<stage, todo, registered>>
        /\ t = W!Main => stage = "run"
    BY <1>2, <1>t DEF W!CallCounts, W!RunsPython, ThreadStates, W!reset, W!registry
  <2>2. stage # "deinit"
    BY <1>n, <2>1 DEF Lock
  <2> QED
    BY <1>f, <1>n, <1>s, <2>1, <2>2 DEF Lock
<1>3. ASSUME NEW t \in W!Threads, NEW p \in Peers, W!Close(t, p)
      PROVE  Lock'
  <2>1. /\ at'[t].pc = "close" /\ at[t].pc = "idle" /\ \A u \in W!Threads \ {t} : at'[u] = at[u]
        /\ UNCHANGED <<stage, todo, gil, registered>>
        /\ gil = W!Nobody \/ stage = "sweep"
    BY <1>3, <1>t DEF W!Close, W!RunsPython, ThreadStates, W!reset, W!registry
  <2>2. stage # "deinit"
    BY <1>n, <2>1 DEF Lock
  <2> QED
    BY <1>g, <2>1, <2>2
<1>4. ASSUME NEW t \in W!Threads, W!CallChecks(t)
      PROVE  Lock'
  <2>1. W!Goto(t, "call") \/ W!Leave(t)
    BY <1>4 DEF W!CallChecks
  <2>2. /\ at[t].pc = "begin" /\ at'[t].pc \in {"call", "idle"} /\ \A u \in W!Threads \ {t} : at'[u] = at[u]
        /\ gil' = W!Nobody /\ UNCHANGED <<stage, todo, registered>>
    BY <1>4, <1>t, <2>1, MoveFacts DEF W!CallChecks, PeerPoints, W!reset, W!registry
  <2>3. gil = t /\ \A u \in W!Threads \ {t} : at[u].pc # "begin"
    BY <2>2 DEF Lock
  <2>4. t = W!Main => stage = "run"
    BY <2>2 DEF Lock
  <2>5. stage # "deinit"
    BY <2>3, <2>4 DEF Lock
  <2> QED
    BY <1>n, <1>s, <2>2, <2>3, <2>4, <2>5 DEF Lock
<1>5. ASSUME NEW t \in W!Threads, W!CallLocks(t) \/ W!CallUnlocks(t) \/ W!EndCall(t)
      PROVE  Lock'
  <2>1. W!Goto(t, "inside") \/ W!Goto(t, "end") \/ W!Goto(t, "return")
    BY <1>5 DEF W!CallLocks, W!CallUnlocks, W!EndCall
  <2>2. /\ at[t].pc \in {"call", "inside", "end"} /\ at'[t].pc \in {"inside", "end", "return"}
        /\ \A u \in W!Threads \ {t} : at'[u] = at[u]
        /\ UNCHANGED <<stage, todo, gil, registered>>
    BY <1>5, <1>t, <2>1, MoveFacts DEF W!CallLocks, W!CallUnlocks, W!EndCall, PeerPoints, W!reset, W!registry
  <2>3. t = W!Main => stage = "run"
    BY <2>2 DEF Lock
  <2> QED
    BY <1>g, <2>2, <2>3 DEF Lock
<1>6. ASSUME NEW t \in W!Threads, W!Return(t) \/ W!CloseOnce(t) \/ W!Drained(t) \/ W!Joined(t) \/ W!Destroy(t)
      PROVE  Lock'
  <2>1. W!Goto(t, "return") \/ W!Goto(t, "drain") \/ W!Goto(t, "join") \/ W!Goto(t, "destroy")
        \/ W!Goto(t, "unregister") \/ W!Leave(t)
    BY <1>6 DEF W!Return, W!CloseOnce, W!Drained, W!Joined, W!Destroy
  <2>2. /\ at'[t].pc \in Ours /\ at'[t].peer \in {at[t].peer, W!Nobody} /\ \A u \in W!Threads \ {t} : at'[u] = at[u]
    BY <1>t, <2>1, MoveFacts DEF PeerPoints
  <2>3. /\ at[t].pc # "gone" /\ UNCHANGED <<stage, todo, gil, registered>>
    BY <1>6 DEF W!Return, W!CloseOnce, W!Drained, W!Joined, W!Destroy, W!reset, W!registry
  <2> QED
    BY <1>g, <1>n, <1>t, <2>2, <2>3 DEF Lock
<1>7. ASSUME NEW t \in W!Threads, W!Unregister(t)
      PROVE  Lock'
  <2>1. /\ at'[t].pc = "idle" /\ at'[t].peer = W!Nobody /\ \A u \in W!Threads \ {t} : at'[u] = at[u]
    BY <1>7, <1>t, MoveFacts DEF W!Unregister
  <2>2. /\ at[t].pc = "unregister" /\ gil \in {W!Nobody, t} /\ UNCHANGED <<stage, todo, gil>>
        /\ registered' = registered \ {at[t].peer}
    BY <1>7 DEF W!Unregister, W!reset, W!registry
  <2>3. stage = "deinit" => t = W!Main /\ todo \subseteq registered'
    BY <1>n, <2>2 DEF Lock
  <2> QED
    BY <1>g, <1>n, <1>t, <2>1, <2>2, <2>3
<1>8. ASSUME NEW p \in Peers, W!Worker(p) \/ W!Collect(p) \/ W!SweepFrees(p)
      PROVE  Lock'
  <2>1. at' = at /\ UNCHANGED <<stage, todo, gil, registered>>
    BY <1>8 DEF W!Worker, W!WorkerChecks, W!WorkerLocks, W!WorkerUnlocks, W!Collect, W!SweepFrees, W!reset,
      W!registry
  <2> QED
    BY <1>e, <2>1 DEF Lock
<1>9. CASE W!StartDeinit
  <2>1. at[W!Main].pc = "idle" /\ at[W!Main].peer \notin registered
    BY <1>9, <1>n, <1>t DEF W!StartDeinit, W!RunsPython, Places
  <2>2. \A u \in W!Threads : at[u].pc # "begin"
    BY <1>9, <1>f DEF W!StartDeinit, W!RunsPython
  <2> QED
    BY <1>9, <2>1, <2>2 DEF W!StartDeinit, W!registry, Lock
<1>10. CASE W!VisitPeer
  <2>1. PICK p \in todo : todo' = todo \ {p} /\ at' = [at EXCEPT ![W!Main] = [pc |-> "close", peer |-> p]]
    BY <1>10 DEF W!VisitPeer
  <2>2. /\ at'[W!Main].pc = "close" /\ at'[W!Main].peer = p /\ \A u \in W!Threads \ {W!Main} : at'[u] = at[u]
        /\ stage = "deinit" /\ UNCHANGED <<stage, gil, registered>>
    BY <1>10, <1>n, <1>t, <2>1 DEF W!VisitPeer, ThreadStates, W!registry
  <2> QED
    BY <1>n, <1>s, <2>1, <2>2 DEF Lock
<1>11. CASE W!DeinitDone
  <2>1. \A u \in W!Threads : at[u].pc # "begin"
    BY <1>11, <1>n DEF W!DeinitDone, Lock
  <2> QED
    BY <1>11, <2>1 DEF W!DeinitDone, Lock
<1>12. CASE W!StartSweep
  BY <1>12 DEF W!StartSweep, Lock
<1>13. CASE W!Boot
  <2>1. \A u \in W!Threads : at'[u].pc # "begin"
    BY <1>13 DEF W!Boot, W!Away
  <2> QED
    BY <1>13, <2>1 DEF W!Boot, Lock
<1>14. ASSUME NEW t \in Script, W!Exit(t)
       PROVE  Lock'
  <2>1. /\ at'[t].pc = "gone" /\ (\A u \in W!Threads \ {t} : at'[u] = at[u])
        /\ at[t].pc = "idle" /\ UNCHANGED <<stage, todo, gil, registered>>
    BY <1>n, <1>t, <1>14, MoveFacts DEF W!Exit, PeerPoints, W!reset, W!registry
  <2> QED
    BY <1>g, <1>n, <2>1 DEF Lock
<1>15. CASE UNCHANGED W!vars
  BY <1>15, <1>e DEF W!vars, W!reset, W!registry, Lock
<1> QED
  BY <1>1, <1>2, <1>3, <1>4, <1>5, <1>6, <1>7, <1>8, <1>9, <1>10, <1>11, <1>12, <1>13, <1>14, <1>15, Zenon
     DEF W!Next, W!Thread

(* what is used is there,                                                  *)
LEMMA UsedAliveStep ==
  ASSUME W!TypeOK, Progress, Progress', W!UsedAlive, [W!Next]_W!vars
  PROVE  W!UsedAlive'
<1>t. at \in ThreadStates /\ peer \in PeerStates /\ todo \subseteq Peers
  BY DEF W!TypeOK, ThreadStates, PeerStates, PeerRecords, PeerPoints
<1>n. W!Main \in W!Threads /\ Script \subseteq W!Threads
  BY DEF W!Threads
<1> DEFINE PcKept == \A q \in Peers :
             peer'[q].worker # "none" \/ (\E u \in W!Threads : W!InCall(u, q)) => peer'[q].pc
           NoNewCall == \A u \in W!Threads, q \in Peers : W!InCall(u, q)' => W!InCall(u, q)
<1>g. ASSUME PcKept, NoNewCall
      PROVE  W!UsedAlive'
  BY <1>g DEF W!UsedAlive, Progress
<1>u. (\A q \in Peers : peer'[q].pc = peer[q].pc /\ (peer'[q].worker # "none" => peer[q].worker # "none")) => PcKept
  BY DEF W!UsedAlive
<1>e. at' = at => NoNewCall
  BY DEF W!InCall
<1>1. ASSUME NEW t \in W!Threads, NEW p \in Peers, W!Make(t, p)
      PROVE  W!UsedAlive'
  <2>1. PcKept
    BY <1>1, <1>t DEF W!Make, W!NoPeer, PeerStates, W!UsedAlive
  <2> QED
    BY <1>1, <1>e, <1>g, <2>1 DEF W!Make
<1>2. ASSUME NEW t \in W!Threads, NEW p \in Peers, W!CallCounts(t, p) \/ W!Close(t, p)
      PROVE  W!UsedAlive'
  <2>1. at'[t].pc \in {"begin", "close"} /\ \A u \in W!Threads \ {t} : at'[u] = at[u]
    BY <1>2, <1>t DEF W!CallCounts, W!Close, ThreadStates
  <2>2. PcKept
    BY <1>2, <1>t, <1>u DEF W!CallCounts, W!Close, PeerStates, PeerRecords
  <2> QED
    BY <1>g, <2>1, <2>2 DEF W!InCall
<1>3. ASSUME NEW t \in W!Threads, W!CallChecks(t)
      PROVE  W!UsedAlive'
  <2>1. PcKept
    BY <1>3, <1>t, <1>u DEF W!CallChecks, PeerStates, PeerRecords
  <2>2. CASE W!Leave(t)
    <3>1. at'[t].pc = "idle" /\ \A u \in W!Threads \ {t} : at'[u] = at[u]
      BY <1>t, <2>2, MoveFacts
    <3> QED
      BY <1>g, <2>1, <3>1 DEF W!InCall
  <2>3. CASE W!Goto(t, "call") /\ peer[at[t].peer].pc /\ UNCHANGED peer
    <3>1. /\ at'[t].pc = "call" /\ at'[t].peer = at[t].peer
          /\ \A u \in W!Threads \ {t} : at'[u] = at[u]
      BY <1>t, <2>3, MoveFacts DEF PeerPoints
    <3>2. \A u \in W!Threads, q \in Peers : W!InCall(u, q)' => W!InCall(u, q) \/ q = at[t].peer
      BY <3>1 DEF W!InCall
    <3> QED
      BY <2>1, <2>3, <3>2 DEF W!UsedAlive, Progress
  <2> QED
    BY <1>3, <2>2, <2>3 DEF W!CallChecks
<1>4. ASSUME NEW t \in W!Threads,
             \/ W!CallLocks(t) \/ W!CallUnlocks(t) \/ W!EndCall(t) \/ W!Return(t)
             \/ W!CloseOnce(t) \/ W!Drained(t) \/ W!Joined(t) \/ W!Unregister(t)
      PROVE  W!UsedAlive'
  <2>1. \/ W!Goto(t, "inside") \/ W!Goto(t, "end") \/ W!Goto(t, "return") \/ W!Goto(t, "drain") \/ W!Goto(t, "join")
        \/ W!Goto(t, "destroy") \/ W!Leave(t)
    BY <1>4 DEF W!CallLocks, W!CallUnlocks, W!EndCall, W!Return, W!CloseOnce, W!Drained, W!Joined, W!Unregister
  <2>2. /\ at'[t].pc \in {"inside", "end", "return", "drain", "join", "destroy", "idle"}
        /\ \A u \in W!Threads \ {t} : at'[u] = at[u]
        /\ at'[t].pc = "inside" => W!Goto(t, "inside")
    BY <1>t, <2>1, MoveFacts DEF PeerPoints
  <2>3. at'[t].pc = "inside" => at[t].pc = "call" /\ at'[t].peer = at[t].peer
    <3>1. CASE W!CallLocks(t)
      BY <1>t, <3>1, MoveFacts DEF W!CallLocks, PeerPoints
    <3>2. CASE ~W!CallLocks(t)
      <4>1. W!Goto(t, "end") \/ W!Goto(t, "return") \/ W!Goto(t, "drain") \/ W!Goto(t, "join")
            \/ W!Goto(t, "destroy") \/ W!Leave(t)
        BY <1>4, <3>2 DEF W!CallUnlocks, W!EndCall, W!Return, W!CloseOnce, W!Drained, W!Joined, W!Unregister
      <4> QED
        BY <1>t, <4>1, MoveFacts DEF PeerPoints
    <3> QED
      BY <3>1, <3>2
  <2>4. NoNewCall
    BY <2>2, <2>3 DEF W!InCall
  <2>5. PcKept
    <3>1. CASE W!CallLocks(t)
      BY <1>t, <1>u, <3>1 DEF W!CallLocks, PeerStates, PeerRecords
    <3>2. CASE W!CallUnlocks(t)
      BY <1>t, <1>u, <3>2 DEF W!CallUnlocks, PeerStates, PeerRecords
    <3>3. CASE W!EndCall(t)
      BY <1>t, <1>u, <3>3 DEF W!EndCall, PeerStates, PeerRecords
    <3>4. CASE W!Return(t)
      BY <1>t, <1>u, <3>4 DEF W!Return, PeerStates, PeerRecords
    <3>5. CASE W!CloseOnce(t)
      BY <1>t, <1>u, <3>5 DEF W!CloseOnce, PeerStates, PeerRecords
    <3>6. CASE W!Drained(t)
      BY <1>t, <1>u, <3>6 DEF W!Drained, PeerStates, PeerRecords
    <3>7. CASE W!Joined(t)
      BY <1>t, <1>u, <3>7 DEF W!Joined, PeerStates, PeerRecords
    <3>8. CASE W!Unregister(t)
      BY <1>t, <1>u, <3>8 DEF W!Unregister, PeerStates, PeerRecords
    <3> QED
      BY <1>4, <3>1, <3>2, <3>3, <3>4, <3>5, <3>6, <3>7, <3>8
  <2> QED
    BY <1>g, <2>4, <2>5
<1>5. ASSUME NEW t \in W!Threads, W!Destroy(t)
      PROVE  W!UsedAlive'
  <2>1. /\ at[t].pc = "destroy" /\ at'[t].pc = "unregister" /\ \A u \in W!Threads \ {t} : at'[u] = at[u]
    BY <1>5, <1>t, MoveFacts DEF W!Destroy, PeerPoints
  <2>2. NoNewCall
    BY <2>1 DEF W!InCall
  <2>3. /\ \A q \in Peers \ {at[t].peer} : peer'[q] = peer[q]
        /\ \A q \in Peers : peer'[q].worker = peer[q].worker
    BY <1>5, <1>t DEF W!Destroy, PeerStates, PeerRecords
  <2>4. at[t].peer \in Peers => peer[at[t].peer].worker = "none" /\ \A u \in W!Threads : ~W!InCall(u, at[t].peer)
    BY <2>1 DEF Progress
  <2>5. PcKept
    BY <2>3, <2>4 DEF W!UsedAlive
  <2> QED
    BY <1>g, <2>2, <2>5
<1>6. ASSUME NEW p \in Peers, W!Worker(p) \/ W!Collect(p) \/ W!SweepFrees(p)
      PROVE  W!UsedAlive'
  <2>1. at' = at
    BY <1>6 DEF W!Worker, W!WorkerChecks, W!WorkerLocks, W!WorkerUnlocks, W!Collect, W!SweepFrees
  <2>2. PcKept
    BY <1>6, <1>t, <1>u
       DEF W!Worker, W!WorkerChecks, W!WorkerLocks, W!WorkerUnlocks, W!Collect, W!SweepFrees, PeerStates,
       PeerRecords
  <2> QED
    BY <1>e, <1>g, <2>1, <2>2
<1>7. CASE W!StartDeinit \/ W!DeinitDone \/ W!StartSweep
  BY <1>7, <1>e, <1>g, <1>u DEF W!StartDeinit, W!DeinitDone, W!StartSweep
<1>8. CASE W!VisitPeer
  <2>1. PICK p \in todo : at' = [at EXCEPT ![W!Main] = [pc |-> "close", peer |-> p]]
    BY <1>8 DEF W!VisitPeer
  <2>2. at'[W!Main].pc = "close" /\ (\A u \in W!Threads \ {W!Main} : at'[u] = at[u]) /\ UNCHANGED peer
    BY <1>8, <1>n, <1>t, <2>1 DEF W!VisitPeer, ThreadStates
  <2> QED
    BY <1>g, <1>u, <2>2 DEF W!InCall
<1>9. CASE W!Boot
  <2>1. NoNewCall
    BY <1>9 DEF W!Boot, W!Away, W!InCall
  <2> QED
    BY <1>9, <1>g, <1>u, <2>1 DEF W!Boot
<1>10. ASSUME NEW t \in Script, W!Exit(t)
       PROVE  W!UsedAlive'
  <2>1. at'[t].pc = "gone" /\ (\A u \in W!Threads \ {t} : at'[u] = at[u]) /\ UNCHANGED peer
    BY <1>n, <1>t, <1>10, MoveFacts DEF W!Exit, PeerPoints
  <2> QED
    BY <1>g, <1>u, <2>1 DEF W!InCall
<1>11. CASE UNCHANGED W!vars
  BY <1>11, <1>e, <1>g, <1>u DEF W!vars
<1> QED
  BY <1>1, <1>2, <1>3, <1>4, <1>5, <1>6, <1>7, <1>8, <1>9, <1>10, <1>11, Zenon DEF W!Next, W!Thread

(* and the registry.                                                       *)
LEMMA RegistryStep ==
  ASSUME W!TypeOK, Places, OneCloser, Progress, Lock, W!RegistryExact, IsFiniteSet(registered), [W!Next]_W!vars
  PROVE  W!RegistryExact' /\ IsFiniteSet(registered')
<1>t. at \in ThreadStates /\ peer \in PeerStates /\ registered \subseteq Peers /\ library \in BOOLEAN
  BY DEF W!TypeOK, ThreadStates, PeerStates, PeerRecords, PeerPoints
<1>k. ASSUME registered' = registered, peers' = peers, library' = library,
             \A q \in Peers : peer'[q].pc => peer[q].pc,
             \A q \in registered : peer[q].live => peer'[q].live
      PROVE  W!RegistryExact' /\ IsFiniteSet(registered')
  BY <1>k, <1>t DEF W!RegistryExact
<1>1. ASSUME NEW t \in W!Threads, NEW p \in Peers, W!Make(t, p)
      PROVE  W!RegistryExact' /\ IsFiniteSet(registered')
  <2>1. p \notin registered
    BY <1>1 DEF W!Make, W!RegistryExact
  <2>2. registered' = registered \cup {p} /\ peers' = peers + 1 /\ library' = (library \/ peers = 0)
    BY <1>1 DEF W!Make
  <2>3. IsFiniteSet(registered') /\ Cardinality(registered') = Cardinality(registered) + 1
    BY <2>1, <2>2, FS_AddElement
  <2>4. peer'[p].live /\ \A q \in Peers \ {p} : peer'[q] = peer[q]
    BY <1>1, <1>t DEF W!Make, W!NoPeer, PeerStates
  <2>5. library'
    BY <1>t, <2>2, FS_EmptySet, PeerCardinality DEF W!RegistryExact
  <2>6. peers' = Cardinality(registered') /\ registered' # {}
    BY <2>2, <2>3, PeerCardinality DEF W!RegistryExact
  <2>7. (\A q \in Peers : peer'[q].pc => q \in registered') /\ \A q \in registered' : peer'[q].live
    BY <1>t, <2>2, <2>4 DEF W!RegistryExact
  <2> QED
    BY <2>3, <2>5, <2>6, <2>7, PeerCardinality DEF W!RegistryExact
<1>2. ASSUME NEW t \in W!Threads, W!Unregister(t)
      PROVE  W!RegistryExact' /\ IsFiniteSet(registered')
  <2>1. UNCHANGED peer /\ at[t].pc = "unregister"
    BY <1>2 DEF W!Unregister
  <2>2. CASE at[t].peer \notin registered
    BY <1>2, <1>k, <2>1, <2>2 DEF W!Unregister, W!registry
  <2>3. CASE at[t].peer \in registered
    <3>1. /\ registered' = registered \ {at[t].peer} /\ peers' = peers - 1 /\ library' = (library /\ peers' # 0)
      BY <1>2, <2>3 DEF W!Unregister
    <3>2. IsFiniteSet(registered') /\ Cardinality(registered') = Cardinality(registered) - 1
      BY <2>3, <3>1, FS_RemoveElement
    <3>3. peers' = Cardinality(registered')
      BY <3>1, <3>2, PeerCardinality DEF W!RegistryExact
    <3>4. library
      BY <2>3 DEF W!RegistryExact
    <3>5. peers' # 0 <=> registered' # {}
      BY <3>2, <3>3, FS_EmptySet
    <3>6. ~peer[at[t].peer].pc
      BY <1>t, <2>1, <2>3 DEF Progress
    <3>7. (\A q \in Peers : peer'[q].pc => q \in registered') /\ \A q \in registered' : peer'[q].live
      BY <2>1, <3>1, <3>6 DEF W!RegistryExact
    <3>8. library' = (registered' # {})
      BY <3>1, <3>4, <3>5
    <3> QED
      BY <3>2, <3>3, <3>7, <3>8, PeerCardinality DEF W!RegistryExact
  <2> QED
    BY <2>2, <2>3
<1>3. ASSUME NEW p \in Peers, W!Collect(p) \/ W!SweepFrees(p)
      PROVE  W!RegistryExact' /\ IsFiniteSet(registered')
  <2>1. p \notin registered
    <3>1. CASE W!Collect(p)
      BY <3>1 DEF W!Collect
    <3>2. CASE W!SweepFrees(p)
      <4>1. \A u \in W!Threads : at[u].pc \in {"idle", "gone"}
        BY <3>2 DEF W!SweepFrees, Lock, W!Threads
      <4>2. \A u \in W!Threads : ~Closing(u, p)
        BY <4>1 DEF Closing
      <4> QED
        BY <3>2, <4>2 DEF W!SweepFrees, OneCloser
    <3> QED
      BY <1>3, <3>1, <3>2
  <2>2. (\A q \in Peers : peer'[q].pc = peer[q].pc) /\ \A q \in Peers \ {p} : peer'[q] = peer[q]
    BY <1>3, <1>t DEF W!Collect, W!SweepFrees, PeerStates, PeerRecords
  <2>3. UNCHANGED W!registry
    BY <1>3 DEF W!Collect, W!SweepFrees
  <2> QED
    BY <1>k, <1>t, <2>1, <2>2, <2>3 DEF W!registry
<1>4. ASSUME NEW t \in W!Threads,
             \/ W!CallChecks(t) \/ W!CallLocks(t) \/ W!CallUnlocks(t) \/ W!EndCall(t) \/ W!Return(t)
             \/ W!CloseOnce(t) \/ W!Drained(t) \/ W!Joined(t) \/ W!Destroy(t)
      PROVE  W!RegistryExact' /\ IsFiniteSet(registered')
  <2>1. UNCHANGED W!registry
    BY <1>4 DEF W!CallChecks, W!CallLocks, W!CallUnlocks, W!EndCall, W!Return, W!CloseOnce, W!Drained, W!Joined,
      W!Destroy
  <2>2. \A q \in Peers : (peer'[q].pc => peer[q].pc) /\ peer'[q].live = peer[q].live
    <3>1. CASE W!CallChecks(t)
      BY <1>t, <3>1 DEF W!CallChecks, PeerStates, PeerRecords
    <3>2. CASE W!CallLocks(t)
      BY <1>t, <3>2 DEF W!CallLocks, PeerStates, PeerRecords
    <3>3. CASE W!CallUnlocks(t)
      BY <1>t, <3>3 DEF W!CallUnlocks, PeerStates, PeerRecords
    <3>4. CASE W!EndCall(t)
      BY <1>t, <3>4 DEF W!EndCall, PeerStates, PeerRecords
    <3>5. CASE W!Return(t)
      BY <1>t, <3>5 DEF W!Return, PeerStates, PeerRecords
    <3>6. CASE W!CloseOnce(t)
      BY <1>t, <3>6 DEF W!CloseOnce, PeerStates, PeerRecords
    <3>7. CASE W!Drained(t)
      BY <1>t, <3>7 DEF W!Drained, PeerStates, PeerRecords
    <3>8. CASE W!Joined(t)
      BY <1>t, <3>8 DEF W!Joined, PeerStates, PeerRecords
    <3>9. CASE W!Destroy(t)
      BY <1>t, <3>9 DEF W!Destroy, PeerStates, PeerRecords
    <3> QED
      BY <1>4, <3>1, <3>2, <3>3, <3>4, <3>5, <3>6, <3>7, <3>8, <3>9
  <2> QED
    BY <1>k, <1>t, <2>1, <2>2 DEF W!registry
<1>5. ASSUME NEW t \in W!Threads, NEW p \in Peers, W!CallCounts(t, p) \/ W!Close(t, p)
      PROVE  W!RegistryExact' /\ IsFiniteSet(registered')
  <2>1. UNCHANGED W!registry
    BY <1>5 DEF W!CallCounts, W!Close
  <2>2. \A q \in Peers : (peer'[q].pc => peer[q].pc) /\ peer'[q].live = peer[q].live
    BY <1>5, <1>t DEF W!CallCounts, W!Close, PeerStates, PeerRecords
  <2> QED
    BY <1>k, <1>t, <2>1, <2>2 DEF W!registry
<1>6. ASSUME NEW p \in Peers, W!Worker(p)
      PROVE  W!RegistryExact' /\ IsFiniteSet(registered')
  <2>1. UNCHANGED W!registry
    BY <1>6 DEF W!Worker, W!WorkerChecks, W!WorkerLocks, W!WorkerUnlocks
  <2>2. \A q \in Peers : (peer'[q].pc => peer[q].pc) /\ peer'[q].live = peer[q].live
    BY <1>6, <1>t DEF W!Worker, W!WorkerChecks, W!WorkerLocks, W!WorkerUnlocks, PeerStates, PeerRecords
  <2> QED
    BY <1>k, <1>t, <2>1, <2>2 DEF W!registry
<1>7. CASE W!StartDeinit \/ W!VisitPeer \/ W!DeinitDone \/ W!StartSweep \/ W!Boot \/ \E t \in Script : W!Exit(t)
  BY <1>7, <1>k DEF W!StartDeinit, W!VisitPeer, W!DeinitDone, W!StartSweep, W!Boot, W!Exit, W!registry
<1>8. CASE UNCHANGED W!vars
  BY <1>8, <1>k DEF W!vars, W!registry
<1> QED
  BY <1>1, <1>2, <1>3, <1>4, <1>5, <1>6, <1>7, <1>8, Zenon DEF W!Next, W!Thread

-----------------------------------------------------------------------------
\* There are no peers at first.
LEMMA PeersInitially == W!Init => PeersInv
<1> SUFFICES ASSUME W!Init PROVE PeersInv
  OBVIOUS
<1>t. W!TypeOK
  BY DEF W!Init, W!TypeOK, W!Away, W!NoPeer, W!Threads, W!Nobody
<1>p. /\ \A t \in W!Threads : at[t].pc = "idle" /\ at[t].peer = W!Nobody
      /\ \A p \in Peers : peer[p] = W!NoPeer
      /\ registered = {} /\ stage = "run"
  BY DEF W!Init, W!Away
<1>1. Places
  BY <1>p DEF Places, W!ObjectsAlive
<1>2. Counts
  <2>1. \A p \in Peers : Callers(p) = {} /\ peer[p].active = 0
    BY <1>p DEF Callers, W!NoPeer
  <2> QED
    BY <2>1, FS_EmptySet DEF Counts
<1>3. OneCloser
  BY <1>p DEF OneCloser, Closing
<1>4. Progress /\ W!UsedAlive
  BY <1>p DEF Progress, W!UsedAlive, W!InCall, W!NoPeer
<1>5. Lock
  BY <1>p DEF Lock
<1>6. W!RegistryExact /\ IsFiniteSet(registered)
  <2>1. \A p \in Peers : ~peer[p].pc
    BY <1>p DEF W!NoPeer
  <2>2. peers = Cardinality(registered) /\ IsFiniteSet(registered)
    BY <1>p, FS_EmptySet DEF W!Init
  <2>3. library = (registered # {})
    BY <1>p DEF W!Init
  <2> QED
    BY <1>p, <2>1, <2>2, <2>3, PeerCardinality DEF W!RegistryExact
<1> QED
  BY <1>t, <1>1, <1>2, <1>3, <1>4, <1>5, <1>6 DEF PeersInv

\* The strengthening is inductive,
LEMMA PeersInductive == PeersInv /\ [W!Next]_W!vars => PeersInv'
<1> SUFFICES ASSUME PeersInv, [W!Next]_W!vars PROVE PeersInv'
  OBVIOUS
<1>i. /\ W!TypeOK /\ Places /\ Counts /\ OneCloser /\ Progress /\ Lock /\ W!UsedAlive /\ W!RegistryExact
      /\ IsFiniteSet(registered)
  BY DEF PeersInv
<1>1. W!TypeOK'
  BY <1>i, PeersTypeStep
<1>2. Places'
  BY <1>i, PlacesStep
<1>3. Counts'
  BY <1>i, CountsStep
<1>4. OneCloser'
  BY <1>i, OneCloserStep
<1>5. Progress'
  BY <1>i, ProgressStep
<1>6. Lock'
  BY <1>i, LockStep
<1>7. W!UsedAlive'
  BY <1>i, <1>5, UsedAliveStep
<1>8. W!RegistryExact' /\ IsFiniteSet(registered')
  BY <1>i, RegistryStep
<1> QED
  BY <1>1, <1>2, <1>3, <1>4, <1>5, <1>6, <1>7, <1>8 DEF PeersInv

\* and holds in every state.
THEOREM PeersInvariant == W!Spec => []PeersInv
BY PeersInitially, PeersInductive, PTL DEF W!Spec

\* Every variable keeps to its type: calls that close() waits for are never fewer than none, so that the counter,
\* which is unsigned, does not wrap, and neither does the number of the peers.
THEOREM PeersTypes == W!Spec => []W!TypeOK
<1>1. PeersInv => W!TypeOK
  BY DEF PeersInv
<1> QED
  BY <1>1, PeersInvariant, PTL

\* However calls, closes and a soft reset overlap, a call or a worker never meets a connection, a mutex or an object
\* that is gone, the registry has exactly the connections there are, and nothing of them is left when the VM is gone.
THEOREM PeersAreSound == W!Spec => []PeersSound
<1>1. PeersInv => PeersSound
  <2> SUFFICES ASSUME PeersInv PROVE PeersSound
    OBVIOUS
  <2>1. W!UsedAlive /\ W!ObjectsAlive /\ W!RegistryExact
    BY DEF PeersInv, Places
  <2>2. W!SweptClean
    <3> SUFFICES ASSUME \A p \in Peers : ~peer[p].live
                 PROVE  /\ registered = {} /\ ~library
                        /\ \A p \in Peers : peer[p].worker = "none" /\ ~peer[p].pc
      BY DEF W!SweptClean
    <3>1. registered = {}
      BY <2>1 DEF W!RegistryExact, PeersInv, W!TypeOK
    <3>2. ~library /\ \A p \in Peers : ~peer[p].pc
      BY <2>1, <3>1 DEF W!RegistryExact
    <3> QED
      BY <2>1, <3>1, <3>2 DEF W!UsedAlive
  <2> QED
    BY <2>1, <2>2 DEF PeersSound, W!PeersSound
<1> QED
  BY <1>1, PeersInvariant, PTL
=============================================================================
