------------------------- MODULE ConnectionRouteProofs -------------------------
(***************************************************************************)
(* Proofs about the ways of a connection to its host.  ProxyJump, for any  *)
(* number of connections and chains of jump hosts of every length: no      *)
(* connection is made through a jump host that was not trusted, a          *)
(* disconnect ends only threads it was meant for, and every end of a       *)
(* socket pair has an owner.  ConnectionSocket, for every number of        *)
(* addresses, cancels and descriptors: no descriptor leaks, and as long as *)
(* libssh does not close the descriptor it was lent, no cancel and no      *)
(* close of a connection reaches another socket.                           *)
(***************************************************************************)
EXTENDS ProxyJump, ConnectionSocket, TLAPS

-----------------------------------------------------------------------------
(***************************************************************************)
(* The inductive invariant.  The threads of a chain are started from the   *)
(* first to the last and get through to their host from the last to the    *)
(* first.                                                                  *)
(***************************************************************************)

Fresh(t) == thread[t] = NoThread
Later(t, u) == u[1] = t[1] /\ u[2] > t[2]

\* The thread t has got through to its host, and what it found is never looked at again.
Through(t) ==
    /\ thread[t].op \in {"looks", "polls", "exits", "gone"}
    /\ thread[t].authenticated /\ KeyAccepted(t)

NotBegun == \A c \in Connections : client[c].state = "idle" => \A t \in Threads : t[1] = c => Fresh(t)
InOrder ==
    \A t \in Threads : thread[t].op \in {"none", "not_created", "before", "connects"} =>
        \A u \in Threads : Later(t, u) => Fresh(u)
Proceeds ==
    \A t \in Threads :
        /\ thread[t].op \in {"authenticates", "opens", "looks", "polls"} => KeyAccepted(t)
        /\ thread[t].op \in {"opens", "looks", "polls"} => thread[t].authenticated
Chained ==
    \A t \in Threads : thread[t].op \in {"verifies", "authenticates", "opens", "looks", "polls"} =>
        \A u \in Threads : Later(t, u) => Through(u)
Made == \A c \in Connections : client[c].state = "connected" => \A t \in Threads : t[1] = c => Through(t)

\* The flag is set only by a disconnect that every connection with threads has seen.
FlagIsKnown ==
    proxy_disconnect = 1 =>
        \A c \in Connections : Hops[c] > 0 /\ client[c].state # "idle" => signalled[c]

ChainInv == NotBegun /\ InOrder /\ Proceeds /\ Chained /\ Made
FlagInv == FlagIsKnown /\ OnlyLaterDisconnects
IInv == JumpTypeOK /\ ChainInv /\ FlagInv /\ EndsHaveOwners

-----------------------------------------------------------------------------
(***************************************************************************)
(* Threads and their places in the chain.                                  *)
(***************************************************************************)

\* A thread is a connection and the number of a hop.
LEMMA ThreadIs ==
    ASSUME ProxyJumpAssumption, NEW t \in Threads
    PROVE  t[1] \in Connections /\ t[2] \in Nat /\ t[2] >= 1 /\ t[2] <= Hops[t[1]] /\ t = <<t[1], t[2]>>
           /\ Hops[t[1]] \in Nat
  <1>1. PICK c \in Connections : t \in {c} \X (1..Hops[c])  BY DEF Threads
  <1>2. Hops[c] \in Nat  BY DEF ProxyJumpAssumption
  <1>. QED  BY <1>1, <1>2

\* A connection with hops has a first one.
LEMMA FirstThread ==
    ASSUME ProxyJumpAssumption, NEW c \in Connections, Hops[c] > 0
    PROVE  <<c, 1>> \in Threads
  <1>1. Hops[c] \in Nat  BY DEF ProxyJumpAssumption
  <1>2. <<c, 1>> \in {c} \X (1..Hops[c])  BY <1>1
  <1>. QED  BY <1>2 DEF Threads

\* A hop that is not the last one has a next one.
LEMMA NextThread ==
    ASSUME ProxyJumpAssumption, NEW t \in Threads, ~Last(t)
    PROVE  NextHop(t) \in Threads /\ NextHop(t)[1] = t[1] /\ NextHop(t)[2] = t[2] + 1 /\ NextHop(t) # t
  <1>1. t[1] \in Connections /\ t[2] \in Nat /\ t[2] >= 1 /\ t[2] <= Hops[t[1]] /\ t = <<t[1], t[2]>>
        /\ Hops[t[1]] \in Nat
    BY ThreadIs
  <1>2. t[2] + 1 \in 1..Hops[t[1]]  BY <1>1 DEF Last
  <1>3. NextHop(t) \in {t[1]} \X (1..Hops[t[1]])  BY <1>2 DEF NextHop
  <1>4. NextHop(t) \in Threads  BY <1>1, <1>3 DEF Threads
  <1>. QED  BY <1>1, <1>4 DEF NextHop

\* Two threads with the same place are the same one.
LEMMA SamePlace ==
    ASSUME ProxyJumpAssumption, NEW t \in Threads, NEW u \in Threads, u[1] = t[1], u[2] = t[2]
    PROVE  u = t
  BY ThreadIs

\* What comes after a hop is the next one or comes after that.
LEMMA LaterThan ==
    ASSUME ProxyJumpAssumption, NEW t \in Threads, NEW u \in Threads, Later(t, u)
    PROVE  ~Last(t) /\ (u = NextHop(t) \/ Later(NextHop(t), u))
  <1>1. t[2] \in Nat /\ u[2] \in Nat /\ u[2] <= Hops[u[1]] /\ u[1] = t[1] /\ u[2] > t[2] /\ Hops[t[1]] \in Nat
    BY ThreadIs DEF Later
  <1>2. ~Last(t)  BY <1>1 DEF Last
  <1>3. NextHop(t) \in Threads /\ NextHop(t)[1] = t[1] /\ NextHop(t)[2] = t[2] + 1  BY <1>2, NextThread
  <1>4. CASE u[2] = t[2] + 1  BY <1>1, <1>2, <1>3, <1>4, SamePlace
  <1>5. CASE u[2] > t[2] + 1  BY <1>1, <1>2, <1>3, <1>5 DEF Later
  <1>. QED  BY <1>1, <1>4, <1>5

-----------------------------------------------------------------------------
(***************************************************************************)
(* The steps of a thread.  All but the start of the next hop change one    *)
(* record only.                                                            *)
(***************************************************************************)

Ops == {"none", "not_created", "before", "connects", "waits", "verifies", "authenticates", "opens", "looks",
        "polls", "exits", "gone"}
Thread == [op : Ops, key : BOOLEAN, authenticated : BOOLEAN, open : BOOLEAN, told : BOOLEAN]

\* What one step may make of the record r of the thread t.
Moves(t, r) ==
    LET old == thread[t] IN
    /\ r \in Thread /\ r.key = old.key
    /\ r.authenticated # old.authenticated => old.op = "authenticates"
    /\ r.told => old.told \/ (old.op = "looks" /\ proxy_disconnect = 1)
    /\ \/ old.op = "before" /\ r.op \in {"connects", "exits"}
       \/ old.op = "connects" /\ (r.op = "exits" \/ (Last(t) /\ r.op = "verifies") \/ (~Last(t) /\ r.op = "waits"))
       \/ old.op = "waits" /\ (r.op = "exits" \/ (r.op = "verifies" /\ thread[NextHop(t)].op \in {"looks", "polls"}))
       \/ old.op = "verifies" /\ (r.op = "exits" \/ (r.op = "authenticates" /\ KeyAccepted(t)))
       \/ old.op = "authenticates" /\ (r.op = "exits" \/ (r.op = "opens" /\ r.authenticated))
       \/ old.op = "opens" /\ r.op \in {"exits", "looks"}
       \/ old.op = "looks" /\ r.op \in {"exits", "polls"}
       \/ old.op = "polls" /\ r.op \in {"exits", "looks", "polls"}
       \/ old.op = "exits" /\ r.op = "gone"

\* The ends of the pairs when only the thread t moves.
Ends(t) ==
    \A u \in Threads : pair'[u].thread = (IF u = t /\ thread[t].op = "exits" THEN FALSE ELSE pair[u].thread)

MovesOnly(t) ==
    /\ \E r \in Thread : Moves(t, r) /\ thread' = [thread EXCEPT ![t] = r]
    /\ pair' \in [Threads -> [parent : BOOLEAN, thread : BOOLEAN]] /\ Ends(t)

\* A step of a thread moves it, and nothing else, or starts the next hop.
LEMMA ThreadMoves ==
    ASSUME ProxyJumpAssumption, JumpTypeOK, NEW t \in Threads, ThreadStep(t) \/ HostCloses(t)
    PROVE  ThreadOnly /\ (MovesOnly(t) \/ (jump_connect(t) /\ ~Last(t)))
  <1>1. thread[t] \in Thread /\ thread \in [Threads -> Thread]  BY DEF JumpTypeOK, Thread, Ops
  <1>2. pair \in [Threads -> [parent : BOOLEAN, thread : BOOLEAN]]  BY DEF JumpTypeOK
  <1>. DEFINE old == thread[t]
  <1>3. ASSUME NEW op \in Ops, Goes(t, op), old.op # "exits",
               Moves(t, [old EXCEPT !.op = op])
        PROVE  MovesOnly(t)
    <2>1. [old EXCEPT !.op = op] \in Thread  BY <1>1 DEF Thread
    <2>2. thread' = [thread EXCEPT ![t] = [old EXCEPT !.op = op]] /\ pair' = pair  BY <1>3 DEF Goes
    <2>3. Ends(t)  BY <1>3, <2>2 DEF Ends
    <2>. QED  BY <1>2, <1>3, <2>1, <2>2, <2>3 DEF MovesOnly
  <1>4. ASSUME before_connection(t) PROVE MovesOnly(t) /\ ThreadOnly
    <2>1. PICK op \in {"connects", "exits"} : Goes(t, op)  BY <1>4 DEF before_connection
    <2>2. old.op = "before"  BY <1>4 DEF before_connection
    <2>3. Moves(t, [old EXCEPT !.op = op])  BY <1>1, <2>1, <2>2 DEF Moves, Thread, Ops
    <2>. QED  BY <1>3, <1>4, <2>1, <2>2, <2>3 DEF Ops, before_connection
  <1>5. ASSUME jump_connect(t), Last(t) PROVE MovesOnly(t) /\ ThreadOnly
    <2>1. PICK op \in {"verifies", "exits"} : Goes(t, op)  BY <1>5 DEF jump_connect
    <2>2. old.op = "connects"  BY <1>5 DEF jump_connect
    <2>3. Moves(t, [old EXCEPT !.op = op])  BY <1>1, <1>5, <2>1, <2>2 DEF Moves, Thread, Ops
    <2>. QED  BY <1>3, <1>5, <2>1, <2>2, <2>3 DEF Ops, jump_connect
  <1>6. ASSUME jump_connected(t) PROVE MovesOnly(t) /\ ThreadOnly
    <2>1. PICK op \in {"verifies", "exits"} :
            Goes(t, op) /\ (op = "verifies" => thread[NextHop(t)].op \in {"looks", "polls"})
      BY <1>6 DEF jump_connected
    <2>2. old.op = "waits"  BY <1>6 DEF jump_connected
    <2>3. Moves(t, [old EXCEPT !.op = op])  BY <1>1, <2>1, <2>2 DEF Moves, Thread, Ops
    <2>. QED  BY <1>3, <1>6, <2>1, <2>2, <2>3 DEF Ops, jump_connected
  <1>7. ASSUME verify_knownhost(t) PROVE MovesOnly(t) /\ ThreadOnly
    <2>1. PICK op \in {"authenticates", "exits"} : Goes(t, op) /\ (op = "authenticates" => KeyAccepted(t))
      BY <1>7 DEF verify_knownhost
    <2>2. old.op = "verifies"  BY <1>7 DEF verify_knownhost
    <2>3. Moves(t, [old EXCEPT !.op = op])  BY <1>1, <2>1, <2>2 DEF Moves, Thread, Ops
    <2>. QED  BY <1>3, <1>7, <2>1, <2>2, <2>3 DEF Ops, verify_knownhost
  <1>8. ASSUME authenticate(t) PROVE MovesOnly(t) /\ ThreadOnly
    <2>1. PICK success \in BOOLEAN :
              thread' = [thread EXCEPT ![t].op = IF success THEN "opens" ELSE "exits", ![t].authenticated = success]
      BY <1>8 DEF authenticate
    <2>2. old.op = "authenticates" /\ pair' = pair  BY <1>8 DEF authenticate
    <2>. DEFINE r == [old EXCEPT !.op = IF success THEN "opens" ELSE "exits", !.authenticated = success]
    <2>3. thread' = [thread EXCEPT ![t] = r]  BY <1>1, <2>1
    <2>4. r \in Thread /\ r.key = old.key /\ r.authenticated = success /\ r.told = old.told
          /\ r.op = IF success THEN "opens" ELSE "exits"
      BY <1>1 DEF Thread, Ops
    <2>. HIDE DEF r
    <2>5. Moves(t, r)  BY <2>2, <2>4 DEF Moves
    <2>6. Ends(t)  BY <2>2 DEF Ends
    <2>. QED  BY <1>2, <1>8, <2>2, <2>3, <2>4, <2>5, <2>6 DEF MovesOnly, authenticate
  <1>9. ASSUME ssh_channel_open_forward(t) PROVE MovesOnly(t) /\ ThreadOnly
    <2>1. PICK success \in BOOLEAN :
              thread' = [thread EXCEPT ![t].op = IF success THEN "looks" ELSE "exits", ![t].open = success]
      BY <1>9 DEF ssh_channel_open_forward
    <2>2. old.op = "opens" /\ pair' = pair  BY <1>9 DEF ssh_channel_open_forward
    <2>. DEFINE r == [old EXCEPT !.op = IF success THEN "looks" ELSE "exits", !.open = success]
    <2>3. thread' = [thread EXCEPT ![t] = r]  BY <1>1, <2>1
    <2>4. r \in Thread /\ r.key = old.key /\ r.authenticated = old.authenticated /\ r.told = old.told
          /\ r.op = IF success THEN "looks" ELSE "exits"
      BY <1>1 DEF Thread, Ops
    <2>. HIDE DEF r
    <2>5. Moves(t, r)  BY <2>2, <2>4 DEF Moves
    <2>6. Ends(t)  BY <2>2 DEF Ends
    <2>. QED  BY <1>2, <1>9, <2>2, <2>3, <2>4, <2>5, <2>6 DEF MovesOnly, ssh_channel_open_forward
  <1>10. ASSUME looks(t) PROVE MovesOnly(t) /\ ThreadOnly
    <2>. DEFINE sees == old.open /\ SeesDisconnect(t)
                next == IF old.open /\ ~SeesDisconnect(t) THEN "polls" ELSE "exits"
                r == [old EXCEPT !.op = next, !.told = sees]
    <2>1. old.op = "looks" /\ pair' = pair  BY <1>10 DEF looks
    <2>2. thread' = [thread EXCEPT ![t] = r]  BY <1>1, <1>10 DEF looks
    <2>3. sees \in BOOLEAN /\ next \in {"polls", "exits"}  BY <1>1 DEF Thread, SeesDisconnect
    <2>4. sees => proxy_disconnect = 1  BY DEF SeesDisconnect
    <2>. HIDE DEF sees, next
    <2>5. r \in Thread /\ r.key = old.key /\ r.authenticated = old.authenticated /\ r.told = sees /\ r.op = next
      BY <1>1, <2>3 DEF Thread, Ops
    <2>. HIDE DEF r
    <2>6. Moves(t, r)  BY <2>1, <2>3, <2>4, <2>5 DEF Moves
    <2>7. Ends(t)  BY <2>1 DEF Ends
    <2>. QED  BY <1>2, <1>10, <2>1, <2>2, <2>5, <2>6, <2>7 DEF MovesOnly, looks
  <1>11. ASSUME ssh_event_dopoll(t) PROVE MovesOnly(t) /\ ThreadOnly
    <2>1. PICK op \in {"looks", "exits"} : Goes(t, op)  BY <1>11 DEF ssh_event_dopoll
    <2>2. old.op = "polls"  BY <1>11 DEF ssh_event_dopoll
    <2>3. Moves(t, [old EXCEPT !.op = op])  BY <1>1, <2>1, <2>2 DEF Moves, Thread, Ops
    <2>. QED  BY <1>3, <1>11, <2>1, <2>2, <2>3 DEF Ops, ssh_event_dopoll
  <1>12. ASSUME HostCloses(t) PROVE MovesOnly(t) /\ ThreadOnly
    <2>. DEFINE r == [old EXCEPT !.open = FALSE]
    <2>1. old.op = "polls" /\ pair' = pair  BY <1>12 DEF HostCloses
    <2>2. thread' = [thread EXCEPT ![t] = r]  BY <1>1, <1>12 DEF HostCloses
    <2>3. r \in Thread /\ r.key = old.key /\ r.authenticated = old.authenticated /\ r.told = old.told /\ r.op = old.op
      BY <1>1 DEF Thread
    <2>. HIDE DEF r
    <2>4. Moves(t, r)  BY <2>1, <2>3 DEF Moves
    <2>5. Ends(t)  BY <2>1 DEF Ends
    <2>. QED  BY <1>2, <1>12, <2>1, <2>2, <2>3, <2>4, <2>5 DEF MovesOnly, HostCloses
  <1>13. ASSUME jump_thread_exit(t) PROVE MovesOnly(t) /\ ThreadOnly
    <2>. DEFINE r == [old EXCEPT !.op = "gone", !.open = FALSE]
    <2>1. old.op = "exits"  BY <1>13 DEF jump_thread_exit
    <2>2. thread' = [thread EXCEPT ![t] = r]  BY <1>1, <1>13 DEF jump_thread_exit
    <2>3. r \in Thread /\ r.key = old.key /\ r.authenticated = old.authenticated /\ r.told = old.told /\ r.op = "gone"
      BY <1>1 DEF Thread, Ops
    <2>. HIDE DEF r
    <2>4. Moves(t, r)  BY <2>1, <2>3 DEF Moves
    <2>5. pair' = [u \in Threads |-> IF u = t THEN [pair[u] EXCEPT !.thread = FALSE]
                                     ELSE IF u = NextHop(t) THEN [pair[u] EXCEPT !.parent = FALSE] ELSE pair[u]]
      BY <1>13 DEF jump_thread_exit
    <2>6. pair' \in [Threads -> [parent : BOOLEAN, thread : BOOLEAN]]  BY <1>2, <2>5
    <2>7. Ends(t)  BY <1>2, <2>1, <2>5 DEF Ends
    <2>. QED  BY <1>13, <2>2, <2>3, <2>4, <2>6, <2>7 DEF MovesOnly, jump_thread_exit
  <1>14. jump_connect(t) => ThreadOnly  BY DEF jump_connect
  <1>. QED
    BY <1>4, <1>5, <1>6, <1>7, <1>8, <1>9, <1>10, <1>11, <1>12, <1>13, <1>14 DEF ThreadStep

-----------------------------------------------------------------------------
(***************************************************************************)
(* The invariant is preserved by the threads.                              *)
(***************************************************************************)

\* A record is fresh as long as its thread was not started.
LEMMA FreshIsNone ==
    ASSUME NEW t \in Threads, Fresh(t)
    PROVE  thread[t].op = "none" /\ ~thread[t].authenticated /\ ~thread[t].told
  BY DEF Fresh, NoThread

\* A step of one thread alone.
LEMMA MovesKeepChain ==
    ASSUME ProxyJumpAssumption, JumpTypeOK, ChainInv, NEW t \in Threads, MovesOnly(t), ThreadOnly
    PROVE  JumpTypeOK' /\ ChainInv'
  <1>1. PICK r \in Thread : Moves(t, r) /\ thread' = [thread EXCEPT ![t] = r]  BY DEF MovesOnly
  <1>2. thread \in [Threads -> Thread]  BY DEF JumpTypeOK, Thread, Ops
  <1>3. thread' \in [Threads -> Thread] /\ thread'[t] = r /\ \A u \in Threads : u # t => thread'[u] = thread[u]
    BY <1>1, <1>2
  <1>4. client' = client /\ callbacks' = callbacks /\ signalled' = signalled /\ proxy_disconnect' = proxy_disconnect
    BY DEF ThreadOnly
  <1>5. JumpTypeOK'
    <2>1. pair' \in [Threads -> [parent : BOOLEAN, thread : BOOLEAN]]  BY DEF MovesOnly
    <2>. QED  BY <1>3, <1>4, <2>1 DEF JumpTypeOK, Thread, Ops
  <1>6. \/ /\ thread[t].op \notin {"none", "not_created", "gone"}
           /\ r.op \notin {"none", "not_created", "before", "connects"}
        \/ thread[t].op = "before"
    BY <1>1 DEF Moves
  <1>7. ~Fresh(t)  BY <1>6, FreshIsNone
  <1>8. \A u \in Threads : Fresh(u) => Fresh(u)'  BY <1>3, <1>7 DEF Fresh
  <1>9. \A u \in Threads : KeyAccepted(u)' <=> KeyAccepted(u)  BY <1>1, <1>3, <1>4 DEF KeyAccepted, Moves
  <1>10. \A u \in Threads : Through(u) => Through(u)'
    <2>1. Through(t) => r.op \in {"looks", "polls", "exits", "gone"} /\ r.authenticated
      BY <1>1 DEF Through, Moves, Thread
    <2>2. ASSUME NEW u \in Threads, Through(u) PROVE Through(u)'
      <3>1. CASE u = t  BY <1>3, <1>9, <2>1, <2>2, <3>1 DEF Through
      <3>2. CASE u # t  BY <1>3, <1>9, <2>2, <3>2 DEF Through
      <3>. QED  BY <3>1, <3>2
    <2>. QED  BY <2>2
  <1>11. NotBegun'  BY <1>4, <1>8 DEF ChainInv, NotBegun
  <1>12. InOrder'
    <2>1. ASSUME NEW u \in Threads, thread'[u].op \in {"none", "not_created", "before", "connects"}
          PROVE  thread[u].op \in {"none", "not_created", "before", "connects"}
      BY <1>1, <1>3, <1>6, <2>1
    <2>. QED  BY <1>8, <2>1 DEF ChainInv, InOrder, Later
  <1>13. Proceeds'
    <2>1. thread[t].op \in {"authenticates", "opens", "looks", "polls"} => KeyAccepted(t)  BY DEF ChainInv, Proceeds
    <2>2. thread[t].op \in {"opens", "looks", "polls"} => thread[t].authenticated  BY DEF ChainInv, Proceeds
    <2>3. r.op \in {"authenticates", "opens", "looks", "polls"} => KeyAccepted(t)  BY <1>1, <2>1 DEF Moves
    <2>4. r.op \in {"opens", "looks", "polls"} => r.authenticated  BY <1>1, <2>2 DEF Moves, Thread
    <2>5. ASSUME NEW u \in Threads
          PROVE  /\ thread'[u].op \in {"authenticates", "opens", "looks", "polls"} => KeyAccepted(u)'
                 /\ thread'[u].op \in {"opens", "looks", "polls"} => thread'[u].authenticated
      <3>1. CASE u = t  BY <1>3, <1>9, <2>3, <2>4, <3>1
      <3>2. CASE u # t  BY <1>3, <1>9, <3>2 DEF ChainInv, Proceeds
      <3>. QED  BY <3>1, <3>2
    <2>. QED  BY <2>5 DEF Proceeds
  <1>14. Chained'
    <2>1. ASSUME NEW u \in Threads, Later(t, u), r.op \in {"verifies", "authenticates", "opens", "looks", "polls"}
          PROVE  Through(u)
      <3>1. CASE thread[t].op \in {"verifies", "authenticates", "opens", "looks", "polls"}
        BY <2>1, <3>1 DEF ChainInv, Chained
      <3>2. CASE thread[t].op \notin {"verifies", "authenticates", "opens", "looks", "polls"}
        <4>1. ~Last(t) /\ (u = NextHop(t) \/ Later(NextHop(t), u))  BY <2>1, LaterThan
        <4>2. NextHop(t) \in Threads  BY <4>1, NextThread
        <4>3. thread[NextHop(t)].op \in {"looks", "polls"}  BY <1>1, <2>1, <3>2, <4>1 DEF Moves
        <4>4. Through(NextHop(t))  BY <4>2, <4>3 DEF ChainInv, Proceeds, Through
        <4>5. Later(NextHop(t), u) => Through(u)  BY <4>2, <4>3 DEF ChainInv, Chained
        <4>. QED  BY <4>1, <4>4, <4>5
      <3>. QED  BY <3>1, <3>2
    <2>2. ASSUME NEW v \in Threads, NEW u \in Threads, Later(v, u),
                 thread'[v].op \in {"verifies", "authenticates", "opens", "looks", "polls"}
          PROVE  Through(u)'
      <3>1. CASE v = t  BY <1>3, <1>10, <2>1, <2>2, <3>1
      <3>2. CASE v # t  BY <1>3, <1>10, <2>2, <3>2 DEF ChainInv, Chained
      <3>. QED  BY <3>1, <3>2
    <2>. QED  BY <2>2 DEF Chained, Later
  <1>15. Made'  BY <1>4, <1>10 DEF ChainInv, Made
  <1>. QED  BY <1>5, <1>11, <1>12, <1>13, <1>14, <1>15 DEF ChainInv

\* A thread that moves was started, so that its connection has begun.
LEMMA HasBegun ==
    ASSUME ProxyJumpAssumption, NotBegun, NEW t \in Threads, thread[t].op # "none"
    PROVE  Hops[t[1]] > 0 /\ client[t[1]].state # "idle"
  <1>1. t[1] \in Connections /\ Hops[t[1]] > 0  BY ThreadIs
  <1>. QED  BY <1>1, FreshIsNone DEF NotBegun

LEMMA MovesKeepFlag ==
    ASSUME ProxyJumpAssumption, JumpTypeOK, ChainInv, FlagInv, NEW t \in Threads, MovesOnly(t), ThreadOnly
    PROVE  FlagInv'
  <1>1. PICK r \in Thread : Moves(t, r) /\ thread' = [thread EXCEPT ![t] = r]  BY DEF MovesOnly
  <1>2. thread \in [Threads -> Thread]  BY DEF JumpTypeOK, Thread, Ops
  <1>3. thread'[t] = r /\ \A u \in Threads : u # t => thread'[u] = thread[u]  BY <1>1, <1>2
  <1>4. client' = client /\ signalled' = signalled /\ proxy_disconnect' = proxy_disconnect  BY DEF ThreadOnly
  <1>5. FlagIsKnown'  BY <1>4 DEF FlagInv, FlagIsKnown
  <1>6. r.told => signalled[t[1]]
    <2>1. CASE thread[t].told  BY <2>1 DEF FlagInv, OnlyLaterDisconnects
    <2>2. CASE thread[t].op = "looks" /\ proxy_disconnect = 1
      BY <2>2, ThreadIs, HasBegun DEF ChainInv, FlagInv, FlagIsKnown
    <2>. QED  BY <1>1, <2>1, <2>2 DEF Moves
  <1>7. OnlyLaterDisconnects'
    <2>1. ASSUME NEW u \in Threads, thread'[u].told PROVE signalled[u[1]]
      <3>1. CASE u = t  BY <1>3, <1>6, <2>1, <3>1
      <3>2. CASE u # t  BY <1>3, <2>1, <3>2 DEF FlagInv, OnlyLaterDisconnects
      <3>. QED  BY <3>1, <3>2
    <2>. QED  BY <1>4, <2>1 DEF OnlyLaterDisconnects
  <1>. QED  BY <1>5, <1>7 DEF FlagInv

LEMMA MovesKeepEnds ==
    ASSUME ProxyJumpAssumption, JumpTypeOK, EndsHaveOwners, NEW t \in Threads, MovesOnly(t)
    PROVE  EndsHaveOwners'
  <1>1. PICK r \in Thread : Moves(t, r) /\ thread' = [thread EXCEPT ![t] = r]  BY DEF MovesOnly
  <1>2. thread \in [Threads -> Thread]  BY DEF JumpTypeOK, Thread, Ops
  <1>3. thread'[t] = r /\ \A u \in Threads : u # t => thread'[u] = thread[u]  BY <1>1, <1>2
  <1>4. ASSUME NEW u \in Threads PROVE pair'[u].thread = (Live(u)' \/ thread'[u].op = "not_created")
    <2>1. pair[u].thread = (Live(u) \/ thread[u].op = "not_created")  BY DEF EndsHaveOwners
    <2>2. CASE u # t  BY <1>3, <2>1, <2>2 DEF MovesOnly, Ends, Live
    <2>3. CASE u = t /\ thread[t].op = "exits"
      <3>1. r.op = "gone"  BY <1>1, <2>3 DEF Moves
      <3>2. pair'[u].thread = FALSE  BY <2>3 DEF MovesOnly, Ends
      <3>. QED  BY <1>3, <2>3, <3>1, <3>2 DEF Live
    <2>4. CASE u = t /\ thread[t].op # "exits"
      <3>1. thread[t].op \notin {"none", "not_created", "gone"} /\ r.op \notin {"none", "not_created", "gone"}
        BY <1>1, <2>4 DEF Moves
      <3>2. pair'[u].thread = pair[u].thread  BY <2>4 DEF MovesOnly, Ends
      <3>. QED  BY <1>3, <2>1, <2>4, <3>1, <3>2 DEF Live
    <2>. QED  BY <2>2, <2>3, <2>4
  <1>. QED  BY <1>4 DEF EndsHaveOwners

\* The start of the next hop.
LEMMA StartKeeps ==
    ASSUME ProxyJumpAssumption, IInv, NEW t \in Threads, jump_connect(t), ~Last(t), ThreadOnly
    PROVE  IInv'
  <1>. DEFINE n == NextHop(t)
  <1>1. n \in Threads /\ n[1] = t[1] /\ n[2] = t[2] + 1 /\ n # t  BY NextThread
  <1>. HIDE DEF n
  <1>2. PICK created \in BOOLEAN, key \in BOOLEAN :
          /\ pair' = [pair EXCEPT ![n] = [parent |-> created, thread |-> TRUE]]
          /\ thread' = [thread EXCEPT ![t].op = IF created THEN "waits" ELSE "exits", ![n].key = key,
                                      ![n].op = IF created THEN "before" ELSE "not_created"]
    BY DEF jump_connect, n
  <1>3. thread[t].op = "connects"  BY DEF jump_connect
  <1>4. thread \in [Threads -> Thread]  BY DEF IInv, JumpTypeOK, Thread, Ops
  <1>5. t[2] \in Nat  BY ThreadIs
  <1>6. \A u \in Threads : Later(t, u) => Fresh(u)  BY <1>3 DEF IInv, ChainInv, InOrder
  <1>7. Later(t, n)  BY <1>1, <1>5 DEF Later
  <1>8. Fresh(n)  BY <1>1, <1>6, <1>7
  <1>9. thread'[t] = [thread[t] EXCEPT !.op = IF created THEN "waits" ELSE "exits"]
    BY <1>1, <1>2, <1>4
  <1>10. thread'[n] = [thread[n] EXCEPT !.key = key, !.op = IF created THEN "before" ELSE "not_created"]
    BY <1>1, <1>2, <1>4
  <1>11. \A u \in Threads : u # t /\ u # n => thread'[u] = thread[u]  BY <1>1, <1>2, <1>4
  <1>12. /\ thread'[t] \in Thread /\ thread'[t].op \in {"waits", "exits"}
         /\ thread'[t].key = thread[t].key /\ thread'[t].told = thread[t].told
         /\ thread'[t].authenticated = thread[t].authenticated
    BY <1>4, <1>9 DEF Thread, Ops
  <1>13. /\ thread'[n] \in Thread /\ thread'[n].op \in {"before", "not_created"}
         /\ ~thread'[n].told /\ ~thread'[n].authenticated
    <2>1. thread[n] \in Thread /\ ~thread[n].told /\ ~thread[n].authenticated  BY <1>1, <1>4, <1>8, FreshIsNone
    <2>. QED  BY <1>10, <2>1 DEF Thread, Ops
  <1>14. client' = client /\ callbacks' = callbacks /\ signalled' = signalled /\ proxy_disconnect' = proxy_disconnect
    BY DEF ThreadOnly
  <1>15. ~Fresh(t)  BY <1>3, FreshIsNone
  <1>16. JumpTypeOK'
    <2>1. \A u \in Threads : thread'[u] \in Thread  BY <1>4, <1>11, <1>12, <1>13
    <2>2. thread' \in [Threads -> Thread]
      <3>1. DOMAIN thread' = Threads /\ thread' = [u \in Threads |-> thread'[u]]  BY <1>1, <1>2, <1>4
      <3>. QED  BY <2>1, <3>1
    <2>3. pair' \in [Threads -> [parent : BOOLEAN, thread : BOOLEAN]]  BY <1>1, <1>2 DEF IInv, JumpTypeOK
    <2>. QED  BY <1>14, <2>2, <2>3 DEF IInv, JumpTypeOK, Thread, Ops
  <1>17. \A u \in Threads : Through(u) => Through(u)'
    <2>1. ~Through(t) /\ ~Through(n)  BY <1>1, <1>3, <1>8, FreshIsNone DEF Through
    <2>. QED  BY <1>11, <1>14, <2>1 DEF Through, KeyAccepted
  <1>18. NotBegun'
    <2>1. client[t[1]].state # "idle"  BY <1>3, HasBegun DEF IInv, ChainInv
    <2>2. ASSUME NEW c \in Connections, client[c].state = "idle", NEW u \in Threads, u[1] = c PROVE Fresh(u)'
      <3>1. u # t /\ u # n  BY <1>1, <2>1, <2>2
      <3>2. Fresh(u)  BY <2>2 DEF IInv, ChainInv, NotBegun
      <3>. QED  BY <1>11, <3>1, <3>2 DEF Fresh
    <2>. QED  BY <1>14, <2>2 DEF NotBegun
  <1>19. InOrder'
    <2>1. ASSUME NEW v \in Threads, thread'[v].op \in {"none", "not_created", "before", "connects"},
                 NEW u \in Threads, Later(v, u)
          PROVE  Fresh(u)'
      <3>1. v # t  BY <1>12, <2>1
      <3>2. CASE v = n
        <4>1. t[2] \in Nat /\ u[2] \in Nat  BY ThreadIs
        <4>2. Later(t, u) /\ u # t /\ u # n  BY <1>1, <2>1, <3>2, <4>1 DEF Later
        <4>. QED  BY <1>6, <1>11, <4>2 DEF Fresh
      <3>3. CASE v # n
        <4>1. Fresh(u)  BY <1>11, <2>1, <3>1, <3>3 DEF IInv, ChainInv, InOrder
        <4>2. u # t  BY <1>15, <4>1
        <4>3. CASE u = n
          <5>1. v[2] \in Nat /\ t[2] \in Nat /\ v[1] = t[1] /\ v[2] < t[2] + 1
            BY <1>1, <2>1, <4>3, ThreadIs DEF Later
          <5>2. v[2] # t[2]  BY <3>1, <5>1, SamePlace
          <5>3. Later(v, t)  BY <5>1, <5>2 DEF Later
          <5>. QED  BY <1>11, <1>15, <2>1, <3>1, <3>3, <5>3 DEF IInv, ChainInv, InOrder
        <4>4. CASE u # n  BY <1>11, <4>1, <4>2, <4>4 DEF Fresh
        <4>. QED  BY <4>3, <4>4
      <3>. QED  BY <3>2, <3>3
    <2>. QED  BY <2>1 DEF InOrder, Later
  <1>20. Proceeds'
    <2>1. ASSUME NEW u \in Threads
          PROVE  /\ thread'[u].op \in {"authenticates", "opens", "looks", "polls"} => KeyAccepted(u)'
                 /\ thread'[u].op \in {"opens", "looks", "polls"} => thread'[u].authenticated
      <3>1. CASE u = t \/ u = n  BY <1>12, <1>13, <3>1
      <3>2. CASE u # t /\ u # n  BY <1>11, <1>14, <3>2 DEF IInv, ChainInv, Proceeds, KeyAccepted
      <3>. QED  BY <3>1, <3>2
    <2>. QED  BY <2>1 DEF Proceeds
  <1>21. Chained'
    <2>1. ASSUME NEW v \in Threads, thread'[v].op \in {"verifies", "authenticates", "opens", "looks", "polls"},
                 NEW u \in Threads, Later(v, u)
          PROVE  Through(u)'
      <3>1. v # t /\ v # n  BY <1>12, <1>13, <2>1
      <3>. QED  BY <1>11, <1>17, <2>1, <3>1 DEF IInv, ChainInv, Chained
    <2>. QED  BY <2>1 DEF Chained, Later
  <1>22. Made'  BY <1>14, <1>17 DEF IInv, ChainInv, Made
  <1>23. FlagInv'
    <2>1. FlagIsKnown'  BY <1>14 DEF IInv, FlagInv, FlagIsKnown
    <2>2. \A u \in Threads : thread'[u].told => thread[u].told  BY <1>11, <1>12, <1>13
    <2>3. OnlyLaterDisconnects'  BY <1>14, <2>2 DEF IInv, FlagInv, OnlyLaterDisconnects
    <2>. QED  BY <2>1, <2>3 DEF FlagInv
  <1>24. EndsHaveOwners'
    <2>1. pair'[n].thread /\ \A u \in Threads : u # n => pair'[u] = pair[u]
      BY <1>1, <1>2 DEF IInv, JumpTypeOK
    <2>2. ASSUME NEW u \in Threads PROVE pair'[u].thread = (Live(u)' \/ thread'[u].op = "not_created")
      <3>1. pair[u].thread = (Live(u) \/ thread[u].op = "not_created")  BY DEF IInv, EndsHaveOwners
      <3>2. CASE u = n
        <4>1. pair'[n].thread = TRUE  BY <1>1, <1>2 DEF IInv, JumpTypeOK
        <4>. QED  BY <1>13, <3>2, <4>1 DEF Live
      <3>3. CASE u = t
        <4>1. pair'[t] = pair[t]  BY <1>1, <2>1
        <4>. QED  BY <1>3, <1>12, <3>1, <3>3, <4>1 DEF Live
      <3>4. CASE u # n /\ u # t  BY <1>11, <2>1, <3>1, <3>4 DEF Live
      <3>. QED  BY <3>2, <3>3, <3>4
    <2>. QED  BY <2>2 DEF EndsHaveOwners
  <1>. QED  BY <1>16, <1>18, <1>19, <1>20, <1>21, <1>22, <1>23, <1>24 DEF IInv, ChainInv

LEMMA ThreadKeeps ==
    ASSUME ProxyJumpAssumption, IInv, NEW t \in Threads, ThreadStep(t) \/ HostCloses(t)
    PROVE  IInv'
  <1>1. ThreadOnly /\ (MovesOnly(t) \/ (jump_connect(t) /\ ~Last(t)))  BY ThreadMoves DEF IInv
  <1>2. CASE MovesOnly(t)  BY <1>1, <1>2, MovesKeepChain, MovesKeepFlag, MovesKeepEnds DEF IInv
  <1>3. CASE jump_connect(t) /\ ~Last(t)  BY <1>1, <1>3, StartKeeps
  <1>. QED  BY <1>1, <1>2, <1>3

-----------------------------------------------------------------------------
(***************************************************************************)
(* The invariant is preserved by the clients.                              *)
(***************************************************************************)

\* Steps that leave the threads, the flag and the sockets alone.
LEMMA ClientOnlyKeeps ==
    ASSUME ProxyJumpAssumption, IInv, NEW c \in Connections, NEW state \in {"connected", "failed"},
           client[c].state = "connecting", client' = [client EXCEPT ![c].state = state],
           state = "connected" => \A t \in Threads : t[1] = c => Through(t),
           UNCHANGED <<proxy_disconnect, callbacks, thread, pair, signalled>>
    PROVE  IInv'
  <1>1. client'[c].state = state /\ client'[c].policy = client[c].policy
        /\ \A d \in Connections : d # c => client'[d] = client[d]
    BY DEF IInv, JumpTypeOK
  <1>2. JumpTypeOK'  BY DEF IInv, JumpTypeOK
  <1>3. \A t \in Threads : t[1] \in Connections  BY ThreadIs
  <1>4. \A t \in Threads : KeyAccepted(t)' <=> KeyAccepted(t)  BY <1>1, <1>3 DEF KeyAccepted
  <1>5. \A t \in Threads : Through(t)' <=> Through(t)  BY <1>4 DEF Through
  <1>6. NotBegun'  BY <1>1 DEF IInv, ChainInv, NotBegun, Fresh
  <1>7. InOrder'  BY DEF IInv, ChainInv, InOrder, Fresh, Later
  <1>8. Proceeds'  BY <1>4 DEF IInv, ChainInv, Proceeds
  <1>9. Chained'  BY <1>5 DEF IInv, ChainInv, Chained, Later
  <1>10. Made'
    <2>1. ASSUME NEW d \in Connections, client'[d].state = "connected", NEW t \in Threads, t[1] = d PROVE Through(t)
      <3>1. CASE d = c  BY <1>1, <2>1, <3>1
      <3>2. CASE d # c  BY <1>1, <2>1, <3>2 DEF IInv, ChainInv, Made
      <3>. QED  BY <3>1, <3>2
    <2>. QED  BY <1>5, <2>1 DEF Made
  <1>11. FlagIsKnown'  BY <1>1 DEF IInv, FlagInv, FlagIsKnown
  <1>12. OnlyLaterDisconnects'  BY DEF IInv, FlagInv, OnlyLaterDisconnects
  <1>13. EndsHaveOwners'  BY DEF IInv, EndsHaveOwners, Live
  <1>. QED  BY <1>2, <1>6, <1>7, <1>8, <1>9, <1>10, <1>11, <1>12, <1>13 DEF IInv, ChainInv, FlagInv

LEMMA ConnectedKeeps ==
    ASSUME ProxyJumpAssumption, IInv, NEW c \in Connections, ConnectionMade(c)
    PROVE  IInv'
  <1>1. ASSUME NEW t \in Threads, t[1] = c PROVE Through(t)
    <2>1. Hops[c] > 0 /\ t[2] \in Nat /\ t[2] >= 1  BY <1>1, ThreadIs
    <2>2. <<c, 1>> \in Threads  BY <2>1, FirstThread
    <2>3. thread[<<c, 1>>].op \in {"looks", "polls"}  BY <2>1 DEF ConnectionMade
    <2>4. CASE t[2] = 1
      <3>1. t = <<c, 1>>  BY <1>1, <2>2, <2>4, SamePlace
      <3>. QED  BY <2>2, <2>3, <3>1 DEF IInv, ChainInv, Proceeds, Through
    <2>5. CASE t[2] > 1
      <3>1. Later(<<c, 1>>, t)  BY <1>1, <2>5 DEF Later
      <3>. QED  BY <2>2, <2>3, <3>1 DEF IInv, ChainInv, Chained
    <2>. QED  BY <2>1, <2>4, <2>5
  <1>. QED  BY <1>1, ClientOnlyKeeps DEF ConnectionMade

LEMMA FailsKeeps ==
    ASSUME ProxyJumpAssumption, IInv, NEW c \in Connections, Fails(c)
    PROVE  IInv'
  BY ClientOnlyKeeps DEF Fails

LEMMA DisconnectKeeps ==
    ASSUME ProxyJumpAssumption, IInv, NEW c \in Connections, ssh_disconnect(c)
    PROVE  IInv'
  <1>1. client' = [client EXCEPT ![c].state = "disconnected"] /\ proxy_disconnect' = 1
        /\ signalled' = [d \in Connections |-> TRUE] /\ thread' = thread /\ callbacks' = callbacks
        /\ client[c].state \in {"connected", "failed"}
    BY DEF ssh_disconnect, TellsThreads
  <1>2. client'[c].state = "disconnected" /\ client'[c].policy = client[c].policy
        /\ \A d \in Connections : d # c => client'[d] = client[d]
    BY <1>1 DEF IInv, JumpTypeOK
  <1>3. pair \in [Threads -> [parent : BOOLEAN, thread : BOOLEAN]]  BY DEF IInv, JumpTypeOK
  <1>4. pair' = [t \in Threads |-> IF t = <<c, 1>> THEN [pair[t] EXCEPT !.parent = FALSE] ELSE pair[t]]
    BY DEF ssh_disconnect
  <1>5. /\ pair' \in [Threads -> [parent : BOOLEAN, thread : BOOLEAN]]
        /\ \A t \in Threads : pair'[t].thread = pair[t].thread
    BY <1>3, <1>4
  <1>6. JumpTypeOK'  BY <1>1, <1>5 DEF IInv, JumpTypeOK
  <1>7. \A t \in Threads : t[1] \in Connections  BY ThreadIs
  <1>8. \A t \in Threads : KeyAccepted(t)' <=> KeyAccepted(t)  BY <1>1, <1>2, <1>7 DEF KeyAccepted
  <1>9. \A t \in Threads : Through(t)' <=> Through(t)  BY <1>1, <1>8 DEF Through
  <1>10. NotBegun'  BY <1>1, <1>2 DEF IInv, ChainInv, NotBegun, Fresh
  <1>11. InOrder'  BY <1>1 DEF IInv, ChainInv, InOrder, Fresh, Later
  <1>12. Proceeds'  BY <1>1, <1>8 DEF IInv, ChainInv, Proceeds
  <1>13. Chained'  BY <1>1, <1>9 DEF IInv, ChainInv, Chained, Later
  <1>14. Made'  BY <1>2, <1>9 DEF IInv, ChainInv, Made
  <1>15. FlagIsKnown'  BY <1>1 DEF FlagIsKnown
  <1>16. OnlyLaterDisconnects'  BY <1>1, <1>7 DEF OnlyLaterDisconnects
  <1>17. EndsHaveOwners'  BY <1>1, <1>5 DEF IInv, EndsHaveOwners, Live
  <1>. QED
    BY <1>6, <1>10, <1>11, <1>12, <1>13, <1>14, <1>15, <1>16, <1>17 DEF IInv, ChainInv, FlagInv

LEMMA FreeKeeps ==
    ASSUME ProxyJumpAssumption, IInv, NEW c \in Connections, freeProxyJumpCallbacks(c)
    PROVE  IInv'
  <1>1. /\ UNCHANGED <<proxy_disconnect, client, thread, pair, signalled>>
        /\ callbacks' = [callbacks EXCEPT ![c] = "freed"]
    BY DEF freeProxyJumpCallbacks
  <1>2. JumpTypeOK'  BY <1>1 DEF IInv, JumpTypeOK
  <1>3. ChainInv'
    BY <1>1 DEF IInv, ChainInv, NotBegun, InOrder, Proceeds, Chained, Made, Fresh, Later, Through, KeyAccepted
  <1>4. FlagInv' /\ EndsHaveOwners'
    BY <1>1 DEF IInv, FlagInv, FlagIsKnown, OnlyLaterDisconnects, EndsHaveOwners, Live
  <1>. QED  BY <1>2, <1>3, <1>4 DEF IInv

\* What a connection with hops begins with: a record for the first of them.
FirstOnly(c) ==
    LET f == <<c, 1>> IN
    /\ f \in Threads /\ thread'[f].op \in {"before", "not_created"}
    /\ ~thread'[f].told /\ ~thread'[f].authenticated /\ pair'[f].thread = TRUE
    /\ \A t \in Threads : t # f => thread'[t] = thread[t] /\ pair'[t] = pair[t]

LEMMA FirstStarts ==
    ASSUME ProxyJumpAssumption, IInv, NEW c \in Connections, NEW created \in BOOLEAN,
           client[c].state = "idle", Hops[c] > 0, Started(<<c, 1>>, created)
    PROVE  /\ thread' \in [Threads -> Thread] /\ pair' \in [Threads -> [parent : BOOLEAN, thread : BOOLEAN]]
           /\ FirstOnly(c)
  <1>. DEFINE f == <<c, 1>>
  <1>1. f \in Threads  BY FirstThread
  <1>2. thread \in [Threads -> Thread] /\ pair \in [Threads -> [parent : BOOLEAN, thread : BOOLEAN]]
    BY DEF IInv, JumpTypeOK, Thread, Ops
  <1>3. f[1] = c  OBVIOUS
  <1>4. PICK key \in BOOLEAN :
           thread' = [thread EXCEPT ![f].op = IF created THEN "before" ELSE "not_created", ![f].key = key]
    BY DEF Started
  <1>5. pair' = [pair EXCEPT ![f] = [parent |-> created, thread |-> TRUE]]  BY DEF Started
  <1>. HIDE DEF f
  <1>6. thread[f] \in Thread /\ ~thread[f].told /\ ~thread[f].authenticated
    BY <1>1, <1>2, <1>3, FreshIsNone DEF IInv, ChainInv, NotBegun
  <1>7. \A t \in Threads : t # f => thread'[t] = thread[t]  BY <1>1, <1>2, <1>4
  <1>8. thread'[f] = [thread[f] EXCEPT !.op = IF created THEN "before" ELSE "not_created", !.key = key]
    BY <1>1, <1>2, <1>4
  <1>9. /\ thread'[f] \in Thread /\ thread'[f].op \in {"before", "not_created"}
        /\ ~thread'[f].told /\ ~thread'[f].authenticated
    BY <1>6, <1>8 DEF Thread, Ops
  <1>10. thread' \in [Threads -> Thread]
    <2>1. \A t \in Threads : thread'[t] \in Thread  BY <1>2, <1>7, <1>9
    <2>2. thread' = [t \in Threads |-> thread'[t]]  BY <1>2, <1>4
    <2>. QED  BY <2>1, <2>2
  <1>11. pair' \in [Threads -> [parent : BOOLEAN, thread : BOOLEAN]]  BY <1>1, <1>2, <1>5
  <1>12. pair'[f].thread = TRUE
    <2>1. pair'[f] = [parent |-> created, thread |-> TRUE]  BY <1>1, <1>2, <1>5
    <2>. QED  BY <2>1
  <1>13. \A t \in Threads : t # f => pair'[t] = pair[t]  BY <1>1, <1>2, <1>5
  <1>. QED  BY <1>1, <1>7, <1>9, <1>10, <1>11, <1>12, <1>13 DEF FirstOnly, f

\* A connection begins, with its first hop when it has one.
LEMMA ConnectKeeps ==
    ASSUME ProxyJumpAssumption, IInv, NEW c \in Connections, ssh_connect(c)
    PROVE  IInv'
  <1>1. PICK policy \in {"insecure", "strict"}, created \in BOOLEAN :
          /\ client' = [client EXCEPT ![c] =
                          [state |-> IF created THEN "connecting" ELSE "failed", policy |-> policy]]
          /\ IF Hops[c] > 0 THEN Started(<<c, 1>>, created) ELSE created /\ UNCHANGED <<thread, pair>>
    BY DEF ssh_connect
  <1>2. /\ client[c].state = "idle"
        /\ callbacks' = [callbacks EXCEPT ![c] = IF Hops[c] > 0 THEN "allocated" ELSE @]
        /\ proxy_disconnect' = IF Hops[c] > 0 THEN 0 ELSE proxy_disconnect
        /\ signalled' = [signalled EXCEPT ![c] = FALSE]
    BY DEF ssh_connect, ResetsFlag
  <1>3. thread \in [Threads -> Thread] /\ pair \in [Threads -> [parent : BOOLEAN, thread : BOOLEAN]]
    BY DEF IInv, JumpTypeOK, Thread, Ops
  <1>4. \A t \in Threads : t[1] = c => Fresh(t)  BY <1>2 DEF IInv, ChainInv, NotBegun
  <1>6. /\ thread' \in [Threads -> Thread] /\ pair' \in [Threads -> [parent : BOOLEAN, thread : BOOLEAN]]
        /\ FirstOnly(c) \/ UNCHANGED <<thread, pair>>
    BY <1>1, <1>2, <1>3, FirstStarts
  <1>. DEFINE f == <<c, 1>>
  <1>7. f[1] = c /\ f[2] = 1  OBVIOUS
  <1>. HIDE DEF f
  <1>8. /\ client'[c].state \in {"connecting", "failed"} /\ \A d \in Connections : d # c => client'[d] = client[d]
        /\ client' \in [Connections -> [state : {"idle", "connecting", "connected", "failed", "disconnected"},
                                       policy : {"insecure", "strict"}]]
    BY <1>1 DEF IInv, JumpTypeOK
  <1>9. \A t \in Threads : t[1] # c => thread'[t] = thread[t] /\ pair'[t] = pair[t]
    BY <1>6, <1>7 DEF FirstOnly, f
  <1>10. \A t \in Threads : t[1] = c => \/ thread'[t] = thread[t] /\ pair'[t] = pair[t] /\ Fresh(t)'
                                        \/ t = f /\ thread'[t].op \in {"before", "not_created"} /\ pair'[t].thread = TRUE
                                           /\ ~thread'[t].told /\ ~thread'[t].authenticated
    BY <1>4, <1>6 DEF FirstOnly, Fresh, f
  <1>11. \A t \in Threads : t[1] \in Connections /\ t[2] \in Nat /\ t[2] >= 1 /\ Hops[t[1]] > 0  BY ThreadIs
  <1>12. \A t \in Threads : t[1] # c => (KeyAccepted(t)' <=> KeyAccepted(t))
    BY <1>8, <1>9, <1>11 DEF KeyAccepted
  <1>13. \A t \in Threads : t[1] # c => (Through(t)' <=> Through(t))  BY <1>9, <1>12 DEF Through
  <1>14. \A t \in Threads : t[1] = c => thread'[t].op \in {"none", "before", "not_created"} /\ ~thread'[t].told
    BY <1>10 DEF Fresh, NoThread
  <1>15. JumpTypeOK'
    <2>1. signalled' \in [Connections -> BOOLEAN] /\ callbacks' \in [Connections -> {"none", "allocated", "freed"}]
      BY <1>2 DEF IInv, JumpTypeOK
    <2>2. proxy_disconnect' \in {0, 1}  BY <1>2 DEF IInv, JumpTypeOK
    <2>. QED  BY <1>6, <1>8, <2>1, <2>2 DEF JumpTypeOK, Thread, Ops
  <1>16. NotBegun'
    <2>1. ASSUME NEW d \in Connections, client'[d].state = "idle", NEW t \in Threads, t[1] = d PROVE Fresh(t)'
      <3>1. d # c /\ client[d].state = "idle"  BY <1>8, <2>1
      <3>. QED  BY <1>9, <2>1, <3>1 DEF IInv, ChainInv, NotBegun, Fresh
    <2>. QED  BY <2>1 DEF NotBegun
  <1>17. InOrder'
    <2>1. ASSUME NEW t \in Threads, thread'[t].op \in {"none", "not_created", "before", "connects"},
                 NEW u \in Threads, Later(t, u)
          PROVE  Fresh(u)'
      <3>1. CASE t[1] = c
        <4>1. u[1] = c /\ u # f  BY <1>7, <1>11, <2>1, <3>1 DEF Later
        <4>. QED  BY <1>10, <4>1
      <3>2. CASE t[1] # c
        <4>1. u[1] # c  BY <2>1, <3>2 DEF Later
        <4>2. Fresh(u)  BY <1>9, <2>1, <3>2 DEF IInv, ChainInv, InOrder
        <4>. QED  BY <1>9, <4>1, <4>2 DEF Fresh
      <3>. QED  BY <3>1, <3>2
    <2>. QED  BY <2>1 DEF InOrder, Later
  <1>18. Proceeds'
    <2>1. ASSUME NEW t \in Threads
          PROVE  /\ thread'[t].op \in {"authenticates", "opens", "looks", "polls"} => KeyAccepted(t)'
                 /\ thread'[t].op \in {"opens", "looks", "polls"} => thread'[t].authenticated
      <3>1. CASE t[1] = c  BY <1>14, <3>1
      <3>2. CASE t[1] # c  BY <1>9, <1>12, <3>2 DEF IInv, ChainInv, Proceeds
      <3>. QED  BY <3>1, <3>2
    <2>. QED  BY <2>1 DEF Proceeds
  <1>19. Chained'
    <2>1. ASSUME NEW t \in Threads, thread'[t].op \in {"verifies", "authenticates", "opens", "looks", "polls"},
                 NEW u \in Threads, Later(t, u)
          PROVE  Through(u)'
      <3>1. t[1] # c  BY <1>14, <2>1
      <3>2. u[1] # c /\ thread'[t] = thread[t]  BY <1>9, <2>1, <3>1 DEF Later
      <3>. QED  BY <1>13, <2>1, <3>2 DEF IInv, ChainInv, Chained
    <2>. QED  BY <2>1 DEF Chained, Later
  <1>20. Made'
    <2>1. ASSUME NEW d \in Connections, client'[d].state = "connected", NEW t \in Threads, t[1] = d PROVE Through(t)'
      <3>1. d # c /\ client[d].state = "connected"  BY <1>8, <2>1
      <3>. QED  BY <1>13, <2>1, <3>1 DEF IInv, ChainInv, Made
    <2>. QED  BY <2>1 DEF Made
  <1>21. FlagIsKnown'
    <2>1. ASSUME proxy_disconnect' = 1, NEW d \in Connections, Hops[d] > 0, client'[d].state # "idle"
          PROVE  signalled'[d]
      <3>1. ~(Hops[c] > 0) /\ proxy_disconnect = 1  BY <1>2, <2>1
      <3>2. d # c  BY <2>1, <3>1
      <3>. QED  BY <1>2, <1>8, <2>1, <3>1, <3>2 DEF IInv, JumpTypeOK, FlagInv, FlagIsKnown
    <2>. QED  BY <2>1 DEF FlagIsKnown
  <1>22. OnlyLaterDisconnects'
    <2>1. ASSUME NEW t \in Threads, thread'[t].told PROVE signalled'[t[1]]
      <3>1. t[1] # c  BY <1>14, <2>1
      <3>2. signalled[t[1]]  BY <1>9, <2>1, <3>1 DEF IInv, FlagInv, OnlyLaterDisconnects
      <3>. QED  BY <1>2, <1>11, <3>1, <3>2 DEF IInv, JumpTypeOK
    <2>. QED  BY <2>1 DEF OnlyLaterDisconnects
  <1>23. EndsHaveOwners'
    <2>1. ASSUME NEW t \in Threads PROVE pair'[t].thread = (Live(t)' \/ thread'[t].op = "not_created")
      <3>1. pair[t].thread = (Live(t) \/ thread[t].op = "not_created")  BY DEF IInv, EndsHaveOwners
      <3>2. CASE thread'[t] = thread[t] /\ pair'[t] = pair[t]  BY <3>1, <3>2 DEF Live
      <3>3. CASE thread'[t].op \in {"before", "not_created"} /\ pair'[t].thread = TRUE  BY <3>3 DEF Live
      <3>. QED  BY <1>9, <1>10, <3>2, <3>3
    <2>. QED  BY <2>1 DEF EndsHaveOwners
  <1>. QED
    BY <1>15, <1>16, <1>17, <1>18, <1>19, <1>20, <1>21, <1>22, <1>23 DEF IInv, ChainInv, FlagInv

LEMMA ClientKeeps ==
    ASSUME ProxyJumpAssumption, IInv, NEW c \in Connections, ClientStep(c)
    PROVE  IInv'
  BY ConnectKeeps, ConnectedKeeps, FailsKeeps, DisconnectKeeps, FreeKeeps DEF ClientStep

-----------------------------------------------------------------------------
(***************************************************************************)
(* The theorem.                                                            *)
(***************************************************************************)

LEMMA InitHolds == ASSUME ProxyJumpAssumption, JumpInit PROVE IInv
  <1>1. NoThread \in Thread  BY DEF NoThread, Thread, Ops
  <1>2. thread \in [Threads -> Thread]  BY <1>1 DEF JumpInit
  <1>3. JumpTypeOK  BY <1>2 DEF JumpInit, JumpTypeOK, Thread, Ops
  <1>4. \A t \in Threads : Fresh(t)  BY DEF JumpInit, Fresh
  <1>5. \A c \in Connections : client[c].state = "idle"  BY DEF JumpInit
  <1>6. ChainInv
    BY <1>4, <1>5, FreshIsNone DEF ChainInv, NotBegun, InOrder, Proceeds, Chained, Made
  <1>7. FlagInv  BY <1>4, FreshIsNone DEF JumpInit, FlagInv, FlagIsKnown, OnlyLaterDisconnects
  <1>8. EndsHaveOwners  BY <1>4, FreshIsNone DEF JumpInit, EndsHaveOwners, Live
  <1>. QED  BY <1>3, <1>6, <1>7, <1>8 DEF IInv

LEMMA NextKeeps == ASSUME ProxyJumpAssumption, IInv, [JumpNext]_jumpVars PROVE IInv'
  <1>1. CASE \E c \in Connections : ClientStep(c)  BY <1>1, ClientKeeps
  <1>2. CASE \E t \in Threads : ThreadStep(t) \/ HostCloses(t)  BY <1>2, ThreadKeeps
  <1>3. CASE UNCHANGED jumpVars
    <2>1. JumpTypeOK'  BY <1>3 DEF jumpVars, IInv, JumpTypeOK
    <2>2. ChainInv'
      BY <1>3 DEF jumpVars, IInv, ChainInv, NotBegun, InOrder, Proceeds, Chained, Made, Fresh, Later, Through,
                  KeyAccepted
    <2>3. FlagInv' /\ EndsHaveOwners'
      BY <1>3 DEF jumpVars, IInv, FlagInv, FlagIsKnown, OnlyLaterDisconnects, EndsHaveOwners, Live
    <2>. QED  BY <2>1, <2>2, <2>3 DEF IInv
  <1>. QED  BY <1>1, <1>2, <1>3 DEF JumpNext

LEMMA SafeWhenInv == ASSUME ProxyJumpAssumption, IInv PROVE HopsAreSafe
  BY DEF IInv, ChainInv, FlagInv, Made, Through, KeyAccepted, ReachedThroughTrusted, HopsAreSafe

\* A connection through jump hosts of any number has had every key accepted by its policy and has
\* authenticated to every one; a thread ends only by a disconnect that came after its connection began;
\* the end of a pair is open as long as its thread lives (jump_thread_func, ssh_socket_connect_proxyjump).
THEOREM HopsStaySafe == ASSUME ProxyJumpAssumption PROVE JumpSpec => []HopsAreSafe
  <1>1. JumpInit => IInv  BY InitHolds
  <1>2. IInv /\ [JumpNext]_jumpVars => IInv'  BY NextKeeps
  <1>3. IInv => HopsAreSafe  BY SafeWhenInv
  <1>. QED  BY <1>1, <1>2, <1>3, PTL DEF JumpSpec

-----------------------------------------------------------------------------
(***************************************************************************)
(* The socket of a connection.                                             *)
(***************************************************************************)

\* The worker has an open socket, and its handle is published.
Holding == pc \in {"publish", "connect", "attach", "use", "take", "close"}
Published == pc \in {"connect", "attach", "use", "take"}

\* The only open socket of the connection is the one in the worker's local variable (it is
\* open unless libssh closed it), and the only handle that holds a number holds that one,
\* while it is published.  An address is left for a socket that waits for its handle.
SocketInv ==
    /\ pc = "publish" => made < Addresses
    /\ Holding => fileDescriptor # NoFd
    /\ \A f \in Fds : owner[f] = "ssh" => Holding /\ f = fileDescriptor
    /\ Holding /\ ~lostToLibssh => owner[fileDescriptor] = "ssh"
    /\ sshFd \in {NoFd, fileDescriptor}
    /\ pc # "use" => sshFd = NoFd
    /\ \A h \in Handles : stored[h] = IF Published /\ h = socketHandle THEN fileDescriptor ELSE NoFd

SocketsInv == TypeOK /\ SocketInv /\ ReuseSafety

LEMMA SocketsInvInit == SocketAssumption /\ Init => SocketsInv
<1> SUFFICES ASSUME SocketAssumption, Init PROVE SocketsInv
  OBVIOUS
<1> USE DEF Init, TableInit
<1>1. TypeOK
  <2>1. /\ owner \in [Fds -> {"free", "ssh", "stranger"}] /\ shut \subseteq Fds /\ pc = "open"
        /\ fileDescriptor = NoFd /\ sshFd = NoFd /\ socketHandle = NoHandle
        /\ stored \in [Handles -> Fds \cup {NoFd}]
    OBVIOUS
  <2>2. made \in 0..Addresses
    BY DEF SocketAssumption
  <2>3. canceller \in [Cancellers -> [pc : {"idle", "shutdown", "done"}, handle : 0..Addresses]]
    BY DEF SocketAssumption, NoHandle
  <2>4. {last, lostToLibssh} \subseteq BOOLEAN /\ shutStranger \in BOOLEAN /\ closedStranger \in BOOLEAN
    OBVIOUS
  <2> QED
    BY <2>1, <2>2, <2>3, <2>4 DEF TypeOK
<1>2. SocketInv
  BY DEF SocketInv, Holding, Published
<1>3. ReuseSafety
  BY DEF ReuseSafety, NoReuseHazard, StrangersIntact, ClosesItsOwn
<1> QED
  BY <1>1, <1>2, <1>3 DEF SocketsInv

\* Shutting down, or closing, a socket that is one's own or none, unless libssh closed it.
LEMMA OwnShutdown ==
    ASSUME NEW fd \in Fds \cup {NoFd}, ~lostToLibssh /\ fd # NoFd => owner[fd] = "ssh",
           ShutdownDescriptor(fd), UNCHANGED lostToLibssh, TypeOK, ReuseSafety
    PROVE  /\ ReuseSafety' /\ UNCHANGED owner /\ shut' \subseteq Fds
           /\ shutStranger' \in BOOLEAN /\ closedStranger' \in BOOLEAN
<1>1. ~lostToLibssh => shutStranger' = FALSE /\ closedStranger' = FALSE
  BY DEF ShutdownDescriptor, ReuseSafety, NoReuseHazard, StrangersIntact,
     ClosesItsOwn, TypeOK
<1>2. UNCHANGED owner /\ shut' \subseteq Fds
  BY DEF ShutdownDescriptor, TypeOK
<1>3. shutStranger' \in BOOLEAN /\ closedStranger' \in BOOLEAN
  BY DEF ShutdownDescriptor, TypeOK
<1> QED
  BY <1>1, <1>2, <1>3 DEF ReuseSafety, NoReuseHazard, StrangersIntact, ClosesItsOwn

LEMMA OwnClose ==
    ASSUME NEW fd \in Fds, ~lostToLibssh => owner[fd] = "ssh", CloseDescriptors({fd}),
           UNCHANGED lostToLibssh, TypeOK, ReuseSafety
    PROVE  /\ ReuseSafety' /\ UNCHANGED shut
           /\ owner' = [f \in Fds |-> IF f = fd THEN "free" ELSE owner[f]]
           /\ shutStranger' \in BOOLEAN /\ closedStranger' \in BOOLEAN
<1>1. ~lostToLibssh => shutStranger' = FALSE /\ closedStranger' = FALSE
  BY DEF CloseDescriptors, ReuseSafety, NoReuseHazard, StrangersIntact,
     ClosesItsOwn, TypeOK
<1>2. UNCHANGED shut /\ owner' = [f \in Fds |-> IF f = fd THEN "free" ELSE owner[f]]
  BY DEF CloseDescriptors
<1>3. shutStranger' \in BOOLEAN /\ closedStranger' \in BOOLEAN
  BY DEF CloseDescriptors, TypeOK
<1> QED
  BY <1>1, <1>2, <1>3 DEF ReuseSafety, NoReuseHazard, StrangersIntact, ClosesItsOwn

\* A new descriptor had no owner.
LEMMA OpenEffect ==
    ASSUME NEW f \in Fds, NEW who \in {"ssh", "stranger"}, Open(f, who),
           UNCHANGED lostToLibssh, TypeOK, ReuseSafety
    PROVE  /\ ReuseSafety' /\ shut' \subseteq Fds /\ owner[f] = "free"
           /\ owner' = [owner EXCEPT ![f] = who]
           /\ UNCHANGED <<shutStranger, closedStranger>>
BY DEF Open, TypeOK, ReuseSafety, NoReuseHazard, StrangersIntact,
   ClosesItsOwn

LEMMA SocketsInvNext == SocketAssumption /\ SocketsInv /\ [Next]_vars => SocketsInv'
<1> SUFFICES ASSUME SocketAssumption, SocketsInv, [Next]_vars PROVE SocketsInv'
  OBVIOUS
<1> USE DEF SocketsInv, GoTo
<1>q. ASSUME UNCHANGED <<tableVars, lostToLibssh>>
      PROVE  /\ ReuseSafety' /\ UNCHANGED owner /\ UNCHANGED shut
             /\ shutStranger' \in BOOLEAN /\ closedStranger' \in BOOLEAN
  BY <1>q DEF tableVars, TypeOK, ReuseSafety, NoReuseHazard, StrangersIntact,
     ClosesItsOwn
<1>a. Addresses \in Nat
  BY DEF SocketAssumption
<1>1. CASE NoAddress
  BY <1>1, <1>q DEF NoAddress, TypeOK, SocketInv, Holding, Published
<1>2. CASE OpenSocket
  <2>1. PICK f \in Fds : Open(f, "ssh") /\ fileDescriptor' = f
    BY <1>2 DEF OpenSocket
  <2>2. /\ pc = "open" /\ pc' = "publish" /\ made < Addresses
        /\ UNCHANGED <<made, last, socketHandle, stored, sshFd, canceller, lostToLibssh>>
    BY <1>2 DEF OpenSocket
  <2>3. /\ ReuseSafety' /\ shut' \subseteq Fds /\ owner[f] = "free"
        /\ owner' = [owner EXCEPT ![f] = "ssh"]
        /\ UNCHANGED <<shutStranger, closedStranger>>
    BY <2>1, <2>2, OpenEffect
  <2>4. owner' \in [Fds -> {"free", "ssh", "stranger"}]
    BY <2>3 DEF TypeOK
  <2>5. shutStranger' \in BOOLEAN /\ closedStranger' \in BOOLEAN /\ {last', lostToLibssh'} \subseteq BOOLEAN
    BY <2>2, <2>3 DEF TypeOK
  <2>6. TypeOK'
    BY <2>1, <2>2, <2>3, <2>4, <2>5 DEF TypeOK
  <2>7. f # NoFd
    BY DEF Fds, NoFd
  <2>8. ASSUME NEW g \in Fds PROVE owner'[g] = "ssh" <=> g = f
    BY <2>2, <2>3, <2>8 DEF TypeOK, SocketInv, Holding
  <2>9. SocketInv'
    BY <2>1, <2>2, <2>7, <2>8 DEF SocketInv, Holding, Published
  <2> QED
    BY <2>3, <2>6, <2>9
<1>3. CASE PublishHandle
  <2>1. /\ pc = "publish" /\ pc' = "connect" /\ made' = made + 1 /\ socketHandle' = made + 1
        /\ stored' = [stored EXCEPT ![made + 1] = fileDescriptor]
        /\ UNCHANGED <<tableVars, fileDescriptor, last, sshFd, canceller, lostToLibssh>>
    BY <1>3 DEF PublishHandle
  <2>2. made + 1 \in Handles
    BY <2>1, <1>a DEF SocketInv, TypeOK, Handles
  <2>5. /\ made' \in 0..Addresses /\ socketHandle' = made' /\ socketHandle' # NoHandle
        /\ stored' \in [Handles -> Fds \cup {NoFd}]
    BY <2>1, <2>2, <1>a DEF TypeOK, Handles, NoHandle
  <2>6. last' \in BOOLEAN
    BY <2>1 DEF TypeOK
  <2>3. TypeOK'
    BY <2>1, <2>5, <2>6, <1>q DEF TypeOK
  <2>4. SocketInv'
    BY <2>1, <2>2, <1>q DEF SocketInv, Holding, Published, TypeOK
  <2> QED
    BY <2>1, <2>3, <2>4, <1>q
<1>4. CASE Connected
  BY <1>4, <1>q DEF Connected, TypeOK, SocketInv, Holding, Published
<1>5. CASE ConnectFails
  BY <1>5, <1>q DEF ConnectFails, TypeOK, SocketInv, Holding, Published
<1>6. CASE Attach
  <2>1. /\ pc = "attach" /\ pc' \in {"use", "take"} /\ sshFd' \in {sshFd, fileDescriptor}
        /\ pc' = "take" => UNCHANGED sshFd
        /\ UNCHANGED <<tableVars, fileDescriptor, made, socketHandle, stored, canceller, lostToLibssh>>
    BY <1>6 DEF Attach
  <2>2. last' \in BOOLEAN
    BY <1>6 DEF Attach, TypeOK
  <2> QED
    BY <2>1, <2>2, <1>q DEF TypeOK, SocketInv, Holding, Published
<1>7. CASE LibsshCloses
  <2>1. /\ pc = "use" /\ sshFd # NoFd /\ sshFd' = NoFd /\ lostToLibssh' = TRUE
        /\ CloseDescriptors({sshFd})
        /\ UNCHANGED <<workerVars, socketHandle, stored, canceller>>
    BY <1>7 DEF LibsshCloses
  <2>2. /\ owner' = [f \in Fds |-> IF f = fileDescriptor THEN "free" ELSE owner[f]]
        /\ UNCHANGED shut
        /\ shutStranger' \in BOOLEAN /\ closedStranger' \in BOOLEAN
    BY <2>1 DEF CloseDescriptors, SocketInv, TypeOK
  <2>3. TypeOK'
    BY <2>1, <2>2 DEF TypeOK, workerVars
  <2>4. SocketInv'
    BY <2>1, <2>2 DEF SocketInv, Holding, Published, TypeOK, workerVars
  <2>5. ReuseSafety'
    BY <2>1 DEF ReuseSafety
  <2> QED
    BY <2>3, <2>4, <2>5
<1>8. CASE FreeSession
  BY <1>8, <1>q DEF FreeSession, TypeOK, SocketInv, Holding, Published
<1>9. CASE TakeFileDescriptor
  <2>1. /\ pc = "take" /\ pc' = "close" /\ fileDescriptor' = stored[socketHandle]
        /\ stored' = [stored EXCEPT ![socketHandle] = NoFd]
        /\ UNCHANGED <<tableVars, made, last, socketHandle, sshFd, canceller, lostToLibssh>>
    BY <1>9 DEF TakeFileDescriptor
  <2>2. socketHandle \in Handles
    BY <2>1, <1>a DEF TypeOK, Handles, NoHandle
  <2>3. fileDescriptor' = fileDescriptor
    BY <2>1, <2>2 DEF SocketInv, Published
  <2> QED
    BY <2>1, <2>2, <2>3, <1>q DEF TypeOK, SocketInv, Holding, Published
<1>10. CASE CloseDescriptor
  <2>1. /\ pc = "close" /\ pc' = "forget" /\ fileDescriptor' = NoFd
        /\ CloseDescriptors({fileDescriptor})
        /\ UNCHANGED <<made, last, socketHandle, stored, sshFd, canceller, lostToLibssh>>
    BY <1>10 DEF CloseDescriptor
  <2>2. fileDescriptor \in Fds /\ (~lostToLibssh => owner[fileDescriptor] = "ssh")
    BY <2>1 DEF SocketInv, Holding, TypeOK
  <2> QED
    BY <2>1, <2>2, OwnClose DEF TypeOK, SocketInv, Holding, Published
<1>11. CASE ForgetHandle
  BY <1>11, <1>q DEF ForgetHandle, TypeOK, SocketInv, Holding, Published
<1>12. CASE Stranger
  <2>1. UNCHANGED <<workerVars, socketHandle, stored, sshFd, canceller, lostToLibssh>>
    BY <1>12 DEF Stranger
  <2>2. ASSUME NEW f \in Fds, Open(f, "stranger") PROVE SocketsInv'
    BY <2>1, <2>2, OpenEffect DEF TypeOK, SocketInv, Holding, Published, workerVars
  <2>3. ASSUME NEW f \in Fds, owner[f] = "stranger", owner' = [owner EXCEPT ![f] = "free"],
               UNCHANGED <<shut, shutStranger, closedStranger>>
        PROVE  SocketsInv'
    BY <2>1, <2>3 DEF TypeOK, SocketInv, Holding, Published, workerVars, ReuseSafety,
       NoReuseHazard,
       StrangersIntact, ClosesItsOwn
  <2> QED
    BY <1>12, <2>2, <2>3 DEF Stranger, StrangerStep
<1>13. ASSUME NEW c \in Cancellers, ReadHandle(c) PROVE SocketsInv'
  <2>1. socketHandle \in 0..Addresses
    BY <1>a DEF TypeOK, NoHandle
  <2>2. /\ UNCHANGED <<tableVars, workerVars, socketHandle, stored, sshFd, lostToLibssh>>
        /\ canceller' = [canceller EXCEPT ![c] = [pc |-> "shutdown", handle |-> socketHandle]]
    BY <1>13 DEF ReadHandle
  <2>3. canceller' \in [Cancellers -> [pc : {"idle", "shutdown", "done"}, handle : 0..Addresses]]
    BY <2>1, <2>2 DEF TypeOK
  <2> QED
    BY <2>2, <2>3, <1>q DEF TypeOK, SocketInv, Holding, Published, workerVars
<1>14. ASSUME NEW c \in Cancellers, ShutdownNow(c) PROVE SocketsInv'
  <2> DEFINE h == canceller[c].handle
             fd == IF h = NoHandle THEN NoFd ELSE stored[h]
  <2>1. /\ ShutdownDescriptor(fd) /\ UNCHANGED <<workerVars, socketHandle, stored, sshFd, lostToLibssh>>
        /\ canceller' = [canceller EXCEPT ![c].pc = "done"]
    BY <1>14 DEF ShutdownNow
  <2>2. h \in 0..Addresses
    BY DEF TypeOK
  <2>3. fd \in Fds \cup {NoFd} /\ (~lostToLibssh /\ fd # NoFd => owner[fd] = "ssh")
    BY <2>2, <1>a DEF TypeOK, SocketInv, Holding, Published, Handles, NoHandle
  <2>4. canceller' \in [Cancellers -> [pc : {"idle", "shutdown", "done"}, handle : 0..Addresses]]
    BY <2>1 DEF TypeOK
  <2> HIDE DEF fd
  <2> QED
    BY <2>1, <2>3, <2>4, OwnShutdown DEF TypeOK, SocketInv, Holding, Published, workerVars
<1>15. CASE UNCHANGED vars
  BY <1>15, <1>q DEF vars, workerVars, TypeOK, SocketInv, Holding, Published
<1> QED
  BY <1>1, <1>2, <1>3, <1>4, <1>5, <1>6, <1>7, <1>8, <1>9, <1>10, <1>11, <1>12, <1>13, <1>14, <1>15
     DEF Next, WorkerStep

\* The worker's position says where the connection's only socket is (openSocketWithError:,
\* SSHCoreSocketHandle.m, closeWorkerSocketHandle).
THEOREM SocketInvariant == ASSUME SocketAssumption PROVE Spec => []SocketsInv
<1>1. SocketsInv /\ [Next]_vars => SocketsInv'
  BY SocketsInvNext
<1>2. Init => SocketsInv
  BY SocketsInvInit
<1> QED
  BY <1>1, <1>2, PTL DEF Spec

\* What a handle holds is the connection's own open socket (SSHCoreSocketHandle.m).
THEOREM HandlesOwn == ASSUME SocketAssumption PROVE Spec => []HandlesOwnTheirSocket
<1>1. SocketsInv => HandlesOwnTheirSocket
  BY DEF SocketsInv, TypeOK, SocketInv, HandlesOwnTheirSocket, Holding, Published, Fds,
     NoFd, Handles
<1> QED
  BY <1>1, SocketInvariant, PTL

\* No descriptor is left open (openSocketWithError:, closeWorkerSocketHandle).
THEOREM NoLeak == ASSUME SocketAssumption PROVE Spec => []NothingLeaks
<1>1. SocketsInv => NothingLeaks
  BY DEF SocketsInv, SocketInv, NothingLeaks, Holding
<1> QED
  BY <1>1, SocketInvariant, PTL

\* No cancel and no close of a connection reaches a socket of somebody else, unless libssh
\* closed the descriptor under the handle ("This avoids fd-reuse hazards").
THEOREM ReuseSafe == ASSUME SocketAssumption PROVE Spec => []ReuseSafety
<1>1. SocketsInv => ReuseSafety
  BY DEF SocketsInv
<1> QED
  BY <1>1, SocketInvariant, PTL

\* Handles, cancels and closes keep to the sockets of the connection, unless libssh closed the descriptor
\* (SSHCoreSocketHandle.m, closeWorkerSocketHandle).
THEOREM SocketsOwned == ASSUME SocketAssumption PROVE Spec => []SocketsAreOwn
<1>1. HandlesOwnTheirSocket /\ ReuseSafety => SocketsAreOwn
  BY DEF SocketsAreOwn
<1> QED
  BY <1>1, HandlesOwn, ReuseSafe, PTL

================================================================================
