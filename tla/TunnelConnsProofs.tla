------------------------- MODULE TunnelConnsProofs -------------------------
(***************************************************************************)
(* The safety properties of TunnelConns for any number of connections and   *)
(* addresses, and for any number of moves.                                  *)
(***************************************************************************)
EXTENDS TunnelConns, FiniteSetTheorems, TLAPS

\* The connections that are counted.
Counted == {c \in Conns : pc[c] \in {"copying", "parting"}}

CountOK == active = Cardinality(Counted)

\* Which sockets a connection can have, open or tracked, where it stands.
SocketsOK ==
    \A c \in Conns :
        /\ pc[c] \in {"away", "ended"} => Client(c) \notin open \cup conns
        /\ pc[c] \in {"track", "shut"} => Client(c) \notin conns
        /\ pc[c] \in {"away", "track", "route", "cached", "resolve", "store",
                      "dial", "offclient", "shut", "ended"} =>
               Backend(c) \notin open \cup conns
        /\ pc[c] = "parting" => {Client(c), Backend(c)} \cap open = {}
        /\ c \in up \cup down => pc[c] \in {"copying", "parting"}

\* Before the sweep an open client socket is tracked, but for two moments; it
\* comes after the listener is closed.
TrackedOK ==
    /\ swept => ~listening
    /\ ~swept => \A c \in Conns :
           Client(c) \in open => Client(c) \in conns \/ pc[c] \in {"track", "shut"}

\* Where the addresses come from.
AddrOK ==
    mode = "direct" =>
        /\ {at, cachedIP} \subseteq was \cup {None}
        /\ \A c \in Conns :
               /\ pc[c] = "cached" => addr[c] \in was
               /\ pc[c] \in {"away", "track", "route", "cached", "resolve"} =>
                      c \notin fresh
               /\ pc[c] \in {"store", "dial"} =>
                      /\ addr[c] \in was
                      /\ addr[c] = at \/ c \in excused
               /\ reached[c] # None => pc[c] = "joined"

GuestOK == RightGuest /\ RefusedOnlyIfAway

ConnsInv ==
    /\ TypeOK /\ CountOK /\ SocketsOK /\ TrackedOK /\ LateOnly
    /\ AddrOK /\ GuestOK

-----------------------------------------------------------------------------
\* A connection's two sockets are two, and no other connection's.
LEMMA SocketsDiffer ==
    ASSUME NEW c \in Conns, NEW d \in Conns
    PROVE  /\ Client(c) # Backend(d)
           /\ c # d => Client(c) # Client(d) /\ Backend(c) # Backend(d)
           /\ Client(c) \in Sockets /\ Backend(c) \in Sockets
BY DEF Client, Backend, Sockets

\* Sockets are opened, tracked, untracked and closed in step with the places.
LEMMA SocketsNext ==
    ASSUME TypeOK, SocketsOK, [Next]_vars
    PROVE  SocketsOK'
<1>. USE ConnsAssumption DEF Goto, life, copies, world, answers
<1>p1. DOMAIN pc = Conns
    BY DEF TypeOK
<1>1. ASSUME NEW c \in Conns, Accept(c) PROVE SocketsOK'
    BY <1>1, <1>p1, SocketsDiffer DEF Accept, SocketsOK
<1>2. ASSUME NEW c \in Conns, TrackClient(c) PROVE SocketsOK'
    BY <1>2, <1>p1, SocketsDiffer DEF TrackClient, SocketsOK
<1>3. ASSUME NEW c \in Conns, Route(c) PROVE SocketsOK'
    BY <1>3, <1>p1, SocketsDiffer DEF Route, SocketsOK
<1>4. ASSUME NEW c \in Conns, CachedAnswers(c) PROVE SocketsOK'
    BY <1>4, <1>p1, SocketsDiffer DEF CachedAnswers, Answered, SocketsOK
<1>5. ASSUME NEW c \in Conns, CachedFails(c) PROVE SocketsOK'
    BY <1>5, <1>p1, SocketsDiffer DEF CachedFails, SocketsOK
<1>6. ASSUME NEW c \in Conns, Resolve(c) PROVE SocketsOK'
    BY <1>6, <1>p1, SocketsDiffer DEF Resolve, SocketsOK
<1>7. ASSUME NEW c \in Conns, ResolveFails(c) PROVE SocketsOK'
    BY <1>7, <1>p1, SocketsDiffer DEF ResolveFails, Fails, SocketsOK
<1>8. ASSUME NEW c \in Conns, Store(c) PROVE SocketsOK'
    BY <1>8, <1>p1, SocketsDiffer DEF Store, SocketsOK
<1>9. ASSUME NEW c \in Conns, DialAnswers(c) PROVE SocketsOK'
    BY <1>9, <1>p1, SocketsDiffer DEF DialAnswers, Answered, Target, SocketsOK
<1>10. ASSUME NEW c \in Conns, DialFails(c) PROVE SocketsOK'
    BY <1>10, <1>p1, SocketsDiffer DEF DialFails, Fails, Refused, Target,
       SocketsOK
<1>11. ASSUME NEW c \in Conns, Join(c) PROVE SocketsOK'
    BY <1>11, <1>p1, SocketsDiffer DEF Join, Forget, SocketsOK
<1>12. ASSUME NEW c \in Conns, CopyUpEnds(c) PROVE SocketsOK'
    BY <1>12, <1>p1, SocketsDiffer DEF CopyUpEnds, SocketsOK
<1>13. ASSUME NEW c \in Conns, CopyDownEnds(c) PROVE SocketsOK'
    BY <1>13, <1>p1, SocketsDiffer DEF CopyDownEnds, SocketsOK
<1>14. ASSUME NEW c \in Conns, Part(c) PROVE SocketsOK'
    BY <1>14, <1>p1, SocketsDiffer DEF Part, SocketsOK
<1>15. ASSUME NEW c \in Conns, Uncount(c) PROVE SocketsOK'
    BY <1>15, <1>p1, SocketsDiffer DEF Uncount, SocketsOK
<1>16. ASSUME NEW c \in Conns, OffClient(c) PROVE SocketsOK'
    BY <1>16, <1>p1, SocketsDiffer DEF OffClient, Forget, SocketsOK
<1>17. ASSUME NEW c \in Conns, ShutClient(c) PROVE SocketsOK'
    BY <1>17, <1>p1, SocketsDiffer DEF ShutClient, SocketsOK
<1>18. ASSUME CloseListener PROVE SocketsOK'
    BY <1>18, <1>p1, SocketsDiffer DEF CloseListener, SocketsOK
<1>19. ASSUME Sweep PROVE SocketsOK'
    BY <1>19, <1>p1, SocketsDiffer DEF Sweep, MaySweep, SocketsOK
<1>20. ASSUME NEW c \in Conns, NEW s \in Sockets, PeerEnds(c, s) PROVE
   SocketsOK'
    BY <1>20, <1>p1, SocketsDiffer DEF PeerEnds, SocketsOK
<1>21. ASSUME NEW c \in Conns, NEW s \in Sockets, Stalls(c, s) PROVE
   SocketsOK'
    BY <1>21, <1>p1, SocketsDiffer DEF Stalls, SocketsOK
<1>22. ASSUME NEW s \in Sockets, ReadsOn(s) PROVE
   SocketsOK'
    BY <1>22, <1>p1, SocketsDiffer DEF ReadsOn, SocketsOK
<1>23. ASSUME NEW a \in Addrs \cup {None}, Moves(a) PROVE SocketsOK'
    BY <1>23, <1>p1, SocketsDiffer DEF Moves, SocketsOK
<1>24. ASSUME NEW a \in Addrs \cup {None}, OtherMoves(a) PROVE SocketsOK'
    BY <1>24, <1>p1, SocketsDiffer DEF OtherMoves, SocketsOK
<1>25. CASE UNCHANGED vars
    BY <1>25 DEF vars, SocketsOK
<1>. QED
    BY <1>1, <1>2, <1>3, <1>4, <1>5, <1>6, <1>7, <1>8, <1>9, <1>10, <1>11,
       <1>12, <1>13, <1>14, <1>15, <1>16, <1>17, <1>18, <1>19, <1>20, <1>21,
       <1>22, <1>23, <1>24, <1>25 DEF Next, Handle, Copy, Shutdown

\* Every client socket is tracked before it can be missed.
LEMMA TrackedNext ==
    ASSUME TypeOK, SocketsOK, TrackedOK, [Next]_vars
    PROVE  TrackedOK'
<1>. USE ConnsAssumption DEF Goto, life, copies, world, answers
<1>p1. DOMAIN pc = Conns
    BY DEF TypeOK
<1>1. ASSUME NEW c \in Conns, Accept(c) PROVE TrackedOK'
    BY <1>1, <1>p1, SocketsDiffer DEF Accept, TrackedOK
<1>2. ASSUME NEW c \in Conns, TrackClient(c) PROVE TrackedOK'
    BY <1>2, <1>p1, SocketsDiffer DEF TrackClient, TrackedOK
<1>3. ASSUME NEW c \in Conns, Route(c) PROVE TrackedOK'
    BY <1>3, <1>p1, SocketsDiffer DEF Route, TrackedOK
<1>4. ASSUME NEW c \in Conns, CachedAnswers(c) PROVE TrackedOK'
    BY <1>4, <1>p1, SocketsDiffer DEF CachedAnswers, Answered, TrackedOK
<1>5. ASSUME NEW c \in Conns, CachedFails(c) PROVE TrackedOK'
    BY <1>5, <1>p1, SocketsDiffer DEF CachedFails, TrackedOK
<1>6. ASSUME NEW c \in Conns, Resolve(c) PROVE TrackedOK'
    BY <1>6, <1>p1, SocketsDiffer DEF Resolve, TrackedOK
<1>7. ASSUME NEW c \in Conns, ResolveFails(c) PROVE TrackedOK'
    BY <1>7, <1>p1, SocketsDiffer DEF ResolveFails, Fails, TrackedOK
<1>8. ASSUME NEW c \in Conns, Store(c) PROVE TrackedOK'
    BY <1>8, <1>p1, SocketsDiffer DEF Store, TrackedOK
<1>9. ASSUME NEW c \in Conns, DialAnswers(c) PROVE TrackedOK'
    BY <1>9, <1>p1, SocketsDiffer DEF DialAnswers, Answered, Target, TrackedOK
<1>10. ASSUME NEW c \in Conns, DialFails(c) PROVE TrackedOK'
    BY <1>10, <1>p1, SocketsDiffer DEF DialFails, Fails, Refused, Target,
       TrackedOK
<1>11. ASSUME NEW c \in Conns, Join(c) PROVE TrackedOK'
    BY <1>11, <1>p1, SocketsDiffer DEF Join, Forget, TrackedOK
<1>12. ASSUME NEW c \in Conns, CopyUpEnds(c) PROVE TrackedOK'
    BY <1>12, <1>p1, SocketsDiffer DEF CopyUpEnds, TrackedOK
<1>13. ASSUME NEW c \in Conns, CopyDownEnds(c) PROVE TrackedOK'
    BY <1>13, <1>p1, SocketsDiffer DEF CopyDownEnds, TrackedOK
<1>14. ASSUME NEW c \in Conns, Part(c) PROVE TrackedOK'
    BY <1>14, <1>p1, SocketsDiffer DEF Part, TrackedOK
<1>15. ASSUME NEW c \in Conns, Uncount(c) PROVE TrackedOK'
    BY <1>15, <1>p1, SocketsDiffer DEF Uncount, TrackedOK
<1>16. ASSUME NEW c \in Conns, OffClient(c) PROVE TrackedOK'
    BY <1>16, <1>p1, SocketsDiffer DEF OffClient, Forget, TrackedOK
<1>17. ASSUME NEW c \in Conns, ShutClient(c) PROVE TrackedOK'
    BY <1>17, <1>p1, SocketsDiffer DEF ShutClient, TrackedOK
<1>18. ASSUME CloseListener PROVE TrackedOK'
    BY <1>18, <1>p1, SocketsDiffer DEF CloseListener, TrackedOK
<1>19. ASSUME Sweep PROVE TrackedOK'
    BY <1>19, <1>p1, SocketsDiffer DEF Sweep, MaySweep, TrackedOK
<1>20. ASSUME NEW c \in Conns, NEW s \in Sockets, PeerEnds(c, s) PROVE
   TrackedOK'
    BY <1>20, <1>p1, SocketsDiffer DEF PeerEnds, TrackedOK
<1>21. ASSUME NEW c \in Conns, NEW s \in Sockets, Stalls(c, s) PROVE
   TrackedOK'
    BY <1>21, <1>p1, SocketsDiffer DEF Stalls, TrackedOK
<1>22. ASSUME NEW s \in Sockets, ReadsOn(s) PROVE
   TrackedOK'
    BY <1>22, <1>p1, SocketsDiffer DEF ReadsOn, TrackedOK
<1>23. ASSUME NEW a \in Addrs \cup {None}, Moves(a) PROVE TrackedOK'
    BY <1>23, <1>p1, SocketsDiffer DEF Moves, TrackedOK
<1>24. ASSUME NEW a \in Addrs \cup {None}, OtherMoves(a) PROVE TrackedOK'
    BY <1>24, <1>p1, SocketsDiffer DEF OtherMoves, TrackedOK
<1>25. CASE UNCHANGED vars
    BY <1>25 DEF vars, TrackedOK
<1>. QED
    BY <1>1, <1>2, <1>3, <1>4, <1>5, <1>6, <1>7, <1>8, <1>9, <1>10, <1>11,
       <1>12, <1>13, <1>14, <1>15, <1>16, <1>17, <1>18, <1>19, <1>20, <1>21,
       <1>22, <1>23, <1>24, <1>25 DEF Next, Handle, Copy, Shutdown

\* The sweep leaves out those on their way to be tracked, and nobody comes after.
LEMMA LateNext ==
    ASSUME TypeOK, SocketsOK, TrackedOK, LateOnly, [Next]_vars
    PROVE  LateOnly'
<1>. USE ConnsAssumption DEF Goto, life, copies, world, answers
<1>p1. DOMAIN pc = Conns
    BY DEF TypeOK
<1>1. ASSUME NEW c \in Conns, Accept(c) PROVE LateOnly'
    BY <1>1, <1>p1, SocketsDiffer DEF Accept, LateOnly, TrackedOK
<1>2. ASSUME NEW c \in Conns, TrackClient(c) PROVE LateOnly'
    BY <1>2, <1>p1, SocketsDiffer DEF TrackClient, LateOnly
<1>3. ASSUME NEW c \in Conns, Route(c) PROVE LateOnly'
    BY <1>3, <1>p1, SocketsDiffer DEF Route, LateOnly
<1>4. ASSUME NEW c \in Conns, CachedAnswers(c) PROVE LateOnly'
    BY <1>4, <1>p1, SocketsDiffer DEF CachedAnswers, Answered, LateOnly
<1>5. ASSUME NEW c \in Conns, CachedFails(c) PROVE LateOnly'
    BY <1>5, <1>p1, SocketsDiffer DEF CachedFails, LateOnly
<1>6. ASSUME NEW c \in Conns, Resolve(c) PROVE LateOnly'
    BY <1>6, <1>p1, SocketsDiffer DEF Resolve, LateOnly
<1>7. ASSUME NEW c \in Conns, ResolveFails(c) PROVE LateOnly'
    BY <1>7, <1>p1, SocketsDiffer DEF ResolveFails, Fails, LateOnly
<1>8. ASSUME NEW c \in Conns, Store(c) PROVE LateOnly'
    BY <1>8, <1>p1, SocketsDiffer DEF Store, LateOnly
<1>9. ASSUME NEW c \in Conns, DialAnswers(c) PROVE LateOnly'
    BY <1>9, <1>p1, SocketsDiffer DEF DialAnswers, Answered, Target, LateOnly
<1>10. ASSUME NEW c \in Conns, DialFails(c) PROVE LateOnly'
    BY <1>10, <1>p1, SocketsDiffer DEF DialFails, Fails, Refused, Target,
       LateOnly
<1>11. ASSUME NEW c \in Conns, Join(c) PROVE LateOnly'
    BY <1>11, <1>p1, SocketsDiffer DEF Join, Forget, LateOnly
<1>12. ASSUME NEW c \in Conns, CopyUpEnds(c) PROVE LateOnly'
    BY <1>12, <1>p1, SocketsDiffer DEF CopyUpEnds, LateOnly
<1>13. ASSUME NEW c \in Conns, CopyDownEnds(c) PROVE LateOnly'
    BY <1>13, <1>p1, SocketsDiffer DEF CopyDownEnds, LateOnly
<1>14. ASSUME NEW c \in Conns, Part(c) PROVE LateOnly'
    BY <1>14, <1>p1, SocketsDiffer DEF Part, LateOnly
<1>15. ASSUME NEW c \in Conns, Uncount(c) PROVE LateOnly'
    BY <1>15, <1>p1, SocketsDiffer DEF Uncount, LateOnly
<1>16. ASSUME NEW c \in Conns, OffClient(c) PROVE LateOnly'
    BY <1>16, <1>p1, SocketsDiffer DEF OffClient, Forget, LateOnly
<1>17. ASSUME NEW c \in Conns, ShutClient(c) PROVE LateOnly'
    BY <1>17, <1>p1, SocketsDiffer DEF ShutClient, LateOnly
<1>18. ASSUME CloseListener PROVE LateOnly'
    BY <1>18, <1>p1, SocketsDiffer DEF CloseListener, LateOnly
<1>19. ASSUME Sweep PROVE LateOnly'
    BY <1>19, <1>p1, SocketsDiffer DEF Sweep, MaySweep, LateOnly, TrackedOK,
       SocketsOK
<1>20. ASSUME NEW c \in Conns, NEW s \in Sockets, PeerEnds(c, s) PROVE
   LateOnly'
    BY <1>20, <1>p1, SocketsDiffer DEF PeerEnds, LateOnly
<1>21. ASSUME NEW c \in Conns, NEW s \in Sockets, Stalls(c, s) PROVE
   LateOnly'
    BY <1>21, <1>p1, SocketsDiffer DEF Stalls, LateOnly
<1>22. ASSUME NEW s \in Sockets, ReadsOn(s) PROVE
   LateOnly'
    BY <1>22, <1>p1, SocketsDiffer DEF ReadsOn, LateOnly
<1>23. ASSUME NEW a \in Addrs \cup {None}, Moves(a) PROVE LateOnly'
    BY <1>23, <1>p1, SocketsDiffer DEF Moves, LateOnly
<1>24. ASSUME NEW a \in Addrs \cup {None}, OtherMoves(a) PROVE LateOnly'
    BY <1>24, <1>p1, SocketsDiffer DEF OtherMoves, LateOnly
<1>25. CASE UNCHANGED vars
    BY <1>25 DEF vars, LateOnly
<1>. QED
    BY <1>1, <1>2, <1>3, <1>4, <1>5, <1>6, <1>7, <1>8, <1>9, <1>10, <1>11,
       <1>12, <1>13, <1>14, <1>15, <1>16, <1>17, <1>18, <1>19, <1>20, <1>21,
       <1>22, <1>23, <1>24, <1>25 DEF Next, Handle, Copy, Shutdown

\* A connection is counted when it joins and uncounted when it has parted.
LEMMA CountNext ==
    ASSUME TypeOK, CountOK, [Next]_vars
    PROVE  CountOK'
<1>. USE ConnsAssumption DEF Goto, life, copies, world, answers
<1>p1. DOMAIN pc = Conns
    BY DEF TypeOK
<1>p2. IsFiniteSet(Counted)
    BY FS_Subset DEF Counted
<1>1. ASSUME NEW c \in Conns, Accept(c) PROVE CountOK'
  <2>1. Counted' = Counted
    BY <1>1, <1>p1 DEF Accept, Counted
  <2>. QED
    BY <1>1, <2>1 DEF Accept, CountOK
<1>2. ASSUME NEW c \in Conns, TrackClient(c) PROVE CountOK'
  <2>1. Counted' = Counted
    BY <1>2, <1>p1 DEF TrackClient, Counted
  <2>. QED
    BY <1>2, <2>1 DEF TrackClient, CountOK
<1>3. ASSUME NEW c \in Conns, Route(c) PROVE CountOK'
  <2>1. Counted' = Counted
    BY <1>3, <1>p1 DEF Route, Counted
  <2>. QED
    BY <1>3, <2>1 DEF Route, CountOK
<1>4. ASSUME NEW c \in Conns, CachedAnswers(c) PROVE CountOK'
  <2>1. Counted' = Counted
    BY <1>4, <1>p1 DEF CachedAnswers, Answered, Counted
  <2>. QED
    BY <1>4, <2>1 DEF CachedAnswers, Answered, CountOK
<1>5. ASSUME NEW c \in Conns, CachedFails(c) PROVE CountOK'
  <2>1. Counted' = Counted
    BY <1>5, <1>p1 DEF CachedFails, Counted
  <2>. QED
    BY <1>5, <2>1 DEF CachedFails, CountOK
<1>6. ASSUME NEW c \in Conns, Resolve(c) PROVE CountOK'
  <2>1. Counted' = Counted
    BY <1>6, <1>p1 DEF Resolve, Counted
  <2>. QED
    BY <1>6, <2>1 DEF Resolve, CountOK
<1>7. ASSUME NEW c \in Conns, ResolveFails(c) PROVE CountOK'
  <2>1. Counted' = Counted
    BY <1>7, <1>p1 DEF ResolveFails, Fails, Counted
  <2>. QED
    BY <1>7, <2>1 DEF ResolveFails, Fails, CountOK
<1>8. ASSUME NEW c \in Conns, Store(c) PROVE CountOK'
  <2>1. Counted' = Counted
    BY <1>8, <1>p1 DEF Store, Counted
  <2>. QED
    BY <1>8, <2>1 DEF Store, CountOK
<1>9. ASSUME NEW c \in Conns, DialAnswers(c) PROVE CountOK'
  <2>1. Counted' = Counted
    BY <1>9, <1>p1 DEF DialAnswers, Answered, Target, Counted
  <2>. QED
    BY <1>9, <2>1 DEF DialAnswers, Answered, Target, CountOK
<1>10. ASSUME NEW c \in Conns, DialFails(c) PROVE CountOK'
  <2>1. Counted' = Counted
    BY <1>10, <1>p1 DEF DialFails, Fails, Refused, Target, Counted
  <2>. QED
    BY <1>10, <2>1 DEF DialFails, Fails, Refused, Target, CountOK
<1>11. ASSUME NEW c \in Conns, Join(c) PROVE CountOK'
  <2>1. Counted' = Counted \cup {c} /\ c \notin Counted
    BY <1>11, <1>p1 DEF Join, Counted
  <2>2. Cardinality(Counted') = Cardinality(Counted) + 1
    BY <2>1, <1>p2, FS_AddElement
  <2>. QED
    BY <1>11, <2>2 DEF Join, CountOK
<1>12. ASSUME NEW c \in Conns, CopyUpEnds(c) PROVE CountOK'
  <2>1. Counted' = Counted
    BY <1>12, <1>p1 DEF CopyUpEnds, Counted
  <2>. QED
    BY <1>12, <2>1 DEF CopyUpEnds, CountOK
<1>13. ASSUME NEW c \in Conns, CopyDownEnds(c) PROVE CountOK'
  <2>1. Counted' = Counted
    BY <1>13, <1>p1 DEF CopyDownEnds, Counted
  <2>. QED
    BY <1>13, <2>1 DEF CopyDownEnds, CountOK
<1>14. ASSUME NEW c \in Conns, Part(c) PROVE CountOK'
  <2>1. Counted' = Counted
    BY <1>14, <1>p1 DEF Part, Counted
  <2>. QED
    BY <1>14, <2>1 DEF Part, CountOK
<1>15. ASSUME NEW c \in Conns, Uncount(c) PROVE CountOK'
  <2>1. Counted' = Counted \ {c} /\ c \in Counted
    BY <1>15, <1>p1 DEF Uncount, Counted
  <2>2. Cardinality(Counted') = Cardinality(Counted) - 1
    BY <2>1, <1>p2, FS_RemoveElement
  <2>. QED
    BY <1>15, <2>2 DEF Uncount, CountOK
<1>16. ASSUME NEW c \in Conns, OffClient(c) PROVE CountOK'
  <2>1. Counted' = Counted
    BY <1>16, <1>p1 DEF OffClient, Forget, Counted
  <2>. QED
    BY <1>16, <2>1 DEF OffClient, Forget, CountOK
<1>17. ASSUME NEW c \in Conns, ShutClient(c) PROVE CountOK'
  <2>1. Counted' = Counted
    BY <1>17, <1>p1 DEF ShutClient, Counted
  <2>. QED
    BY <1>17, <2>1 DEF ShutClient, CountOK
<1>18. ASSUME CloseListener PROVE CountOK'
  <2>1. Counted' = Counted
    BY <1>18, <1>p1 DEF CloseListener, Counted
  <2>. QED
    BY <1>18, <2>1 DEF CloseListener, CountOK
<1>19. ASSUME Sweep PROVE CountOK'
  <2>1. Counted' = Counted
    BY <1>19, <1>p1 DEF Sweep, MaySweep, Counted
  <2>. QED
    BY <1>19, <2>1 DEF Sweep, MaySweep, CountOK
<1>20. ASSUME NEW c \in Conns, NEW s \in Sockets, PeerEnds(c, s) PROVE
   CountOK'
  <2>1. Counted' = Counted
    BY <1>20, <1>p1 DEF PeerEnds, Counted
  <2>. QED
    BY <1>20, <2>1 DEF PeerEnds, CountOK
<1>21. ASSUME NEW c \in Conns, NEW s \in Sockets, Stalls(c, s) PROVE
   CountOK'
  <2>1. Counted' = Counted
    BY <1>21, <1>p1 DEF Stalls, Counted
  <2>. QED
    BY <1>21, <2>1 DEF Stalls, CountOK
<1>22. ASSUME NEW s \in Sockets, ReadsOn(s) PROVE
   CountOK'
  <2>1. Counted' = Counted
    BY <1>22, <1>p1 DEF ReadsOn, Counted
  <2>. QED
    BY <1>22, <2>1 DEF ReadsOn, CountOK
<1>23. ASSUME NEW a \in Addrs \cup {None}, Moves(a) PROVE CountOK'
  <2>1. Counted' = Counted
    BY <1>23, <1>p1 DEF Moves, Counted
  <2>. QED
    BY <1>23, <2>1 DEF Moves, CountOK
<1>24. ASSUME NEW a \in Addrs \cup {None}, OtherMoves(a) PROVE CountOK'
  <2>1. Counted' = Counted
    BY <1>24, <1>p1 DEF OtherMoves, Counted
  <2>. QED
    BY <1>24, <2>1 DEF OtherMoves, CountOK
<1>25. CASE UNCHANGED vars
    BY <1>25 DEF vars, CountOK, Counted
<1>. QED
    BY <1>1, <1>2, <1>3, <1>4, <1>5, <1>6, <1>7, <1>8, <1>9, <1>10, <1>11,
       <1>12, <1>13, <1>14, <1>15, <1>16, <1>17, <1>18, <1>19, <1>20, <1>21,
       <1>22, <1>23, <1>24, <1>25 DEF Next, Handle, Copy, Shutdown

\* Every step keeps the types.
LEMMA TypeNext ==
    ASSUME TypeOK, CountOK', [Next]_vars
    PROVE  TypeOK'
<1>. USE ConnsAssumption DEF Goto, life, copies, world, answers
<1>p1. active' \in Nat
  <2>1. IsFiniteSet(Counted')
    BY FS_Subset DEF Counted
  <2>. QED
    BY <2>1, FS_CardinalityType DEF CountOK
<1>1. ASSUME NEW c \in Conns, Accept(c) PROVE TypeOK'
    BY <1>1, <1>p1, SocketsDiffer DEF Accept, TypeOK, Places
<1>2. ASSUME NEW c \in Conns, TrackClient(c) PROVE TypeOK'
    BY <1>2, <1>p1, SocketsDiffer DEF TrackClient, TypeOK, Places
<1>3. ASSUME NEW c \in Conns, Route(c) PROVE TypeOK'
    BY <1>3, <1>p1, SocketsDiffer DEF Route, TypeOK, Places
<1>4. ASSUME NEW c \in Conns, CachedAnswers(c) PROVE TypeOK'
    BY <1>4, <1>p1, SocketsDiffer DEF CachedAnswers, Answered, TypeOK, Places,
       Who
<1>5. ASSUME NEW c \in Conns, CachedFails(c) PROVE TypeOK'
    BY <1>5, <1>p1, SocketsDiffer DEF CachedFails, TypeOK, Places
<1>6. ASSUME NEW c \in Conns, Resolve(c) PROVE TypeOK'
    BY <1>6, <1>p1, SocketsDiffer DEF Resolve, TypeOK, Places
<1>7. ASSUME NEW c \in Conns, ResolveFails(c) PROVE TypeOK'
    BY <1>7, <1>p1, SocketsDiffer DEF ResolveFails, Fails, TypeOK, Places
<1>8. ASSUME NEW c \in Conns, Store(c) PROVE TypeOK'
    BY <1>8, <1>p1, SocketsDiffer DEF Store, TypeOK, Places
<1>9. ASSUME NEW c \in Conns, DialAnswers(c) PROVE TypeOK'
    BY <1>9, <1>p1, SocketsDiffer DEF DialAnswers, Answered, Target, TypeOK,
       Places, Who
<1>10. ASSUME NEW c \in Conns, DialFails(c) PROVE TypeOK'
    BY <1>10, <1>p1, SocketsDiffer DEF DialFails, Fails, Refused, Target,
       TypeOK, Places
<1>11. ASSUME NEW c \in Conns, Join(c) PROVE TypeOK'
    BY <1>11, <1>p1, SocketsDiffer DEF Join, Forget, TypeOK, Places
<1>12. ASSUME NEW c \in Conns, CopyUpEnds(c) PROVE TypeOK'
    BY <1>12, <1>p1, SocketsDiffer DEF CopyUpEnds, TypeOK, Places
<1>13. ASSUME NEW c \in Conns, CopyDownEnds(c) PROVE TypeOK'
    BY <1>13, <1>p1, SocketsDiffer DEF CopyDownEnds, TypeOK, Places
<1>14. ASSUME NEW c \in Conns, Part(c) PROVE TypeOK'
    BY <1>14, <1>p1, SocketsDiffer DEF Part, TypeOK, Places
<1>15. ASSUME NEW c \in Conns, Uncount(c) PROVE TypeOK'
    BY <1>15, <1>p1, SocketsDiffer DEF Uncount, TypeOK, Places
<1>16. ASSUME NEW c \in Conns, OffClient(c) PROVE TypeOK'
    BY <1>16, <1>p1, SocketsDiffer DEF OffClient, Forget, TypeOK, Places
<1>17. ASSUME NEW c \in Conns, ShutClient(c) PROVE TypeOK'
    BY <1>17, <1>p1, SocketsDiffer DEF ShutClient, TypeOK, Places
<1>18. ASSUME CloseListener PROVE TypeOK'
    BY <1>18, <1>p1, SocketsDiffer DEF CloseListener, TypeOK, Places
<1>19. ASSUME Sweep PROVE TypeOK'
    BY <1>19, <1>p1, SocketsDiffer DEF Sweep, MaySweep, TypeOK, Places
<1>20. ASSUME NEW c \in Conns, NEW s \in Sockets, PeerEnds(c, s) PROVE TypeOK'
    BY <1>20, <1>p1, SocketsDiffer DEF PeerEnds, TypeOK, Places
<1>21. ASSUME NEW c \in Conns, NEW s \in Sockets, Stalls(c, s) PROVE TypeOK'
    BY <1>21, <1>p1, SocketsDiffer DEF Stalls, TypeOK, Places
<1>22. ASSUME NEW s \in Sockets, ReadsOn(s) PROVE TypeOK'
    BY <1>22, <1>p1, SocketsDiffer DEF ReadsOn, TypeOK, Places
<1>23. ASSUME NEW a \in Addrs \cup {None}, Moves(a) PROVE TypeOK'
    BY <1>23, <1>p1, SocketsDiffer DEF Moves, TypeOK, Places
<1>24. ASSUME NEW a \in Addrs \cup {None}, OtherMoves(a) PROVE TypeOK'
    BY <1>24, <1>p1, SocketsDiffer DEF OtherMoves, TypeOK, Places
<1>25. CASE UNCHANGED vars
    BY <1>25 DEF vars, TypeOK
<1>. QED
    BY <1>1, <1>2, <1>3, <1>4, <1>5, <1>6, <1>7, <1>8, <1>9, <1>10, <1>11,
       <1>12, <1>13, <1>14, <1>15, <1>16, <1>17, <1>18, <1>19, <1>20, <1>21,
       <1>22, <1>23, <1>24, <1>25 DEF Next, Handle, Copy, Shutdown

\* Addresses come from Hyper-V or from the cache, which has them from there.
LEMMA AddrNext ==
    ASSUME TypeOK, AddrOK, [Next]_vars
    PROVE  AddrOK'
<1>. USE ConnsAssumption DEF Goto, life, copies, world, answers
<1>p1. /\ DOMAIN pc = Conns /\ DOMAIN addr = Conns /\ DOMAIN reached = Conns
      /\ None \notin was
    BY DEF TypeOK
<1>1. ASSUME NEW c \in Conns, Accept(c) PROVE AddrOK'
    BY <1>1, <1>p1 DEF Accept, AddrOK
<1>2. ASSUME NEW c \in Conns, TrackClient(c) PROVE AddrOK'
    BY <1>2, <1>p1 DEF TrackClient, AddrOK
<1>3. ASSUME NEW c \in Conns, Route(c) PROVE AddrOK'
    BY <1>3, <1>p1 DEF Route, AddrOK
<1>4. ASSUME NEW c \in Conns, CachedAnswers(c) PROVE AddrOK'
    BY <1>4, <1>p1 DEF CachedAnswers, Answered, AddrOK, Who
<1>5. ASSUME NEW c \in Conns, CachedFails(c) PROVE AddrOK'
    BY <1>5, <1>p1 DEF CachedFails, AddrOK
<1>6. ASSUME NEW c \in Conns, Resolve(c) PROVE AddrOK'
    BY <1>6, <1>p1 DEF Resolve, AddrOK
<1>7. ASSUME NEW c \in Conns, ResolveFails(c) PROVE AddrOK'
    BY <1>7, <1>p1 DEF ResolveFails, Fails, AddrOK
<1>8. ASSUME NEW c \in Conns, Store(c) PROVE AddrOK'
    BY <1>8, <1>p1 DEF Store, AddrOK
<1>9. ASSUME NEW c \in Conns, DialAnswers(c) PROVE AddrOK'
    BY <1>9, <1>p1 DEF DialAnswers, Answered, Target, AddrOK, Who
<1>10. ASSUME NEW c \in Conns, DialFails(c) PROVE AddrOK'
    BY <1>10, <1>p1 DEF DialFails, Fails, Refused, Target, AddrOK
<1>11. ASSUME NEW c \in Conns, Join(c) PROVE AddrOK'
    BY <1>11, <1>p1 DEF Join, Forget, AddrOK
<1>12. ASSUME NEW c \in Conns, CopyUpEnds(c) PROVE AddrOK'
    BY <1>12, <1>p1 DEF CopyUpEnds, AddrOK
<1>13. ASSUME NEW c \in Conns, CopyDownEnds(c) PROVE AddrOK'
    BY <1>13, <1>p1 DEF CopyDownEnds, AddrOK
<1>14. ASSUME NEW c \in Conns, Part(c) PROVE AddrOK'
    BY <1>14, <1>p1 DEF Part, AddrOK
<1>15. ASSUME NEW c \in Conns, Uncount(c) PROVE AddrOK'
    BY <1>15, <1>p1 DEF Uncount, AddrOK
<1>16. ASSUME NEW c \in Conns, OffClient(c) PROVE AddrOK'
    BY <1>16, <1>p1 DEF OffClient, Forget, AddrOK
<1>17. ASSUME NEW c \in Conns, ShutClient(c) PROVE AddrOK'
    BY <1>17, <1>p1 DEF ShutClient, AddrOK
<1>18. ASSUME CloseListener PROVE AddrOK'
    BY <1>18, <1>p1 DEF CloseListener, AddrOK
<1>19. ASSUME Sweep PROVE AddrOK'
    BY <1>19, <1>p1 DEF Sweep, MaySweep, AddrOK
<1>20. ASSUME NEW c \in Conns, NEW s \in Sockets, PeerEnds(c, s) PROVE AddrOK'
    BY <1>20, <1>p1 DEF PeerEnds, AddrOK
<1>21. ASSUME NEW c \in Conns, NEW s \in Sockets, Stalls(c, s) PROVE AddrOK'
    BY <1>21, <1>p1 DEF Stalls, AddrOK
<1>22. ASSUME NEW s \in Sockets, ReadsOn(s) PROVE AddrOK'
    BY <1>22, <1>p1 DEF ReadsOn, AddrOK
<1>23. ASSUME NEW a \in Addrs \cup {None}, Moves(a) PROVE AddrOK'
    BY <1>23, <1>p1 DEF Moves, AddrOK, Dialling
<1>24. ASSUME NEW a \in Addrs \cup {None}, OtherMoves(a) PROVE AddrOK'
    BY <1>24, <1>p1 DEF OtherMoves, AddrOK
<1>25. CASE UNCHANGED vars
    BY <1>25 DEF vars, AddrOK
<1>. QED
    BY <1>1, <1>2, <1>3, <1>4, <1>5, <1>6, <1>7, <1>8, <1>9, <1>10, <1>11,
       <1>12, <1>13, <1>14, <1>15, <1>16, <1>17, <1>18, <1>19, <1>20, <1>21,
       <1>22, <1>23, <1>24, <1>25 DEF Next, Handle, Copy, Shutdown

\* Neither another guest nor a refusal comes from an address just asked for.
LEMMA GuestNext ==
    ASSUME TypeOK, AddrOK, GuestOK, [Next]_vars
    PROVE  GuestOK'
<1>. USE ConnsAssumption DEF Goto, life, copies, world, answers
<1>p1. /\ DOMAIN pc = Conns /\ DOMAIN addr = Conns /\ DOMAIN reached = Conns
      /\ None \notin was
    BY DEF TypeOK
<1>1. ASSUME NEW c \in Conns, Accept(c) PROVE GuestOK'
    BY <1>1, <1>p1 DEF Accept, GuestOK, RightGuest, RefusedOnlyIfAway, AddrOK
<1>2. ASSUME NEW c \in Conns, TrackClient(c) PROVE GuestOK'
    BY <1>2, <1>p1 DEF TrackClient, GuestOK, RightGuest, RefusedOnlyIfAway,
       AddrOK
<1>3. ASSUME NEW c \in Conns, Route(c) PROVE GuestOK'
    BY <1>3, <1>p1 DEF Route, GuestOK, RightGuest, RefusedOnlyIfAway, AddrOK
<1>4. ASSUME NEW c \in Conns, CachedAnswers(c) PROVE GuestOK'
    BY <1>4, <1>p1 DEF CachedAnswers, Answered, GuestOK, RightGuest,
       RefusedOnlyIfAway, Who, AddrOK
<1>5. ASSUME NEW c \in Conns, CachedFails(c) PROVE GuestOK'
    BY <1>5, <1>p1 DEF CachedFails, GuestOK, RightGuest, RefusedOnlyIfAway,
       AddrOK
<1>6. ASSUME NEW c \in Conns, Resolve(c) PROVE GuestOK'
    BY <1>6, <1>p1 DEF Resolve, GuestOK, RightGuest, RefusedOnlyIfAway, AddrOK
<1>7. ASSUME NEW c \in Conns, ResolveFails(c) PROVE GuestOK'
    BY <1>7, <1>p1 DEF ResolveFails, Fails, GuestOK, RightGuest,
       RefusedOnlyIfAway, AddrOK
<1>8. ASSUME NEW c \in Conns, Store(c) PROVE GuestOK'
    BY <1>8, <1>p1 DEF Store, GuestOK, RightGuest, RefusedOnlyIfAway, AddrOK
<1>9. ASSUME NEW c \in Conns, DialAnswers(c) PROVE GuestOK'
    BY <1>9, <1>p1 DEF DialAnswers, Answered, Target, GuestOK, RightGuest,
       RefusedOnlyIfAway, Who, AddrOK
<1>10. ASSUME NEW c \in Conns, DialFails(c) PROVE GuestOK'
    BY <1>10, <1>p1 DEF DialFails, Fails, Refused, Target, GuestOK,
       RightGuest, RefusedOnlyIfAway, AddrOK
<1>11. ASSUME NEW c \in Conns, Join(c) PROVE GuestOK'
    BY <1>11, <1>p1 DEF Join, Forget, GuestOK, RightGuest, RefusedOnlyIfAway,
       AddrOK
<1>12. ASSUME NEW c \in Conns, CopyUpEnds(c) PROVE GuestOK'
    BY <1>12, <1>p1 DEF CopyUpEnds, GuestOK, RightGuest, RefusedOnlyIfAway,
       AddrOK
<1>13. ASSUME NEW c \in Conns, CopyDownEnds(c) PROVE GuestOK'
    BY <1>13, <1>p1 DEF CopyDownEnds, GuestOK, RightGuest, RefusedOnlyIfAway,
       AddrOK
<1>14. ASSUME NEW c \in Conns, Part(c) PROVE GuestOK'
    BY <1>14, <1>p1 DEF Part, GuestOK, RightGuest, RefusedOnlyIfAway, AddrOK
<1>15. ASSUME NEW c \in Conns, Uncount(c) PROVE GuestOK'
    BY <1>15, <1>p1 DEF Uncount, GuestOK, RightGuest, RefusedOnlyIfAway,
       AddrOK
<1>16. ASSUME NEW c \in Conns, OffClient(c) PROVE GuestOK'
    BY <1>16, <1>p1 DEF OffClient, Forget, GuestOK, RightGuest,
       RefusedOnlyIfAway, AddrOK
<1>17. ASSUME NEW c \in Conns, ShutClient(c) PROVE GuestOK'
    BY <1>17, <1>p1 DEF ShutClient, GuestOK, RightGuest, RefusedOnlyIfAway,
       AddrOK
<1>18. ASSUME CloseListener PROVE GuestOK'
    BY <1>18, <1>p1 DEF CloseListener, GuestOK, RightGuest, RefusedOnlyIfAway,
       AddrOK
<1>19. ASSUME Sweep PROVE GuestOK'
    BY <1>19, <1>p1 DEF Sweep, MaySweep, GuestOK, RightGuest,
       RefusedOnlyIfAway, AddrOK
<1>20. ASSUME NEW c \in Conns, NEW s \in Sockets, PeerEnds(c, s) PROVE
   GuestOK'
    BY <1>20, <1>p1 DEF PeerEnds, GuestOK, RightGuest, RefusedOnlyIfAway,
       AddrOK
<1>21. ASSUME NEW c \in Conns, NEW s \in Sockets, Stalls(c, s) PROVE
   GuestOK'
    BY <1>21, <1>p1 DEF Stalls, GuestOK, RightGuest, RefusedOnlyIfAway,
       AddrOK
<1>22. ASSUME NEW s \in Sockets, ReadsOn(s) PROVE
   GuestOK'
    BY <1>22, <1>p1 DEF ReadsOn, GuestOK, RightGuest, RefusedOnlyIfAway,
       AddrOK
<1>23. ASSUME NEW a \in Addrs \cup {None}, Moves(a) PROVE GuestOK'
    BY <1>23, <1>p1 DEF Moves, GuestOK, RightGuest, RefusedOnlyIfAway, AddrOK
<1>24. ASSUME NEW a \in Addrs \cup {None}, OtherMoves(a) PROVE GuestOK'
    BY <1>24, <1>p1 DEF OtherMoves, GuestOK, RightGuest, RefusedOnlyIfAway,
       AddrOK
<1>25. CASE UNCHANGED vars
    BY <1>25 DEF vars, GuestOK, RightGuest, RefusedOnlyIfAway
<1>. QED
    BY <1>1, <1>2, <1>3, <1>4, <1>5, <1>6, <1>7, <1>8, <1>9, <1>10, <1>11,
       <1>12, <1>13, <1>14, <1>15, <1>16, <1>17, <1>18, <1>19, <1>20, <1>21,
       <1>22, <1>23, <1>24, <1>25 DEF Next, Handle, Copy, Shutdown

-----------------------------------------------------------------------------
\* The invariant holds at first, and every step keeps it.
LEMMA InvInit == Init => ConnsInv
<1>. SUFFICES ASSUME Init PROVE ConnsInv
    OBVIOUS
<1>. USE ConnsAssumption
<1>1. TypeOK
  <2>1. pc \in [Conns -> Places] /\ addr \in [Conns -> Addrs \cup {None}]
    BY DEF Init, Places
  <2>2. reached \in [Conns -> {None, "vm", "other"}]
    BY DEF Init
  <2>3. mode \in AllModes /\ moves \in 0..MaxMoves
    BY DEF Init
  <2>. QED
    BY <2>1, <2>2, <2>3 DEF Init, TypeOK
<1>2. /\ \A c \in Conns : pc[c] = "away" /\ reached[c] = None
      /\ open = {} /\ conns = {} /\ up = {} /\ down = {} /\ ~swept
    BY DEF Init
<1>3. CountOK
  <2>1. Counted = {}
    BY <1>2 DEF Counted
  <2>. QED
    BY <2>1, FS_EmptySet DEF Init, CountOK
<1>4. SocketsOK /\ TrackedOK /\ LateOnly
    BY <1>2 DEF SocketsOK, TrackedOK, LateOnly
<1>5. AddrOK /\ GuestOK
    BY <1>2 DEF Init, AddrOK, GuestOK, RightGuest, RefusedOnlyIfAway
<1>. QED
    BY <1>1, <1>3, <1>4, <1>5 DEF ConnsInv

LEMMA InvNext == ConnsInv /\ [Next]_vars => ConnsInv'
<1>. SUFFICES ASSUME ConnsInv, [Next]_vars PROVE ConnsInv'
    OBVIOUS
<1>. QED
    BY TypeNext, CountNext, SocketsNext, TrackedNext, LateNext, AddrNext,
       GuestNext DEF ConnsInv

\* The inductive invariant holds of every behaviour.
THEOREM ConnsSafe == Spec => []ConnsInv
BY InvInit, InvNext, PTL DEF Spec

\* Every variable keeps its type; in particular, the count of active connections
\* never drops below zero.
THEOREM ConnsTypeCorrect == Spec => []TypeOK
<1>1. ConnsInv => TypeOK
    BY DEF ConnsInv
<1>. QED
    BY <1>1, ConnsSafe, PTL

\* Whichever way handle returns, nothing of its connection is left.
THEOREM NothingLeftAtEnd == Spec => []ReleasedAtEnd
<1>1. ConnsInv => ReleasedAtEnd
    BY DEF ConnsInv, CountOK, Counted, SocketsOK, ReleasedAtEnd
<1>. QED
    BY <1>1, ConnsSafe, PTL

\* shutdown misses only connections on their way to being tracked.
THEOREM OnlyLateSurvive == Spec => []LateOnly
<1>1. ConnsInv => LateOnly
    BY DEF ConnsInv
<1>. QED
    BY <1>1, ConnsSafe, PTL

\* An address that was just asked for never leads to another guest by itself.
THEOREM RightGuestAlways == Spec => []RightGuest
<1>1. ConnsInv => RightGuest
    BY DEF ConnsInv, GuestOK
<1>. QED
    BY <1>1, ConnsSafe, PTL

\* The cache never turns a guest that is there into one that is unreachable.
THEOREM RefusedOnlyIfAwayAlways == Spec => []RefusedOnlyIfAway
<1>1. ConnsInv => RefusedOnlyIfAway
    BY DEF ConnsInv, GuestOK
<1>. QED
    BY <1>1, ConnsSafe, PTL
=============================================================================
