---------------------------- MODULE StreamProofs ----------------------------
(***************************************************************************)
(* Proofs about the event streams of the Control API, on the reference     *)
(* store and on the durable store, for every number of clients, incidents, *)
(* events and handlers and every queue size.  What a stream does to its    *)
(* own record is proved once and used for both stores.                     *)
(***************************************************************************)
EXTENDS ControlStoreProofs, ControlApi, MemoryStore

-----------------------------------------------------------------------------
(***************************************************************************)
(* One stream.                                                             *)
(***************************************************************************)

Open == {"replaying", "live", "waiting"}

StreamRecord ==
  [pc : {"closed", "subscribed"} \cup Open, incident : Incidents \cup {None},
   header : BOOLEAN, cursor : Nat, delivered : Nat, replay : SUBSET Nat,
   queue : Seq(Nat), overflow : BOOLEAN, seen : Seq(Nat), excused : SUBSET Nat,
   skipped : SUBSET Nat]

\* What the client received exists, lies at or below its cursor and grew.
HistorySound(x, top) ==
  /\ \A k \in DOMAIN x.seen : x.seen[k] \in 1..top /\ x.seen[k] <= x.cursor
  /\ \A k, m \in DOMAIN x.seen : k < m => x.seen[k] < x.seen[m]
  /\ x.seen # <<>> => x.header /\ x.cursor <= top

\* The events still to be replayed: a run of sequences beyond the delivered one.
Ahead(x, top) ==
  \E lo, hi \in Nat : x.replay = lo..hi /\ x.delivered < lo /\ hi <= top

\* Where the generator stands.
PositionSound(x, top) ==
  /\ x.pc \in Open => x.delivered = x.cursor /\ x.cursor <= top
  /\ x.pc = "replaying" => Ahead(x, top)
  /\ x.pc \in {"live", "waiting"} => x.replay = {}

\* A client that never opened a stream has received nothing, and nothing is
\* queued for it.
FollowsSound(x, top) ==
  /\ x.pc # "closed" => x.incident # None
  /\ x.incident = None => x.seen = <<>> /\ x.queue = <<>>
  /\ x.incident # None => top >= 1

\* The record of a stream agrees with a projection of the sequences 1..top.
Sound(x, top) ==
  /\ HistorySound(x, top)
  /\ \A k \in DOMAIN x.queue : x.queue[k] \in 1..top
  /\ PositionSound(x, top)
  /\ FollowsSound(x, top)

\* Appending to a sequence of numbers.
LEMMA AppendFacts ==
  ASSUME NEW q \in Seq(Nat), NEW n \in Nat
  PROVE  /\ Append(q, n) \in Seq(Nat)
         /\ Append(q, n) # <<>>
         /\ Len(q) \in Nat
         /\ DOMAIN q = 1..Len(q)
         /\ DOMAIN Append(q, n) = 1..(Len(q) + 1)
         /\ Append(q, n)[Len(q) + 1] = n
         /\ \A k \in 1..Len(q) : Append(q, n)[k] = q[k]
  OBVIOUS

\* Taking the head off one.
LEMMA TailFacts ==
  ASSUME NEW q \in Seq(Nat), q # <<>>
  PROVE  /\ Tail(q) \in Seq(Nat)
         /\ Len(q) \in Nat /\ Len(q) >= 1
         /\ DOMAIN q = 1..Len(q)
         /\ DOMAIN Tail(q) = 1..(Len(q) - 1)
         /\ Head(q) \in Nat /\ Head(q) = q[1]
         /\ \A k \in 1..(Len(q) - 1) : Tail(q)[k] = q[k + 1]
  OBVIOUS

\* The least of a run of sequences is its first.
LEMMA LeastOfRun ==
  ASSUME NEW lo \in Nat, NEW hi \in Nat, lo <= hi
  PROVE  Least(lo..hi) = lo
  <1>1. lo \in lo..hi /\ \A m \in lo..hi : lo <= m
    OBVIOUS
  <1>2. \A n \in lo..hi : (\A m \in lo..hi : n <= m) => n = lo
    <2> TAKE n \in lo..hi
    <2> HAVE \A m \in lo..hi : n <= m
    <2>1. n <= lo /\ lo <= n /\ n \in Nat
      BY <1>1
    <2> QED BY <2>1
  <1>3. PICK c : c = Least(lo..hi)
    OBVIOUS
  <1>4. c \in lo..hi /\ \A m \in lo..hi : c <= m
    BY <1>1, <1>3 DEF Least
  <1> QED BY <1>2, <1>3, <1>4

\* A longer projection does no harm.
LEMMA SoundGrows ==
  ASSUME NEW x \in StreamRecord, NEW a \in Nat, NEW b \in Nat, a <= b, Sound(x, a)
  PROVE  Sound(x, b)
  <1> USE DEF Sound, StreamRecord
  <1>1. HistorySound(x, b)
    BY DEF HistorySound
  <1>2. \A k \in DOMAIN x.queue : x.queue[k] \in 1..b
    OBVIOUS
  <1>3. PositionSound(x, b)
    <2>1. x.pc = "replaying" => Ahead(x, b)
      <3> HAVE x.pc = "replaying"
      <3>1. PICK lo \in Nat, hi \in Nat : x.replay = lo..hi /\ x.delivered < lo /\ hi <= a
        BY DEF PositionSound, Ahead
      <3> QED BY <3>1 DEF Ahead
    <2> QED BY <2>1 DEF PositionSound
  <1>4. FollowsSound(x, b)
    BY DEF FollowsSound
  <1> QED BY <1>1, <1>2, <1>3, <1>4

\* Opening a connection keeps the client's history.
LEMMA SubscribeSound ==
  ASSUME NEW s \in Streams, NEW i \in Incidents, NEW start \in Nat, NEW top \in Nat,
         NEW x \in StreamRecord, x = stream[s], x.incident \in {None, i}, top >= 1,
         Sound(x, top), Subscribe(s, i, start)
  PROVE  \E y \in StreamRecord :
           /\ Set(s, y) /\ Sound(y, top)
           /\ y.pc = "subscribed" /\ y.incident = i
           /\ y.seen = x.seen
           /\ \/ y.cursor = x.cursor /\ y.excused = x.excused /\ y.skipped = x.skipped
              \/ y.cursor = start /\ y.excused = 1..start
  <1> DEFINE first == x.seen = <<>> /\ ~x.header /\ start > 0
  <1>1. PICK y : /\ y = [x EXCEPT !.pc = "subscribed", !.incident = i, !.queue = <<>>,
                                 !.overflow = FALSE, !.replay = {},
                                 !.header = x.header \/ first,
                                 !.cursor = IF first THEN start ELSE x.cursor,
                                 !.excused = IF first THEN 1..start ELSE x.excused]
                 /\ Set(s, y)
    BY DEF Subscribe
  <1>2. PICK h \in BOOLEAN : h <=> x.header \/ first
    OBVIOUS
  <1>3. PICK c \in Nat : c = IF first THEN start ELSE x.cursor
    BY DEF StreamRecord
  <1>4. PICK e \in SUBSET Nat : e = IF first THEN 1..start ELSE x.excused
    BY DEF StreamRecord
  <1>5. <<>> \in Seq(Nat) /\ DOMAIN <<>> = {}
    OBVIOUS
  <1>6. y = [x EXCEPT !.pc = "subscribed", !.incident = i, !.queue = <<>>,
                      !.overflow = FALSE, !.replay = {}, !.header = h, !.cursor = c,
                      !.excused = e]
    <2>1. h = (x.header \/ first)
      BY <1>2 DEF StreamRecord
    <2> QED BY <1>1, <1>3, <1>4, <2>1
  <1>7. /\ y \in StreamRecord /\ y.pc = "subscribed" /\ y.incident = i /\ y.queue = <<>>
        /\ y.header = h /\ y.cursor = c /\ y.excused = e /\ y.skipped = x.skipped
        /\ y.seen = x.seen
    BY <1>5, <1>6 DEF StreamRecord
  <1>8. HistorySound(y, top)
    BY <1>2, <1>3, <1>7 DEF HistorySound, Sound
  <1>9. \A k \in DOMAIN y.queue : y.queue[k] \in 1..top
    BY <1>5, <1>7
  <1>10. PositionSound(y, top)
    BY <1>7 DEF PositionSound, Open
  <1>11. FollowsSound(y, top)
    BY <1>7, NoneAssumption DEF FollowsSound
  <1>12. \/ y.cursor = x.cursor /\ y.excused = x.excused /\ y.skipped = x.skipped
         \/ y.cursor = start /\ y.excused = 1..start
    BY <1>3, <1>4, <1>7
  <1> QED BY <1>1, <1>7, <1>8, <1>9, <1>10, <1>11, <1>12 DEF Sound

\* The three outcomes of a replay over the retained run lo..top.
Refused(x, y) ==
  /\ x.seen = <<>>
  /\ y.pc = "closed" /\ y.cursor = 0 /\ y.excused = {} /\ ~y.header
Gap(x, y, lo) ==
  /\ y.pc = "closed" /\ y.header = x.header /\ x.cursor < lo - 1
  /\ y.cursor \in {lo - 1, lo} /\ y.excused = x.excused \cup (1..(lo - 1))
  /\ y.skipped = x.skipped \cup (lo..y.cursor)
Read(x, y, lo, top) ==
  /\ y.pc = "replaying" /\ y.header = x.header
  /\ y.cursor = x.cursor /\ y.delivered = x.cursor /\ x.cursor <= top
  /\ y.replay = {n \in lo..top : n > x.cursor}
  /\ \/ x.cursor >= lo - 1 /\ y.excused = x.excused /\ y.skipped = x.skipped
     \/ y.excused = x.excused \cup (1..(lo - 1)) /\ y.skipped = x.skipped

\* Reading the projection moves no event and forgets none: a cursor beyond
\* the projection belongs to a client that has received nothing.
LEMMA ReplaySound ==
  ASSUME NEW s \in Streams, NEW lo \in Nat, NEW top \in Nat, 1 <= lo, lo <= top,
         NEW x \in StreamRecord, x = stream[s], Sound(x, top), Replay(s, lo..top, top)
  PROVE  \E y \in StreamRecord :
           /\ Set(s, y) /\ Sound(y, top)
           /\ y.incident = x.incident /\ y.seen = x.seen /\ y.queue = x.queue
           /\ y.overflow = x.overflow
           /\ Refused(x, y) \/ Gap(x, y, lo) \/ Read(x, y, lo, top)
  <1>1. Least(lo..top) = lo
    BY LeastOfRun
  <1>2. x.pc = "subscribed"
    BY DEF Replay
  <1>3. x.cursor \in Nat
    BY DEF StreamRecord
  <1>s. /\ x.excused \in SUBSET Nat /\ x.excused \cup (1..(lo - 1)) \in SUBSET Nat
        /\ lo - 1 \in Nat
    BY DEF StreamRecord
  <1>r. LET gap == x.header /\ x.cursor < lo - 1 IN
          \/ /\ x.cursor > top
             /\ Set(s, [x EXCEPT !.pc = "closed", !.header = FALSE, !.cursor = 0,
                                 !.excused = {}, !.skipped = {}])
          \/ /\ x.cursor <= top /\ gap
             /\ \E resume \in {lo - 1, lo} :
                  Set(s, [x EXCEPT !.pc = "closed", !.cursor = resume,
                                   !.excused = x.excused \cup (1..(lo - 1)),
                                   !.skipped = x.skipped \cup (lo..resume)])
          \/ /\ x.cursor <= top /\ ~gap
             /\ Set(s, [x EXCEPT !.pc = "replaying", !.delivered = x.cursor,
                                 !.replay = {n \in lo..top : n > x.cursor},
                                 !.excused = IF x.header THEN x.excused
                                             ELSE x.excused \cup (1..(lo - 1))])
    BY <1>1, Zenon DEF Replay
  <1>4. CASE x.cursor > top
    <2>1. PICK y : /\ y = [x EXCEPT !.pc = "closed", !.header = FALSE, !.cursor = 0,
                                    !.excused = {}, !.skipped = {}]
                   /\ Set(s, y)
      <3>1. ~(x.cursor <= top)
        BY <1>3, <1>4
      <3> QED BY <1>r, <3>1, Zenon
    <2>2. /\ y \in StreamRecord /\ y.pc = "closed" /\ y.header = FALSE /\ y.cursor = 0
          /\ y.excused = {} /\ y.incident = x.incident /\ y.seen = x.seen
          /\ y.queue = x.queue /\ y.overflow = x.overflow
      BY <2>1 DEF StreamRecord
    <2>3. x.seen = <<>>
      BY <1>3, <1>4 DEF Sound, HistorySound
    <2>4. HistorySound(y, top)
      BY <2>2, <2>3 DEF HistorySound
    <2>5. PositionSound(y, top) /\ FollowsSound(y, top)
      BY <2>2 DEF PositionSound, FollowsSound, Sound, Open
    <2>6. Sound(y, top)
      BY <2>2, <2>4, <2>5 DEF Sound
    <2> QED BY <2>1, <2>2, <2>3, <2>6 DEF Refused
  <1>5. CASE x.cursor <= top /\ x.header /\ x.cursor < lo - 1
    <2>0. PICK c \in {lo - 1, lo} :
            Set(s, [x EXCEPT !.pc = "closed", !.cursor = c,
                             !.excused = x.excused \cup (1..(lo - 1)),
                             !.skipped = x.skipped \cup (lo..c)])
      <3>1. ~(x.cursor > top)
        BY <1>3, <1>5
      <3> QED BY <1>r, <1>5, <3>1, Zenon
    <2>y. PICK y : /\ y = [x EXCEPT !.pc = "closed", !.cursor = c,
                                    !.excused = x.excused \cup (1..(lo - 1)),
                                    !.skipped = x.skipped \cup (lo..c)]
                   /\ Set(s, y)
      BY <2>0
    <2>1. Set(s, y) /\ c \in Nat
      BY <1>s, <2>y
    <2>2. PICK e \in SUBSET Nat, k \in SUBSET Nat :
             /\ e = x.excused \cup (1..(lo - 1)) /\ k = x.skipped \cup (lo..c)
      <3>1. x.skipped \in SUBSET Nat
        BY DEF StreamRecord
      <3>2. lo..c \in SUBSET Nat
        BY <2>1
      <3>3. x.skipped \cup (lo..c) \in SUBSET Nat
        BY <3>1, <3>2
      <3> QED BY <1>s, <3>3
    <2>3. y = [x EXCEPT !.pc = "closed", !.cursor = c, !.excused = e, !.skipped = k]
      BY <2>y, <2>2
    <2>4. /\ y \in StreamRecord /\ y.pc = "closed" /\ y.header = x.header /\ y.cursor = c
          /\ y.excused = e /\ y.skipped = k
          /\ y.incident = x.incident /\ y.seen = x.seen
          /\ y.queue = x.queue /\ y.overflow = x.overflow
      BY <2>1, <2>3 DEF StreamRecord
    <2>5. HistorySound(y, top)
      <3>1. x.cursor <= c /\ c <= top
        BY <1>3, <1>5, <2>0
      <3>2. \A m \in DOMAIN x.seen : x.seen[m] \in 1..top /\ x.seen[m] <= c
        BY <1>3, <3>1 DEF Sound, HistorySound
      <3> QED BY <2>4, <3>1, <3>2 DEF Sound, HistorySound
    <2>6. PositionSound(y, top) /\ FollowsSound(y, top)
      BY <2>4 DEF PositionSound, FollowsSound, Sound, Open
    <2>7. Sound(y, top)
      BY <2>4, <2>5, <2>6 DEF Sound
    <2>8. Gap(x, y, lo)
      BY <1>5, <2>0, <2>2, <2>4 DEF Gap
    <2> QED BY <2>1, <2>4, <2>7, <2>8
  <1>6. CASE x.cursor <= top /\ ~(x.header /\ x.cursor < lo - 1)
    <2>1. PICK y : /\ y = [x EXCEPT !.pc = "replaying", !.delivered = x.cursor,
                                    !.replay = {n \in lo..top : n > x.cursor},
                                    !.excused = IF x.header THEN x.excused
                                                ELSE x.excused \cup (1..(lo - 1))]
                   /\ Set(s, y)
      <3>1. ~(x.cursor > top)
        BY <1>3, <1>6
      <3> QED BY <1>r, <1>6, <3>1, Zenon
    <2>2. PICK p \in SUBSET Nat, e \in SUBSET Nat :
             /\ p = {n \in lo..top : n > x.cursor}
             /\ e = IF x.header THEN x.excused ELSE x.excused \cup (1..(lo - 1))
      <3>1. {n \in lo..top : n > x.cursor} \in SUBSET Nat
        BY <1>3
      <3> QED BY <1>s, <3>1
    <2>3. y = [x EXCEPT !.pc = "replaying", !.delivered = x.cursor, !.replay = p,
                        !.excused = e]
      BY <2>1, <2>2
    <2>4. /\ y \in StreamRecord /\ y.pc = "replaying" /\ y.header = x.header
          /\ y.cursor = x.cursor /\ y.delivered = x.cursor /\ y.replay = p
          /\ y.excused = e /\ y.skipped = x.skipped
          /\ y.incident = x.incident /\ y.seen = x.seen
          /\ y.queue = x.queue /\ y.overflow = x.overflow
      BY <2>3 DEF StreamRecord, Open
    <2>5. HistorySound(y, top)
      BY <2>4 DEF Sound, HistorySound
    <2>6. Ahead(y, top)
      <3>1. CASE x.cursor < lo
        <4>1. p = lo..top
          BY <1>3, <2>2, <3>1
        <4> QED BY <2>4, <3>1, <4>1 DEF Ahead
      <3>2. CASE x.cursor >= lo
        <4>1. p = (x.cursor + 1)..top
          BY <1>3, <2>2, <3>2
        <4> QED BY <1>3, <2>4, <4>1 DEF Ahead
      <3> QED BY <1>3, <3>1, <3>2
    <2>7. PositionSound(y, top) /\ FollowsSound(y, top)
      BY <1>2, <1>6, <2>4, <2>6 DEF PositionSound, FollowsSound, Sound, Open
    <2>8. Sound(y, top)
      BY <2>4, <2>5, <2>7 DEF Sound
    <2>9. Read(x, y, lo, top)
      BY <1>3, <1>6, <2>2, <2>4 DEF Read
    <2> QED BY <2>1, <2>4, <2>8, <2>9
  <1> QED BY <1>3, <1>4, <1>5, <1>6

\* Event n goes to the client.
Delivered(x, y, n) ==
  /\ n \in Nat /\ n > x.delivered
  /\ y.delivered = n /\ y.cursor = n /\ y.header = TRUE /\ y.seen = Append(x.seen, n)

\* An event beyond the delivered one extends the history.
LEMMA DeliveredSound ==
  ASSUME NEW x \in StreamRecord, NEW y \in StreamRecord, NEW top \in Nat, NEW n \in 1..top,
         x.pc \in Open, Sound(x, top), Delivered(x, y, n)
  PROVE  HistorySound(y, top) /\ y.delivered = y.cursor /\ y.cursor <= top
  <1>1. PICK q \in Seq(Nat) : q = x.seen
    BY DEF StreamRecord
  <1>2. n \in Nat /\ y.seen = Append(q, n) /\ y.cursor = n /\ y.header = TRUE
    BY <1>1 DEF Delivered
  <1>3. \A k \in 1..Len(q) : q[k] \in 1..top /\ q[k] < n
    BY <1>1, AppendFacts DEF Sound, HistorySound, PositionSound, Delivered, StreamRecord
  <1>4. \A k \in 1..(Len(q) + 1) : y.seen[k] \in 1..top /\ y.seen[k] <= n
    <2> TAKE k \in 1..(Len(q) + 1)
    <2>1. Len(q) \in Nat
      BY AppendFacts
    <2>2. CASE k = Len(q) + 1
      BY <1>2, <2>2, AppendFacts
    <2>3. CASE k # Len(q) + 1
      <3>1. k \in 1..Len(q)
        BY <2>1, <2>3
      <3> QED BY <1>2, <1>3, <3>1, AppendFacts
    <2> QED BY <2>2, <2>3
  <1>5. \A k, m \in 1..(Len(q) + 1) : k < m => y.seen[k] < y.seen[m]
    <2> TAKE k, m \in 1..(Len(q) + 1)
    <2> HAVE k < m
    <2>1. Len(q) \in Nat
      BY AppendFacts
    <2>2. k \in 1..Len(q) /\ y.seen[k] = q[k]
      BY <1>2, <2>1, AppendFacts
    <2>3. CASE m = Len(q) + 1
      BY <1>2, <1>3, <2>2, <2>3, AppendFacts
    <2>4. CASE m # Len(q) + 1
      <3>1. m \in 1..Len(q) /\ y.seen[m] = q[m]
        BY <1>2, <2>1, <2>4, AppendFacts
      <3>2. DOMAIN q = 1..Len(q)
        BY AppendFacts
      <3> QED BY <1>1, <2>2, <3>1, <3>2 DEF Sound, HistorySound
    <2> QED BY <2>3, <2>4
  <1>6. DOMAIN y.seen = 1..(Len(q) + 1)
    BY <1>2, AppendFacts
  <1>7. HistorySound(y, top)
    BY <1>2, <1>4, <1>5, <1>6 DEF HistorySound
  <1> QED BY <1>7 DEF Delivered

\* Yielding the next replayed event.
LEMMA YieldReplaySound ==
  ASSUME NEW s \in Streams, NEW top \in Nat, NEW x \in StreamRecord, x = stream[s],
         Sound(x, top), YieldReplay(s)
  PROVE  \E y \in StreamRecord, n \in x.replay :
           /\ Set(s, y) /\ Sound(y, top)
           /\ x.pc = "replaying" /\ y.pc = "replaying" /\ y.incident = x.incident
           /\ y.queue = x.queue /\ y.overflow = x.overflow
           /\ y.excused = x.excused /\ y.skipped = x.skipped
           /\ Delivered(x, y, n) /\ (\A m \in x.replay : n <= m)
           /\ y.replay = x.replay \ {n}
  <1>1. x.pc = "replaying" /\ x.replay # {} /\ x.delivered \in Nat /\ x.seen \in Seq(Nat)
    BY DEF YieldReplay, StreamRecord
  <1>2. PICK lo \in Nat, hi \in Nat : x.replay = lo..hi /\ x.delivered < lo /\ hi <= top
    BY <1>1 DEF Sound, PositionSound, Ahead
  <1>3. lo <= hi
    BY <1>1, <1>2
  <1>4. Least(x.replay) = lo
    BY <1>2, <1>3, LeastOfRun
  <1>5. PICK q \in Seq(Nat) : q = Append(x.seen, lo)
    BY <1>1, AppendFacts
  <1>6. PICK p \in SUBSET Nat : p = x.replay \ {lo}
    <2>1. x.replay \ {lo} \in SUBSET Nat
      BY DEF StreamRecord
    <2> QED BY <2>1
  <1>7. PICK z : z = [x EXCEPT !.delivered = lo, !.cursor = lo, !.header = TRUE, !.seen = q]
    OBVIOUS
  <1>8. /\ z \in StreamRecord /\ z.pc = "replaying" /\ z.incident = x.incident
        /\ z.queue = x.queue /\ z.overflow = x.overflow
        /\ z.excused = x.excused /\ z.skipped = x.skipped
        /\ z.delivered = lo /\ z.cursor = lo /\ z.header = TRUE /\ z.seen = q
        /\ z.replay = x.replay
    BY <1>1, <1>7 DEF StreamRecord
  <1>9. PICK y : y = [z EXCEPT !.replay = p]
    OBVIOUS
  <1>10. /\ y \in StreamRecord /\ y.pc = "replaying" /\ y.incident = x.incident
         /\ y.queue = x.queue /\ y.overflow = x.overflow
         /\ y.excused = x.excused /\ y.skipped = x.skipped
         /\ y.delivered = lo /\ y.cursor = lo /\ y.header = TRUE /\ y.seen = q
         /\ y.replay = p
    BY <1>8, <1>9 DEF StreamRecord
  <1>11. Set(s, y)
    <2>1. Yielded(s, lo) = z
      BY <1>5, <1>7 DEF Yielded
    <2>2. Set(s, [Yielded(s, lo) EXCEPT !.replay = Yielded(s, lo).replay \ {lo}])
      BY <1>4, Zenon DEF YieldReplay
    <2> QED BY <1>6, <1>8, <1>9, <2>1, <2>2
  <1>12. Delivered(x, y, lo)
    BY <1>1, <1>2, <1>5, <1>10 DEF Delivered
  <1>13. lo \in 1..top /\ lo \in x.replay /\ \A m \in x.replay : lo <= m
    BY <1>1, <1>2, <1>3
  <1>14. x.pc \in Open
    BY <1>1 DEF Open
  <1>15. HistorySound(y, top) /\ y.delivered = y.cursor /\ y.cursor <= top
    BY <1>10, <1>12, <1>13, <1>14, DeliveredSound
  <1>16. Ahead(y, top)
    <2>1. p = (lo + 1)..hi
      BY <1>2, <1>6
    <2> QED BY <1>2, <1>10, <2>1 DEF Ahead
  <1>17. PositionSound(y, top)
    BY <1>10, <1>15, <1>16 DEF PositionSound
  <1>18. FollowsSound(y, top)
    <2>1. x.incident # None
      BY <1>1 DEF Sound, FollowsSound
    <2> QED BY <1>10, <2>1 DEF Sound, FollowsSound
  <1>19. Sound(y, top)
    BY <1>10, <1>15, <1>17, <1>18 DEF Sound
  <1> QED BY <1>1, <1>6, <1>10, <1>11, <1>12, <1>13, <1>19

\* Steps that only move the generator, or end it, keep what the client knows.
Moved(x, y) ==
  /\ y.incident = x.incident /\ y.cursor = x.cursor /\ y.delivered = x.delivered
  /\ y.replay = x.replay /\ y.queue = x.queue /\ y.overflow = x.overflow
  /\ y.seen = x.seen /\ y.excused = x.excused /\ y.skipped = x.skipped

\* The end of the replay, a wait, a heartbeat and the end of a connection.
LEMMA MoveSound ==
  ASSUME NEW s \in Streams, NEW top \in Nat, NEW x \in StreamRecord, x = stream[s],
         Sound(x, top),
         EndReplay(s) \/ Wait(s) \/ Heartbeat(s) \/ SlowConsumer(s) \/ Disconnect(s)
  PROVE  \E y \in StreamRecord :
           /\ Set(s, y) /\ Sound(y, top) /\ Moved(x, y) /\ x.pc \in Open
           /\ \/ y.pc = "closed"
              \/ y.pc = "live" /\ x.pc = "replaying"
              \/ y.pc = "live" /\ x.pc = "waiting" /\ x.queue = <<>>
              \/ y.pc = "waiting" /\ x.pc = "live" /\ ~x.overflow
  <1>1. CASE EndReplay(s) \/ Wait(s) \/ Heartbeat(s)
    <2>1. PICK y, p : /\ y = [x EXCEPT !.pc = p] /\ Set(s, y) /\ x.pc \in Open
                      /\ \/ p = "live" /\ x.pc = "replaying" /\ x.replay = {}
                         \/ p = "live" /\ x.pc = "waiting" /\ x.queue = <<>>
                         \/ p = "waiting" /\ x.pc = "live" /\ ~x.overflow
      <3>1. CASE EndReplay(s)
        BY <3>1, Zenon DEF EndReplay, Open
      <3>2. CASE Wait(s)
        BY <3>2, Zenon DEF Wait, Open
      <3>3. CASE Heartbeat(s)
        BY <3>3, Zenon DEF Heartbeat, Open
      <3> QED BY <1>1, <3>1, <3>2, <3>3
    <2>2. p \in {"live", "waiting"}
      BY <2>1
    <2>3. y \in StreamRecord /\ y.pc = p /\ Moved(x, y) /\ y.header = x.header
      BY <2>1, <2>2 DEF StreamRecord, Moved, Open
    <2>4. HistorySound(y, top)
      BY <2>3 DEF Sound, HistorySound, Moved
    <2>5. PositionSound(y, top)
      BY <2>1, <2>2, <2>3 DEF Sound, PositionSound, Moved, Open
    <2>6. FollowsSound(y, top)
      BY <2>1, <2>2, <2>3 DEF Sound, FollowsSound, Moved, Open
    <2>7. Sound(y, top)
      BY <2>3, <2>4, <2>5, <2>6 DEF Sound, Moved
    <2> QED BY <2>1, <2>3, <2>7
  <1>2. CASE SlowConsumer(s) \/ Disconnect(s)
    <2>1. x.delivered = x.cursor /\ x.pc \in Open
      BY <1>2 DEF Sound, PositionSound, SlowConsumer, Disconnect, Open
    <2>2. PICK y : /\ Set(s, y)
                   /\ \/ y = [x EXCEPT !.pc = "closed"]
                      \/ y = [x EXCEPT !.pc = "closed", !.header = TRUE,
                                       !.cursor = x.delivered]
      BY <1>2, Zenon DEF SlowConsumer, Disconnect
    <2>3. /\ y \in StreamRecord /\ y.pc = "closed" /\ Moved(x, y)
          /\ y.header = x.header \/ y.header = TRUE
      <3>1. CASE y = [x EXCEPT !.pc = "closed"]
        BY <3>1 DEF StreamRecord, Moved
      <3>2. CASE y = [x EXCEPT !.pc = "closed", !.header = TRUE, !.cursor = x.delivered]
        BY <2>1, <3>2 DEF StreamRecord, Moved
      <3> QED BY <2>2, <3>1, <3>2
    <2>4. HistorySound(y, top)
      BY <2>3 DEF Sound, HistorySound, Moved
    <2>5. PositionSound(y, top) /\ FollowsSound(y, top)
      BY <2>3 DEF Sound, PositionSound, FollowsSound, Moved, Open
    <2>6. Sound(y, top)
      BY <2>3, <2>4, <2>5 DEF Sound, Moved
    <2> QED BY <2>1, <2>2, <2>3, <2>6
  <1> QED BY <1>1, <1>2

\* The head of the queue was taken, and delivered unless the replay had it.
Taken(x, y, n) ==
  /\ x.pc = "waiting" \/ (x.pc = "live" /\ ~x.overflow)
  /\ y.pc = "live" /\ y.incident = x.incident /\ x.replay = {} /\ y.replay = {}
  /\ x.queue # <<>> /\ n = Head(x.queue) /\ y.queue = Tail(x.queue)
  /\ y.overflow = x.overflow /\ y.excused = x.excused /\ y.skipped = x.skipped
  /\ \/ /\ n <= x.delivered /\ y.delivered = x.delivered
        /\ y.cursor = x.cursor /\ y.seen = x.seen
     \/ Delivered(x, y, n)

\* The next event of the queue is dropped or delivered.
LEMMA TakeSound ==
  ASSUME NEW s \in Streams, NEW top \in Nat, NEW x \in StreamRecord, x = stream[s],
         Sound(x, top), Take(s)
  PROVE  \E y \in StreamRecord, n \in Nat :
           Set(s, y) /\ Sound(y, top) /\ Taken(x, y, n)
  <1>1. /\ x.pc = "waiting" \/ (x.pc = "live" /\ ~x.overflow)
        /\ x.queue # <<>> /\ x.queue \in Seq(Nat) /\ x.delivered \in Nat /\ x.cursor \in Nat
        /\ x.seen \in Seq(Nat)
    BY DEF Take, Listening, StreamRecord
  <1>2. PICK n \in Nat, t \in Seq(Nat) :
          /\ n = Head(x.queue) /\ t = Tail(x.queue)
          /\ n = x.queue[1] /\ 1 \in DOMAIN x.queue
    <2>1. /\ Head(x.queue) \in Nat /\ Tail(x.queue) \in Seq(Nat)
          /\ Head(x.queue) = x.queue[1] /\ 1 \in DOMAIN x.queue
      BY <1>1, TailFacts
    <2> QED BY <2>1
  <1>3. n \in 1..top
    BY <1>2 DEF Sound
  <1>4. x.pc \in Open /\ x.replay = {} /\ x.incident # None
    BY <1>1 DEF Open, Sound, PositionSound, FollowsSound
  <1>5. PICK w : w = IF n <= x.delivered THEN x ELSE Yielded(s, n)
    OBVIOUS
  <1>6. PICK y : y = [w EXCEPT !.queue = t, !.pc = "live"] /\ Set(s, y)
    BY <1>2, <1>5, Zenon DEF Take
  <1>7. /\ w \in StreamRecord /\ w.incident = x.incident /\ w.replay = {}
        /\ w.overflow = x.overflow /\ w.excused = x.excused /\ w.skipped = x.skipped
        /\ \/ /\ n <= x.delivered /\ w.delivered = x.delivered /\ w.header = x.header
              /\ w.cursor = x.cursor /\ w.seen = x.seen
           \/ Delivered(x, w, n)
    <2>1. CASE n <= x.delivered
      BY <1>4, <1>5, <2>1
    <2>2. CASE ~(n <= x.delivered)
      <3>1. PICK q \in Seq(Nat) : q = Append(x.seen, n)
        BY <1>1, AppendFacts
      <3>2. w = [x EXCEPT !.delivered = n, !.cursor = n, !.header = TRUE, !.seen = q]
        BY <1>5, <2>2, <3>1 DEF Yielded
      <3>3. /\ w \in StreamRecord /\ w.incident = x.incident /\ w.replay = x.replay
            /\ w.overflow = x.overflow /\ w.excused = x.excused /\ w.skipped = x.skipped
            /\ w.delivered = n /\ w.cursor = n /\ w.header = TRUE /\ w.seen = q
        BY <3>2 DEF StreamRecord
      <3>4. n > x.delivered
        BY <1>1, <2>2
      <3> QED BY <1>4, <3>1, <3>3, <3>4 DEF Delivered
    <2> QED BY <2>1, <2>2
  <1>8. /\ y \in StreamRecord /\ y.pc = "live" /\ y.incident = x.incident /\ y.replay = {}
        /\ y.queue = t /\ y.overflow = x.overflow
        /\ y.excused = x.excused /\ y.skipped = x.skipped
        /\ y.delivered = w.delivered /\ y.cursor = w.cursor /\ y.seen = w.seen
        /\ y.header = w.header
    BY <1>6, <1>7 DEF StreamRecord, Open
  <1>9. \/ /\ n <= x.delivered /\ y.delivered = x.delivered /\ y.header = x.header
           /\ y.cursor = x.cursor /\ y.seen = x.seen
        \/ Delivered(x, y, n)
    BY <1>7, <1>8 DEF Delivered
  <1>10. HistorySound(y, top) /\ y.delivered = y.cursor /\ y.cursor <= top
    <2>1. CASE Delivered(x, y, n)
      BY <1>3, <1>4, <1>8, <2>1, DeliveredSound
    <2>2. CASE ~Delivered(x, y, n)
      BY <1>4, <1>9, <2>2 DEF Sound, HistorySound, PositionSound
    <2> QED BY <2>1, <2>2
  <1>11. \A k \in DOMAIN y.queue : y.queue[k] \in 1..top
    <2> TAKE k \in DOMAIN y.queue
    <2>1. k \in 1..(Len(x.queue) - 1) /\ y.queue[k] = x.queue[k + 1] /\ Len(x.queue) \in Nat
          /\ DOMAIN x.queue = 1..Len(x.queue)
      BY <1>1, <1>2, <1>8, TailFacts
    <2>2. k + 1 \in DOMAIN x.queue
      BY <2>1
    <2> QED BY <2>1, <2>2 DEF Sound
  <1>12. PositionSound(y, top) /\ FollowsSound(y, top)
    BY <1>4, <1>8, <1>10 DEF PositionSound, FollowsSound, Sound
  <1>13. Sound(y, top)
    BY <1>10, <1>11, <1>12 DEF Sound
  <1>14. Taken(x, y, n)
    BY <1>1, <1>2, <1>4, <1>8, <1>9 DEF Taken
  <1> QED BY <1>6, <1>8, <1>13, <1>14

\* put_nowait changes the queue or the overflow flag of a subscriber, nothing else.
Offered(x, y, i, n) ==
  \/ (x.pc = "closed" \/ x.incident # i) /\ y = x
  \/ /\ x.pc # "closed" /\ x.incident = i
     /\ y.pc = x.pc /\ y.incident = x.incident /\ y.cursor = x.cursor
     /\ y.delivered = x.delivered /\ y.replay = x.replay /\ y.seen = x.seen
     /\ y.excused = x.excused /\ y.skipped = x.skipped /\ y.header = x.header
     /\ \/ Len(x.queue) < BufferSize /\ y.queue = Append(x.queue, n) /\ y.overflow = x.overflow
        \/ ~(Len(x.queue) < BufferSize) /\ y.queue = x.queue /\ y.overflow = TRUE

\* Publishing an event that exists keeps every stream sound.
LEMMA OfferSound ==
  ASSUME NEW s \in Streams, NEW i \in Incidents, NEW n \in Nat, NEW top \in Nat,
         NEW x \in StreamRecord, x = stream[s], Sound(x, top),
         x.incident = i => n \in 1..top, Offer(i, n)
  PROVE  \E y \in StreamRecord : stream'[s] = y /\ Sound(y, top) /\ Offered(x, y, i, n)
  <1>1. PICK y : /\ stream'[s] = y
                 /\ y = IF ~(x.pc # "closed") \/ x.incident # i THEN x
                        ELSE IF Len(x.queue) < BufferSize
                             THEN [x EXCEPT !.queue = Append(x.queue, n)]
                             ELSE [x EXCEPT !.overflow = TRUE]
    BY DEF Offer, Subscribed
  <1>2. PICK q \in Seq(Nat) : q = x.queue
    BY DEF StreamRecord
  <1>3. PICK a \in Seq(Nat) : a = Append(q, n)
    BY AppendFacts
  <1>4. CASE x.pc = "closed" \/ x.incident # i
    BY <1>1, <1>4 DEF Offered
  <1>5. CASE x.pc # "closed" /\ x.incident = i /\ Len(x.queue) < BufferSize
    <2>1. y = [x EXCEPT !.queue = a]
      BY <1>1, <1>2, <1>3, <1>5
    <2>2. /\ y \in StreamRecord /\ y.pc = x.pc /\ y.incident = x.incident
          /\ y.cursor = x.cursor /\ y.delivered = x.delivered /\ y.replay = x.replay
          /\ y.seen = x.seen
          /\ y.excused = x.excused /\ y.skipped = x.skipped /\ y.header = x.header
          /\ y.queue = a /\ y.overflow = x.overflow
      BY <2>1 DEF StreamRecord
    <2>3. \A k \in DOMAIN y.queue : y.queue[k] \in 1..top
      <3> TAKE k \in DOMAIN y.queue
      <3>1. Len(q) \in Nat /\ k \in 1..(Len(q) + 1) /\ DOMAIN q = 1..Len(q)
        BY <1>3, <2>2, AppendFacts
      <3>2. CASE k = Len(q) + 1
        BY <1>3, <1>5, <2>2, <3>2, AppendFacts
      <3>3. CASE k # Len(q) + 1
        <4>1. k \in DOMAIN q /\ y.queue[k] = q[k]
          BY <1>3, <2>2, <3>1, <3>3, AppendFacts
        <4> QED BY <1>2, <4>1 DEF Sound
      <3> QED BY <3>2, <3>3
    <2>4. HistorySound(y, top)
      BY <2>2 DEF Sound, HistorySound
    <2>5. PositionSound(y, top)
      BY <2>2 DEF Sound, PositionSound, Ahead
    <2>6. FollowsSound(y, top)
      BY <1>5, <2>2, NoneAssumption DEF Sound, FollowsSound
    <2>7. Sound(y, top)
      BY <2>3, <2>4, <2>5, <2>6 DEF Sound
    <2>8. Offered(x, y, i, n)
      BY <1>2, <1>3, <1>5, <2>2 DEF Offered
    <2> QED BY <1>1, <2>2, <2>7, <2>8
  <1>6. CASE x.pc # "closed" /\ x.incident = i /\ ~(Len(x.queue) < BufferSize)
    <2>1. y = [x EXCEPT !.overflow = TRUE]
      BY <1>1, <1>6
    <2>2. /\ y \in StreamRecord /\ y.pc = x.pc /\ y.incident = x.incident
          /\ y.cursor = x.cursor /\ y.delivered = x.delivered /\ y.replay = x.replay
          /\ y.seen = x.seen
          /\ y.excused = x.excused /\ y.skipped = x.skipped /\ y.header = x.header
          /\ y.queue = x.queue /\ y.overflow = TRUE
      BY <2>1 DEF StreamRecord
    <2>3. HistorySound(y, top)
      BY <2>2 DEF Sound, HistorySound
    <2>4. PositionSound(y, top)
      BY <2>2 DEF Sound, PositionSound, Ahead
    <2>5. FollowsSound(y, top)
      BY <2>2 DEF Sound, FollowsSound
    <2>6. Sound(y, top)
      BY <2>2, <2>3, <2>4, <2>5 DEF Sound
    <2>7. Offered(x, y, i, n)
      BY <1>6, <2>2 DEF Offered
    <2> QED BY <1>1, <2>2, <2>6, <2>7
  <1> QED BY <1>4, <1>5, <1>6

-----------------------------------------------------------------------------
(***************************************************************************)
(* The reference store.                                                    *)
(***************************************************************************)

SnapshotRecord ==
  [state : States, tenant : Tenants \cup {None}, version : Nat, cursor : Nat]

MemTypes ==
  /\ snapshot \in [Incidents -> SnapshotRecord]
  /\ retained \in [Incidents -> SUBSET Nat]
  /\ last \in [Incidents -> Nat]
  /\ stream \in [Streams -> StreamRecord]

\* An incident that was not created has no events; of another one a run of
\* sequences is kept that ends with the newest.
Suffix(i) ==
  \E n \in 1..last[i] : retained[i] = n..last[i] /\ last[i] - n < RetentionCount
MemProjection ==
  \A i \in Incidents :
    IF snapshot[i] = Absent THEN retained[i] = {} /\ last[i] = 0 ELSE Suffix(i)

\* Everything up to the cursor was received, excused or stepped over because
\* a retention gap named it.
GapFree(x) ==
  \A n \in 1..x.cursor :
    n \in x.excused \cup x.skipped \/ \E k \in DOMAIN x.seen : x.seen[k] = n

\* Everything beyond the delivered event is at hand, unless the queue ran over.
Covering(x, top) ==
  x.pc \in Open /\ ~x.overflow =>
    \A n \in (x.delivered + 1)..top :
      n \in x.replay \cup x.excused \/ \E k \in DOMAIN x.queue : x.queue[k] = n

\* What lies between the delivered event and one in the queue comes before it
\* in the queue, or need not come from there.  A suspended get() relies on
\* this even after an overflow: it does not look at the flag again.
QueueInOrder(x) ==
  x.pc \in Open /\ (~x.overflow \/ x.pc = "waiting") =>
    \A k \in DOMAIN x.queue : \A n \in (x.delivered + 1)..(x.queue[k] - 1) :
      n \in x.replay \cup x.excused \/ \E j \in DOMAIN x.queue : j < k /\ x.queue[j] = n

\* The same for the replay.
ReplayInOrder(x) ==
  x.pc = "replaying" =>
    \A k \in x.replay : \A n \in (x.delivered + 1)..(k - 1) : n \in x.replay \cup x.excused

\* A queue that ran over while get() was suspended is still full.
StillFull(x) == x.pc = "waiting" /\ x.overflow => ~(Len(x.queue) < BufferSize)

Complete(x, top) ==
  /\ GapFree(x) /\ Covering(x, top) /\ QueueInOrder(x) /\ ReplayInOrder(x) /\ StillFull(x)

\* The newest sequence of what a stream follows.
MemTop(i) == IF i = None THEN 0 ELSE last[i]

MemStreams ==
  \A s \in Streams : /\ Sound(stream[s], MemTop(stream[s].incident))
                     /\ Complete(stream[s], MemTop(stream[s].incident))

MemInv == MemTypes /\ MemProjection /\ MemStreams

\* The invariant holds of the empty store.
LEMMA MemInitInv == MemInit => MemInv
  <1> SUFFICES ASSUME MemInit PROVE MemInv
    OBVIOUS
  <1>1. <<>> \in Seq(Nat) /\ DOMAIN <<>> = {}
    OBVIOUS
  <1>2. MemTypes
    <2>1. Absent \in SnapshotRecord
      BY DEF SnapshotRecord, Absent, States
    <2>2. ASSUME NEW s \in Streams
          PROVE  stream[s] \in StreamRecord
      BY <1>1 DEF MemInit, StreamInit, StreamRecord
    <2>3. stream \in [Streams -> StreamRecord]
      <3>1. stream = [s \in Streams |-> stream[s]]
        BY Zenon DEF MemInit, StreamInit
      <3> QED BY <2>2, <3>1
    <2>4. /\ retained \in [Incidents -> SUBSET Nat]
          /\ last \in [Incidents -> Nat]
      BY DEF MemInit
    <2> QED BY <2>1, <2>3, <2>4 DEF MemInit, MemTypes
  <1>3. MemProjection
    BY DEF MemInit, MemProjection
  <1>4. ASSUME NEW s \in Streams
        PROVE  Sound(stream[s], 0) /\ Complete(stream[s], 0) /\ stream[s].incident = None
    <2>1. PICK x : x = stream[s]
      OBVIOUS
    <2>2. /\ x.pc = "closed" /\ x.incident = None /\ x.cursor = 0 /\ x.seen = <<>>
          /\ x.queue = <<>>
      BY <2>1 DEF MemInit, StreamInit
    <2>3. HistorySound(x, 0)
      BY <1>1, <2>2 DEF HistorySound
    <2>4. PositionSound(x, 0) /\ FollowsSound(x, 0)
      BY <2>2 DEF PositionSound, FollowsSound, Open
    <2>5. Sound(x, 0)
      BY <1>1, <2>2, <2>3, <2>4 DEF Sound
    <2>6. Complete(x, 0)
      BY <2>2 DEF Complete, GapFree, Covering, QueueInOrder, ReplayInOrder, StillFull, Open
    <2> QED BY <2>1, <2>2, <2>5, <2>6
  <1>5. MemStreams
    BY <1>4 DEF MemStreams, MemTop
  <1> QED BY <1>2, <1>3, <1>5 DEF MemInv

\* The next sequence goes on from the newest one, whatever was pruned.
LEMMA NextSequenceFacts ==
  ASSUME MemTypes, MemProjection, NEW i \in Incidents
  PROVE  NextSequence(i) = last[i] + 1
  <1>1. last[i] \in Nat
    BY DEF MemTypes
  <1>2. CASE snapshot[i] = Absent
    BY <1>2 DEF MemProjection, NextSequence
  <1>3. CASE snapshot[i] # Absent
    <2>1. PICK n \in 1..last[i] : retained[i] = n..last[i]
      BY <1>3 DEF MemProjection, Suffix
    <2>2. PICK lo \in Nat, hi \in Nat :
            lo = n /\ hi = last[i] /\ lo <= hi /\ retained[i] = lo..hi
      BY <1>1, <2>1
    <2>3. hi \in lo..hi /\ \A m \in lo..hi : m <= hi
      BY <2>2
    <2>4. PICK c : c = CHOOSE k \in lo..hi : \A m \in lo..hi : m <= k
      OBVIOUS
    <2>5. c \in lo..hi /\ \A m \in lo..hi : m <= c
      BY <2>3, <2>4
    <2>6. c = hi
      BY <2>3, <2>5
    <2>7. retained[i] # {}
      BY <2>2, <2>3
    <2> QED BY <2>2, <2>4, <2>6, <2>7 DEF NextSequence
  <1> QED BY <1>2, <1>3

\* Pruning by count and age leaves a run that ends with the new event.
LEMMA PrunedFacts ==
  ASSUME MemTypes, MemProjection, NEW i \in Incidents, NEW hi \in Nat, hi = last[i] + 1,
         NEW S, S \in Pruned(retained[i] \cup {hi})
  PROVE  \E m \in 1..hi : S = m..hi /\ hi - m < RetentionCount
  <1>1. hi = last[i] + 1 /\ hi >= 1
    BY DEF MemTypes
  <1>2. PICK lo \in Nat : lo >= 1 /\ lo <= hi /\ retained[i] \cup {hi} = lo..hi
    <2>1. CASE snapshot[i] = Absent
      <3>1. retained[i] = {} /\ hi = 1
        BY <1>1, <2>1 DEF MemProjection
      <3>2. {hi} = 1..1
        BY <3>1
      <3> QED BY <3>1, <3>2
    <2>2. CASE snapshot[i] # Absent
      <3>1. PICK n \in 1..last[i] : retained[i] = n..last[i]
        BY <2>2 DEF MemProjection, Suffix
      <3>2. last[i] \in Nat
        BY DEF MemTypes
      <3>3. (n..last[i]) \cup {hi} = n..hi
        BY <1>1, <3>2
      <3> QED BY <1>1, <3>1, <3>2, <3>3
    <2> QED BY <2>1, <2>2
  <1>3. PICK m \in lo..hi : S = {n \in lo..hi : n >= m}
    BY <1>1, <1>2 DEF Pruned
  <1>4. S = m..hi /\ m \in Nat
    BY <1>2, <1>3
  <1>5. Cardinality(S) = hi - m + 1
    <2>1. m \in Int /\ hi \in Int /\ ~(m > hi)
      BY <1>2, <1>3
    <2>2. Cardinality(m..hi) = IF m > hi THEN 0 ELSE hi - m + 1
      BY <2>1, FS_Interval
    <2> QED BY <1>4, <2>1, <2>2
  <1>6. Cardinality(S) <= RetentionCount
    BY <1>1 DEF Pruned
  <1>7. hi - m < RetentionCount /\ m \in 1..hi
    BY <1>2, <1>3, <1>4, <1>5, <1>6, RetentionAssumption
  <1> QED BY <1>4, <1>7

\* A stream of another incident, or none, is as complete as before; one that
\* is offered the next event stays complete.
LEMMA OfferComplete ==
  ASSUME NEW x \in StreamRecord, NEW y \in StreamRecord, NEW i \in Incidents,
         NEW top \in Nat, Sound(x, top), Complete(x, top), Offered(x, y, i, top + 1),
         x.pc # "closed" => x.incident = i
  PROVE  Complete(y, top + 1)
  <1>1. x.delivered \in Nat /\ x.cursor \in Nat /\ BufferSize \in Nat
    BY BufferSizeAssumption DEF StreamRecord
  <1>2. CASE x.pc = "closed"
    <2>1. y = x
      BY <1>2 DEF Offered
    <2> QED BY <1>2, <2>1 DEF Complete, GapFree, Covering, QueueInOrder, ReplayInOrder,
                           StillFull, Open
  <1>3. CASE x.pc # "closed"
    <2>1. /\ y.pc = x.pc /\ y.cursor = x.cursor /\ y.delivered = x.delivered
          /\ y.replay = x.replay /\ y.seen = x.seen
          /\ y.excused = x.excused /\ y.skipped = x.skipped
      BY <1>3 DEF Offered
    <2>2. GapFree(y) /\ ReplayInOrder(y)
      BY <2>1 DEF Complete, GapFree, ReplayInOrder
    <2>3. CASE ~(Len(x.queue) < BufferSize)
      <3>1. y.queue = x.queue /\ y.overflow = TRUE
        BY <1>3, <2>3 DEF Offered
      <3>2. Covering(y, top + 1) /\ StillFull(y)
        BY <2>3, <3>1 DEF Covering, StillFull
      <3>3. QueueInOrder(y)
        BY <2>1, <3>1 DEF Complete, QueueInOrder
      <3> QED BY <2>2, <3>2, <3>3 DEF Complete
    <2>4. CASE Len(x.queue) < BufferSize
      <3>1. PICK q \in Seq(Nat), a \in Seq(Nat) :
              /\ q = x.queue /\ a = Append(q, top + 1) /\ a = y.queue
              /\ y.overflow = x.overflow
        BY <1>3, <2>4 DEF Offered, StreamRecord
      <3>2. /\ Len(q) \in Nat /\ DOMAIN q = 1..Len(q) /\ DOMAIN a = 1..(Len(q) + 1)
            /\ a[Len(q) + 1] = top + 1 /\ \A k \in 1..Len(q) : a[k] = q[k]
        BY <3>1, AppendFacts
      <3>3. Len(q) + 1 \in DOMAIN a /\ \A k \in DOMAIN q : k \in DOMAIN a /\ a[k] = q[k]
        BY <3>2
      <3>4. Covering(y, top + 1)
        <4> SUFFICES ASSUME x.pc \in Open, ~x.overflow, NEW n \in (x.delivered + 1)..(top + 1)
                     PROVE  \/ n \in x.replay \cup x.excused
                            \/ \E k \in DOMAIN a : a[k] = n
          BY <2>1, <3>1 DEF Covering
        <4>1. CASE n = top + 1
          BY <3>2, <3>3, <4>1
        <4>2. CASE n # top + 1
          <5>1. n \in (x.delivered + 1)..top
            BY <1>1, <4>2
          <5>2. n \in x.replay \cup x.excused \/ \E k \in DOMAIN q : q[k] = n
            BY <3>1, <5>1 DEF Complete, Covering
          <5> QED BY <3>3, <5>2
        <4> QED BY <4>1, <4>2
      <3>5. StillFull(x) /\ StillFull(y)
        BY <2>1, <2>4, <3>1 DEF Complete, StillFull
      <3>6. QueueInOrder(y)
        <4>0. ASSUME x.pc \in Open, ~x.overflow \/ x.pc = "waiting",
                     NEW k \in DOMAIN a, NEW n \in (x.delivered + 1)..(a[k] - 1)
              PROVE  \/ n \in x.replay \cup x.excused
                     \/ \E j \in DOMAIN a : j < k /\ a[j] = n
          <5>1. CASE k = Len(q) + 1
            <6>1. ~x.overflow
              BY <2>4, <3>5, <4>0 DEF StillFull
            <6>2. n \in (x.delivered + 1)..top
              BY <1>1, <3>2, <5>1
            <6>3. n \in x.replay \cup x.excused \/ \E j \in DOMAIN q : q[j] = n
              BY <3>1, <4>0, <6>1, <6>2 DEF Complete, Covering
            <6>4. \A j \in DOMAIN q : j < k
              BY <3>2, <5>1
            <6> QED BY <3>3, <6>3, <6>4
          <5>2. CASE k # Len(q) + 1
            <6>1. k \in DOMAIN q /\ a[k] = q[k]
              BY <3>2, <5>2
            <6>2. n \in x.replay \cup x.excused \/ \E j \in DOMAIN q : j < k /\ q[j] = n
              BY <3>1, <4>0, <6>1 DEF Complete, QueueInOrder
            <6> QED BY <3>3, <6>2
          <5> QED BY <5>1, <5>2
        <4>1. y.queue = a /\ y.overflow = x.overflow /\ y.pc = x.pc
              /\ y.delivered = x.delivered /\ y.replay = x.replay
              /\ y.excused = x.excused /\ y.skipped = x.skipped
          BY <2>1, <3>1
        <4> QED BY <4>0, <4>1 DEF QueueInOrder
      <3> QED BY <2>2, <3>4, <3>5, <3>6 DEF Complete
    <2> QED BY <2>3, <2>4
  <1> QED BY <1>2, <1>3

\* An append under the lock, whatever command made it.
LEMMA AppendInv ==
  ASSUME MemInv, NEW i \in Incidents, AppendLocked(i),
         snapshot' \in [Incidents -> SnapshotRecord], snapshot'[i] # Absent,
         \A j \in Incidents : j # i => snapshot'[j] = snapshot[j]
  PROVE  MemInv'
  <1> USE DEF MemInv
  <1>1. NextSequence(i) = last[i] + 1 /\ last[i] \in Nat
    BY NextSequenceFacts DEF MemTypes
  <1>2. /\ last' = [last EXCEPT ![i] = last[i] + 1]
        /\ Offer(i, last[i] + 1)
    BY <1>1 DEF AppendLocked
  <1>p. PICK hi \in Nat : hi = last[i] + 1
    BY <1>1
  <1>3. PICK S : S \in Pruned(retained[i] \cup {hi}) /\ retained' = [retained EXCEPT ![i] = S]
    BY <1>1, <1>p, Zenon DEF AppendLocked
  <1>4. PICK m \in 1..hi : S = m..hi /\ hi - m < RetentionCount
    BY <1>3, <1>p, PrunedFacts
  <1>5. /\ last' \in [Incidents -> Nat] /\ last'[i] = last[i] + 1
        /\ \A j \in Incidents : j # i => last'[j] = last[j]
        /\ retained' \in [Incidents -> SUBSET Nat] /\ retained'[i] = S
        /\ \A j \in Incidents : j # i => retained'[j] = retained[j]
    <2>1. S \in SUBSET Nat
      BY <1>1, <1>4
    <2> QED BY <1>1, <1>2, <1>3, <2>1 DEF MemTypes
  <1>6. MemProjection'
    <2> SUFFICES ASSUME NEW j \in Incidents
                 PROVE  (IF snapshot[j] = Absent THEN retained[j] = {} /\ last[j] = 0
                         ELSE Suffix(j))'
      BY Zenon DEF MemProjection
    <2>1. CASE j = i
      <3>1. Suffix(i)'
        <4>1. last'[i] = hi /\ retained'[i] = m..hi
          BY <1>p, <1>4, <1>5
        <4> QED BY <1>4, <4>1 DEF Suffix
      <3> QED BY <2>1, <3>1
    <2>2. CASE j # i
      BY <1>5, <2>2 DEF MemProjection, Suffix
    <2> QED BY <2>1, <2>2
  <1>7. ASSUME NEW s \in Streams
        PROVE  /\ stream'[s] \in StreamRecord
               /\ Sound(stream[s], MemTop(stream[s].incident))'
               /\ Complete(stream[s], MemTop(stream[s].incident))'
    <2>1. PICK x \in StreamRecord : x = stream[s]
      BY DEF MemTypes
    <2>2. PICK old \in Nat, new \in Nat :
            /\ old = MemTop(x.incident) /\ old <= new
            /\ x.incident = i => old = last[i] /\ new = last[i] + 1
            /\ x.incident # i => new = old
            /\ new = IF x.incident = None THEN 0 ELSE last'[x.incident]
      <3>1. CASE x.incident = i
        BY <1>1, <1>5, <3>1, NoneAssumption DEF MemTop
      <3>2. CASE x.incident # i
        <4>1. x.incident \in Incidents => last[x.incident] \in Nat
                                          /\ last'[x.incident] = last[x.incident]
          BY <1>5, <3>2 DEF MemTypes
        <4>2. x.incident \in Incidents \cup {None}
          BY DEF StreamRecord
        <4> QED BY <3>2, <4>1, <4>2, NoneAssumption DEF MemTop
      <3> QED BY <3>1, <3>2
    <2>3. Sound(x, old) /\ Complete(x, old)
      BY <2>1, <2>2 DEF MemStreams
    <2>4. Sound(x, new)
      BY <2>2, <2>3, SoundGrows
    <2>5. x.incident = i => last[i] + 1 \in 1..new
      BY <1>1, <2>2
    <2>6. PICK y \in StreamRecord :
            stream'[s] = y /\ Sound(y, new) /\ Offered(x, y, i, last[i] + 1)
      BY <1>1, <1>2, <2>1, <2>4, <2>5, OfferSound
    <2>7. y.incident = x.incident
      BY <2>6 DEF Offered
    <2>8. Complete(y, new)
      <3>1. CASE x.incident = i
        BY <1>1, <2>2, <2>3, <2>6, <3>1, OfferComplete
      <3>2. CASE x.incident # i
        BY <2>2, <2>3, <2>6, <3>2 DEF Offered
      <3> QED BY <3>1, <3>2
    <2>9. MemTop(stream[s].incident)' = new
      BY <2>2, <2>6, <2>7 DEF MemTop
    <2> QED BY <2>6, <2>8, <2>9
  <1>8. stream' \in [Streams -> StreamRecord]
    <2>1. stream' = [s \in Streams |-> stream'[s]]
      BY <1>2 DEF Offer
    <2> QED BY <1>7, <2>1
  <1>9. MemTypes'
    BY <1>5, <1>8 DEF MemTypes
  <1>10. MemStreams'
    BY <1>7 DEF MemStreams
  <1> QED BY <1>6, <1>9, <1>10

\* A step of one stream leaves the store and the other streams alone.
LEMMA OneMemStream ==
  ASSUME MemInv, NEW s \in Streams, NEW y \in StreamRecord, Set(s, y), UNCHANGED memory,
         Sound(y, MemTop(y.incident)), Complete(y, MemTop(y.incident))
  PROVE  MemInv'
  <1> USE DEF MemInv
  <1>1. UNCHANGED <<snapshot, retained, last>>
    BY DEF memory
  <1>2. /\ stream' \in [Streams -> StreamRecord] /\ stream'[s] = y
        /\ \A o \in Streams : o # s => stream'[o] = stream[o]
    BY DEF Set, MemTypes
  <1>3. MemTypes'
    BY <1>1, <1>2 DEF MemTypes
  <1>4. MemProjection'
    BY <1>1 DEF MemProjection, Suffix
  <1>5. ASSUME NEW o \in Streams
        PROVE  /\ Sound(stream[o], MemTop(stream[o].incident))'
               /\ Complete(stream[o], MemTop(stream[o].incident))'
    <2>1. MemTop(stream[o].incident)' = MemTop(stream'[o].incident)
      BY <1>1 DEF MemTop
    <2>2. CASE o = s
      BY <1>2, <2>1, <2>2
    <2>3. CASE o # s
      BY <1>2, <2>1, <2>3 DEF MemStreams
    <2> QED BY <2>2, <2>3
  <1>6. MemStreams'
    BY <1>5 DEF MemStreams
  <1> QED BY <1>3, <1>4, <1>6

\* What a stream that is not open has to do with completeness.
LEMMA CompleteUnlessOpen ==
  ASSUME NEW y \in StreamRecord, NEW top \in Nat, y.pc \notin Open, GapFree(y)
  PROVE  Complete(y, top)
  BY DEF Complete, Covering, QueueInOrder, ReplayInOrder, StillFull, Open

\* A client owes its history to the cursor it presents.
LEMMA OpenMemoryStreamInv ==
  ASSUME MemInv, NEW s \in Streams, NEW i \in Incidents, OpenMemoryStream(s, i)
  PROVE  MemInv'
  <1>1. PICK start \in Nat : Subscribe(s, i, start)
    BY StartCursorsAssumption DEF OpenMemoryStream
  <1>2. PICK x \in StreamRecord : x = stream[s]
    BY DEF MemInv, MemTypes
  <1>3. PICK top \in Nat : top = last[i] /\ top >= 1
    <2>1. snapshot[i] # Absent /\ last[i] \in Nat
      BY DEF OpenMemoryStream, MemInv, MemTypes
    <2>2. \E n \in 1..last[i] : TRUE
      BY <2>1 DEF MemInv, MemProjection, Suffix
    <2> QED BY <2>1, <2>2
  <1>4. x.incident \in {None, i} /\ UNCHANGED memory
    BY <1>2 DEF OpenMemoryStream
  <1>5. Sound(x, top) /\ GapFree(x)
    <2>1. Sound(x, MemTop(x.incident)) /\ GapFree(x)
      BY <1>2 DEF MemInv, MemStreams, Complete
    <2>2. MemTop(x.incident) = 0 \/ MemTop(x.incident) = top
      BY <1>3, <1>4, NoneAssumption DEF MemTop
    <2> QED BY <2>1, <2>2, SoundGrows
  <1>6. PICK y \in StreamRecord :
          /\ Set(s, y) /\ Sound(y, top) /\ y.pc = "subscribed" /\ y.incident = i
          /\ y.seen = x.seen
          /\ \/ y.cursor = x.cursor /\ y.excused = x.excused /\ y.skipped = x.skipped
             \/ y.cursor = start /\ y.excused = 1..start
    BY <1>1, <1>2, <1>3, <1>4, <1>5, SubscribeSound
  <1>7. GapFree(y)
    BY <1>5, <1>6 DEF GapFree
  <1>8. Complete(y, top)
    BY <1>6, <1>7, CompleteUnlessOpen DEF Open
  <1>9. MemTop(y.incident) = top
    BY <1>3, <1>6, NoneAssumption DEF MemTop
  <1> QED BY <1>4, <1>6, <1>8, <1>9, OneMemStream

\* Between the cursor and what is read nothing is left out unannounced.
LEMMA ReadComplete ==
  ASSUME NEW x \in StreamRecord, NEW y \in StreamRecord, NEW lo \in Nat, NEW top \in Nat,
         GapFree(x), Sound(y, top), y.seen = x.seen, Read(x, y, lo, top)
  PROVE  Complete(y, top)
  <1>1. x.cursor \in Nat /\ y.cursor = x.cursor /\ y.delivered = x.cursor
    BY DEF Read, StreamRecord
  <1>2. GapFree(y)
    BY <1>1 DEF GapFree, Read
  <1>3. \A n \in (y.delivered + 1)..top : n \in y.replay \cup y.excused
    <2> TAKE n \in (y.delivered + 1)..top
    <2>1. n \in Nat /\ n > x.cursor /\ n <= top
      BY <1>1
    <2>2. CASE n >= lo
      BY <2>1, <2>2 DEF Read
    <2>3. CASE ~(n >= lo)
      <3>1. ~(x.cursor >= lo - 1) /\ n \in 1..(lo - 1)
        BY <1>1, <2>1, <2>3
      <3> QED BY <3>1 DEF Read
    <2> QED BY <2>2, <2>3
  <1>4. Covering(y, top)
    BY <1>3 DEF Covering
  <1>5. QueueInOrder(y)
    <2>1. \A k \in DOMAIN y.queue : y.queue[k] \in Nat /\ y.queue[k] <= top
      BY DEF Sound
    <2>2. \A k \in DOMAIN y.queue : \A n \in (y.delivered + 1)..(y.queue[k] - 1) :
            n \in (y.delivered + 1)..top
      BY <1>1, <2>1
    <2> QED BY <1>3, <2>2 DEF QueueInOrder
  <1>6. ReplayInOrder(y)
    <2>1. \A k \in y.replay : k \in Nat /\ k <= top
      BY DEF Read
    <2>2. \A k \in y.replay : \A n \in (y.delivered + 1)..(k - 1) :
            n \in (y.delivered + 1)..top
      BY <1>1, <2>1
    <2> QED BY <1>3, <2>2 DEF ReplayInOrder
  <1>7. StillFull(y)
    BY DEF StillFull, Read
  <1> QED BY <1>2, <1>4, <1>5, <1>6, <1>7 DEF Complete

\* replay() of the reference store.
LEMMA ReplayEventsInv ==
  ASSUME MemInv, NEW s \in Streams, ReplayEvents(s)
  PROVE  MemInv'
  <1>1. PICK x \in StreamRecord : x = stream[s]
    BY DEF MemInv, MemTypes
  <1>2. PICK i \in Incidents : i = x.incident
    <2>1. x.pc # "closed"
      BY <1>1 DEF ReplayEvents
    <2>2. x.incident # None
      BY <1>1, <2>1 DEF MemInv, MemStreams, Sound, FollowsSound
    <2> QED BY <2>2 DEF StreamRecord
  <1>3. PICK top \in Nat : top = last[i] /\ MemTop(x.incident) = top
    BY <1>2, NoneAssumption DEF MemInv, MemTypes, MemTop
  <1>4. Sound(x, top) /\ Complete(x, top) /\ top >= 1
    <2>1. Sound(x, top) /\ Complete(x, top)
      BY <1>1, <1>3 DEF MemInv, MemStreams
    <2> QED BY <1>2, <2>1, NoneAssumption DEF Sound, FollowsSound
  <1>5. PICK lo \in Nat : 1 <= lo /\ lo <= top /\ retained[i] = lo..top
    <2>1. snapshot[i] # Absent
      BY <1>3, <1>4 DEF MemInv, MemProjection
    <2>2. PICK n \in 1..last[i] : retained[i] = n..last[i]
      BY <2>1 DEF MemInv, MemProjection, Suffix
    <2> QED BY <1>3, <2>2
  <1>6. NextSequence(i) - 1 = top
    BY <1>3, NextSequenceFacts DEF MemInv
  <1>7. Replay(s, lo..top, top) /\ UNCHANGED memory
    BY <1>1, <1>2, <1>5, <1>6 DEF ReplayEvents
  <1>8. PICK y \in StreamRecord :
          /\ Set(s, y) /\ Sound(y, top)
          /\ y.incident = x.incident /\ y.seen = x.seen /\ y.queue = x.queue
          /\ y.overflow = x.overflow
          /\ Refused(x, y) \/ Gap(x, y, lo) \/ Read(x, y, lo, top)
    BY <1>1, <1>4, <1>5, <1>7, ReplaySound
  <1>9. GapFree(x)
    BY <1>4 DEF Complete
  <1>10. Complete(y, top)
    <2>1. CASE Refused(x, y)
      <3>1. y.pc \notin Open /\ GapFree(y)
        BY <2>1 DEF Refused, GapFree, Open
      <3> QED BY <3>1, CompleteUnlessOpen
    <2>2. CASE Gap(x, y, lo)
      <3>1. y.pc \notin Open /\ GapFree(y)
        BY <2>2 DEF Gap, GapFree, Open
      <3> QED BY <3>1, CompleteUnlessOpen
    <2>3. CASE Read(x, y, lo, top)
      BY <1>8, <1>9, <2>3, ReadComplete
    <2> QED BY <1>8, <2>1, <2>2, <2>3
  <1>11. MemTop(y.incident) = top
    BY <1>3, <1>8
  <1> QED BY <1>7, <1>8, <1>10, <1>11, OneMemStream

\* Delivering event n leaves no gap when what lies before it is excused.
LEMMA DeliveredGapFree ==
  ASSUME NEW x \in StreamRecord, NEW y \in StreamRecord, NEW n \in Nat, GapFree(x),
         x.delivered = x.cursor, Delivered(x, y, n),
         y.excused = x.excused, y.skipped = x.skipped,
         \A m \in (x.delivered + 1)..(n - 1) : m \in x.excused
  PROVE  GapFree(y)
  <1>1. PICK q \in Seq(Nat), a \in Seq(Nat) :
          q = x.seen /\ a = y.seen /\ a = Append(q, n) /\ y.cursor = n
    BY DEF Delivered, StreamRecord
  <1>2. /\ Len(q) \in Nat /\ DOMAIN q = 1..Len(q) /\ DOMAIN a = 1..(Len(q) + 1)
        /\ a[Len(q) + 1] = n /\ \A k \in 1..Len(q) : a[k] = q[k]
    BY <1>1, AppendFacts
  <1>3. Len(q) + 1 \in DOMAIN a /\ \A k \in DOMAIN q : k \in DOMAIN a /\ a[k] = q[k]
    BY <1>2
  <1>4. x.cursor \in Nat
    BY DEF StreamRecord
  <1>5. ASSUME NEW m \in 1..n
        PROVE  m \in y.excused \cup y.skipped \/ \E k \in DOMAIN a : a[k] = m
    <2>1. CASE m = n
      BY <1>2, <1>3, <2>1
    <2>2. CASE m <= x.cursor
      <3>1. m \in 1..x.cursor
        BY <1>4, <2>2
      <3>2. m \in x.excused \cup x.skipped \/ \E k \in DOMAIN q : q[k] = m
        BY <1>1, <3>1 DEF GapFree
      <3> QED BY <1>3, <3>2
    <2>3. CASE m # n /\ ~(m <= x.cursor)
      <3>1. m \in (x.delivered + 1)..(n - 1)
        BY <1>4, <2>3
      <3> QED BY <3>1
    <2> QED BY <2>1, <2>2, <2>3
  <1> QED BY <1>1, <1>5 DEF GapFree

\* Yielding the least replayed event keeps the stream complete.
LEMMA YieldComplete ==
  ASSUME NEW x \in StreamRecord, NEW y \in StreamRecord, NEW top \in Nat, NEW n \in x.replay,
         Sound(x, top), Complete(x, top), x.pc = "replaying", y.pc = "replaying",
         y.queue = x.queue, y.overflow = x.overflow,
         y.excused = x.excused, y.skipped = x.skipped,
         Delivered(x, y, n), \A m \in x.replay : n <= m, y.replay = x.replay \ {n}
  PROVE  Complete(y, top)
  <1>1. /\ n \in Nat /\ x.delivered \in Nat /\ x.delivered = x.cursor /\ y.delivered = n
        /\ n > x.delivered
    BY DEF Delivered, StreamRecord, Sound, PositionSound, Open
  <1>2. \A m \in (x.delivered + 1)..(n - 1) : m \in x.excused
    <2> TAKE m \in (x.delivered + 1)..(n - 1)
    <2>1. m \in x.replay \cup x.excused
      BY DEF Complete, ReplayInOrder
    <2>2. ~(n <= m)
      BY <1>1
    <2> QED BY <2>1, <2>2
  <1>3. GapFree(y)
    BY <1>1, <1>2, DeliveredGapFree DEF Complete
  <1>4. \A m \in Nat : m > n /\ m \in x.replay \cup x.excused => m \in y.replay \cup y.excused
    BY <1>1
  <1>5. \A hi \in Nat : \A m \in (n + 1)..hi : m \in Nat /\ m > n /\ m \in (x.delivered + 1)..hi
    BY <1>1
  <1>6. Covering(y, top)
    <2> SUFFICES ASSUME ~x.overflow, NEW m \in (n + 1)..top
                 PROVE  m \in y.replay \cup y.excused \/ \E k \in DOMAIN x.queue : x.queue[k] = m
      BY <1>1 DEF Covering
    <2>1. m \in Nat /\ m > n /\ m \in (x.delivered + 1)..top
      BY <1>5
    <2>2. m \in x.replay \cup x.excused \/ \E k \in DOMAIN x.queue : x.queue[k] = m
      BY <2>1 DEF Complete, Covering, Open
    <2> QED BY <1>4, <2>1, <2>2
  <1>7. QueueInOrder(y)
    <2>1. ASSUME ~x.overflow, NEW k \in DOMAIN x.queue, NEW m \in (n + 1)..(x.queue[k] - 1)
          PROVE  \/ m \in y.replay \cup y.excused
                 \/ \E j \in DOMAIN x.queue : j < k /\ x.queue[j] = m
      <3>1. x.queue[k] \in Nat
        BY DEF StreamRecord
      <3>2. m \in Nat /\ m > n /\ m \in (x.delivered + 1)..(x.queue[k] - 1)
        BY <1>1, <2>1, <3>1
      <3>3. \/ m \in x.replay \cup x.excused
            \/ \E j \in DOMAIN x.queue : j < k /\ x.queue[j] = m
        BY <2>1, <3>2 DEF Complete, QueueInOrder, Open
      <3> QED BY <1>4, <3>2, <3>3
    <2> QED BY <1>1, <2>1 DEF QueueInOrder
  <1>8. ReplayInOrder(y)
    <2>1. ASSUME NEW k \in y.replay, NEW m \in (n + 1)..(k - 1)
          PROVE  m \in y.replay \cup y.excused
      <3>1. k \in x.replay /\ k \in Nat
        BY DEF StreamRecord
      <3>2. m \in Nat /\ m > n /\ m \in (x.delivered + 1)..(k - 1)
        BY <1>1, <2>1, <3>1
      <3>3. m \in x.replay \cup x.excused
        BY <3>1, <3>2 DEF Complete, ReplayInOrder
      <3> QED BY <1>4, <3>2, <3>3
    <2> QED BY <1>1, <2>1 DEF ReplayInOrder
  <1>9. StillFull(y)
    BY DEF StillFull
  <1> QED BY <1>3, <1>6, <1>7, <1>8, <1>9 DEF Complete

\* Moving on, waiting and ending change nothing that a client is owed.
LEMMA MoveComplete ==
  ASSUME NEW x \in StreamRecord, NEW y \in StreamRecord, NEW top \in Nat,
         Complete(x, top), Moved(x, y), x.pc \in Open,
         \/ y.pc = "closed"
         \/ y.pc = "live" /\ x.pc = "replaying"
         \/ y.pc = "live" /\ x.pc = "waiting" /\ x.queue = <<>>
         \/ y.pc = "waiting" /\ x.pc = "live" /\ ~x.overflow
  PROVE  Complete(y, top)
  <1>1. GapFree(y)
    BY DEF Complete, GapFree, Moved
  <1>2. CASE y.pc = "closed"
    <2>1. y.pc \notin Open
      BY <1>2 DEF Open
    <2> QED BY <1>1, <2>1, CompleteUnlessOpen
  <1>3. CASE y.pc # "closed"
    <2>1. y.pc \in {"live", "waiting"} /\ y.pc \in Open /\ (y.pc = "waiting" => ~x.overflow)
      BY <1>3 DEF Open
    <2>2. Covering(y, top)
      BY <2>1 DEF Complete, Covering, Moved
    <2>3. QueueInOrder(y)
      BY <2>1 DEF Complete, QueueInOrder, Moved
    <2>4. ReplayInOrder(y) /\ StillFull(y)
      BY <2>1 DEF ReplayInOrder, StillFull, Moved
    <2> QED BY <1>1, <2>2, <2>3, <2>4 DEF Complete
  <1> QED BY <1>2, <1>3

\* The head of the queue is next, or already delivered: dropping the one and
\* delivering the other leaves no gap, even if the queue ran over meanwhile.
LEMMA TakeComplete ==
  ASSUME NEW x \in StreamRecord, NEW y \in StreamRecord, NEW top \in Nat, NEW n \in Nat,
         Sound(x, top), Complete(x, top), Taken(x, y, n)
  PROVE  Complete(y, top)
  <1> USE DEF Taken
  <1>1. /\ x.delivered \in Nat /\ y.delivered \in Nat /\ x.pc \in Open
        /\ x.delivered = x.cursor
    BY DEF StreamRecord, Open, Sound, PositionSound
  <1>2. PICK q \in Seq(Nat), t \in Seq(Nat) : q = x.queue /\ t = y.queue /\ t = Tail(q)
    BY DEF StreamRecord
  <1>3. /\ q # <<>> /\ Len(q) \in Nat /\ Len(q) >= 1 /\ DOMAIN q = 1..Len(q)
        /\ DOMAIN t = 1..(Len(q) - 1) /\ n = q[1]
        /\ \A k \in 1..(Len(q) - 1) : t[k] = q[k + 1]
    BY <1>2, TailFacts
  <1>4. x.delivered <= y.delivered /\ n <= y.delivered
    BY <1>1 DEF Delivered
  <1>5. ASSUME NEW k \in DOMAIN q, NEW m, q[k] = m, m \in Nat, m > y.delivered
        PROVE  k - 1 \in DOMAIN t /\ t[k - 1] = m
    <2>1. k # 1
      BY <1>1, <1>3, <1>4, <1>5
    <2>2. k \in Nat /\ k - 1 \in 1..(Len(q) - 1)
      BY <1>3, <2>1
    <2>3. t[k - 1] = q[(k - 1) + 1]
      BY <1>3, <2>2
    <2> QED BY <1>3, <1>5, <2>2, <2>3
  <1>6. GapFree(y)
    <2>1. CASE Delivered(x, y, n)
      <3>1. /\ 1 \in DOMAIN x.queue /\ x.queue[1] = n
            /\ \A j \in DOMAIN x.queue : ~(j < 1)
        BY <1>2, <1>3
      <3>2. ASSUME NEW m \in (x.delivered + 1)..(n - 1)
            PROVE  m \in x.excused
        <4>1. x.pc \in Open /\ (~x.overflow \/ x.pc = "waiting") /\ QueueInOrder(x)
          BY <1>1, Zenon DEF Complete
        <4>2. \A k \in DOMAIN x.queue : \A j \in (x.delivered + 1)..(x.queue[k] - 1) :
                \/ j \in x.replay \cup x.excused
                \/ \E l \in DOMAIN x.queue : l < k /\ x.queue[l] = j
          BY <4>1, Zenon DEF QueueInOrder
        <4>3. \/ m \in x.replay \cup x.excused
              \/ \E l \in DOMAIN x.queue : l < 1 /\ x.queue[l] = m
          BY <3>1, <3>2, <4>2, Zenon
        <4> QED BY <3>1, <4>3, Zenon
      <3> QED BY <1>1, <2>1, <3>2, DeliveredGapFree DEF Complete
    <2>2. CASE ~Delivered(x, y, n)
      BY <2>2 DEF Complete, GapFree
    <2> QED BY <2>1, <2>2
  <1>7. Covering(y, top)
    <2>1. ASSUME ~x.overflow, NEW m \in (y.delivered + 1)..top
          PROVE  m \in y.replay \cup y.excused \/ \E k \in DOMAIN t : t[k] = m
      <3>1. m \in Nat /\ m > y.delivered /\ m \in (x.delivered + 1)..top
        BY <1>1, <1>4
      <3>2. m \in x.replay \cup x.excused \/ \E k \in DOMAIN q : q[k] = m
        BY <1>1, <1>2, <2>1, <3>1 DEF Complete, Covering
      <3>3. CASE \E k \in DOMAIN q : q[k] = m
        <4>1. PICK k \in DOMAIN q : q[k] = m
          BY <3>3
        <4>2. k - 1 \in DOMAIN t /\ t[k - 1] = m
          BY <1>5, <3>1, <4>1
        <4> QED BY <4>2
      <3> QED BY <3>2, <3>3
    <2> QED BY <1>2, <2>1 DEF Covering
  <1>8. QueueInOrder(y)
    <2>1. ASSUME ~x.overflow, NEW k \in DOMAIN t, NEW m \in (y.delivered + 1)..(t[k] - 1)
          PROVE  m \in y.replay \cup y.excused \/ \E j \in DOMAIN t : j < k /\ t[j] = m
      <3>1. k \in Nat /\ k + 1 \in DOMAIN q /\ t[k] = q[k + 1] /\ t[k] \in Nat
        BY <1>3
      <3>2. m \in Nat /\ m > y.delivered /\ m \in (x.delivered + 1)..(q[k + 1] - 1)
        BY <1>1, <1>4, <3>1
      <3>3. \/ m \in x.replay \cup x.excused
            \/ \E j \in DOMAIN q : j < k + 1 /\ q[j] = m
        BY <1>1, <1>2, <2>1, <3>1, <3>2 DEF Complete, QueueInOrder
      <3>4. CASE \E j \in DOMAIN q : j < k + 1 /\ q[j] = m
        <4>1. PICK j \in DOMAIN q : j < k + 1 /\ q[j] = m
          BY <3>4
        <4>2. j - 1 \in DOMAIN t /\ t[j - 1] = m
          BY <1>5, <3>2, <4>1
        <4>3. j - 1 < k
          BY <1>3, <3>1, <4>1
        <4> QED BY <4>2, <4>3
      <3> QED BY <3>3, <3>4
    <2> QED BY <1>2, <2>1 DEF QueueInOrder
  <1>9. ReplayInOrder(y) /\ StillFull(y)
    BY DEF ReplayInOrder, StillFull
  <1> QED BY <1>6, <1>7, <1>8, <1>9 DEF Complete

\* Every step of an open connection.
LEMMA StreamStepInv ==
  ASSUME MemInv, NEW s \in Streams, UNCHANGED memory,
         StreamStep(s) \/ Heartbeat(s) \/ Disconnect(s)
  PROVE  MemInv'
  <1>1. PICK x \in StreamRecord : x = stream[s]
    BY DEF MemInv, MemTypes
  <1>2. PICK top \in Nat : top = MemTop(x.incident)
    <2>1. x.incident \in Incidents => last[x.incident] \in Nat
      BY DEF MemInv, MemTypes
    <2>2. x.incident \in Incidents \cup {None}
      BY DEF StreamRecord
    <2> QED BY <2>1, <2>2, NoneAssumption DEF MemTop
  <1>3. Sound(x, top) /\ Complete(x, top)
    BY <1>1, <1>2 DEF MemInv, MemStreams
  <1>4. CASE YieldReplay(s)
    <2>1. PICK y \in StreamRecord, n \in x.replay :
           /\ Set(s, y) /\ Sound(y, top)
           /\ x.pc = "replaying" /\ y.pc = "replaying" /\ y.incident = x.incident
           /\ y.queue = x.queue /\ y.overflow = x.overflow
           /\ y.excused = x.excused /\ y.skipped = x.skipped
           /\ Delivered(x, y, n) /\ (\A m \in x.replay : n <= m)
           /\ y.replay = x.replay \ {n}
      BY <1>1, <1>3, <1>4, YieldReplaySound
    <2>2. Complete(y, top)
      BY <1>3, <2>1, YieldComplete
    <2> QED BY <1>2, <2>1, <2>2, OneMemStream
  <1>5. CASE Take(s)
    <2>1. PICK y \in StreamRecord, n \in Nat :
           Set(s, y) /\ Sound(y, top) /\ Taken(x, y, n)
      BY <1>1, <1>3, <1>5, TakeSound
    <2>2. Complete(y, top)
      BY <1>3, <2>1, TakeComplete
    <2>3. y.incident = x.incident
      BY <2>1 DEF Taken
    <2> QED BY <1>2, <2>1, <2>2, <2>3, OneMemStream
  <1>6. CASE EndReplay(s) \/ Wait(s) \/ Heartbeat(s) \/ SlowConsumer(s) \/ Disconnect(s)
    <2>1. PICK y \in StreamRecord :
           /\ Set(s, y) /\ Sound(y, top) /\ Moved(x, y) /\ x.pc \in Open
           /\ \/ y.pc = "closed"
              \/ y.pc = "live" /\ x.pc = "replaying"
              \/ y.pc = "live" /\ x.pc = "waiting" /\ x.queue = <<>>
              \/ y.pc = "waiting" /\ x.pc = "live" /\ ~x.overflow
      BY <1>1, <1>3, <1>6, MoveSound
    <2>2. Complete(y, top)
      BY <1>3, <2>1, MoveComplete
    <2>3. y.incident = x.incident
      BY <2>1 DEF Moved
    <2> QED BY <1>2, <2>1, <2>2, <2>3, OneMemStream
  <1> QED BY <1>4, <1>5, <1>6 DEF StreamStep

\* A command appends one event to an incident of its caller.
LEMMA CommandInv ==
  ASSUME MemInv, NEW q \in Request, Command(q)
  PROVE  MemInv'
  <1>1. snapshot \in [Incidents -> SnapshotRecord]
    BY DEF MemInv, MemTypes
  <1>2. q.tenant \in Tenants /\ q.version \in Nat /\ q.tenant # None
    BY RequestFields, NoneAssumption
  <1>3. ASSUME NEW i \in Incidents, Create(i, q)
        PROVE  MemInv'
    <2>1. PICK v : /\ v = [state |-> "NEW", tenant |-> q.tenant, version |-> 0,
                           cursor |-> NextSequence(i)]
                   /\ snapshot' = [snapshot EXCEPT ![i] = v]
      BY <1>3, Zenon DEF Create
    <2>2. NextSequence(i) \in Nat
      BY NextSequenceFacts DEF MemInv, MemTypes
    <2>3. v \in SnapshotRecord /\ v.tenant = q.tenant
      BY <1>2, <2>1, <2>2 DEF SnapshotRecord, States
    <2>4. v # Absent
      BY <1>2, <2>3 DEF Absent
    <2>5. AppendLocked(i)
      BY <1>3 DEF Create
    <2> QED BY <1>1, <2>1, <2>3, <2>4, <2>5, AppendInv
  <1>4. ASSUME q.op # "create", Cancel(q) \/ Feedback(q) \/ Approval(q)
        PROVE  MemInv'
    <2>1. PICK i \in Incidents : i = q.incident
      BY <1>4, RequestFields
    <2>2. Owns(q) /\ AppendLocked(i)
      BY <1>4, <2>1 DEF Cancel, Feedback, Approval
    <2>3. snapshot[i].tenant = q.tenant
      BY <2>1, <2>2 DEF Owns
    <2>4. snapshot[i] # Absent
      BY <1>2, <2>3 DEF Absent
    <2>5. CASE Cancel(q)
      <3>1. PICK v : /\ v = [snapshot[i] EXCEPT !.state = "CANCELLED",
                               !.version = q.version + 1, !.cursor = NextSequence(i)]
                     /\ snapshot' = [snapshot EXCEPT ![i] = v]
        BY <2>1, <2>5 DEF Cancel
      <3>2. NextSequence(i) \in Nat
        BY NextSequenceFacts DEF MemInv, MemTypes
      <3>3. v \in SnapshotRecord /\ v.tenant = q.tenant
        <4>1. PICK w \in SnapshotRecord : w = snapshot[i]
          BY <1>1
        <4>2. PICK m \in Nat, c \in Nat : m = q.version + 1 /\ c = NextSequence(i)
          BY <1>2, <3>2
        <4>3. v = [w EXCEPT !.state = "CANCELLED", !.version = m, !.cursor = c]
          BY <3>1, <4>1, <4>2
        <4> QED BY <2>3, <4>1, <4>3 DEF SnapshotRecord, States
      <3>4. v # Absent
        BY <1>2, <3>3 DEF Absent
      <3> QED BY <1>1, <2>2, <3>1, <3>3, <3>4, AppendInv
    <2>6. CASE UNCHANGED snapshot
      BY <1>1, <2>2, <2>4, <2>6, AppendInv
    <2> QED BY <1>4, <2>5, <2>6 DEF Feedback, Approval
  <1> QED BY <1>3, <1>4 DEF Command

\* Every step of the reference store and of its streams.
LEMMA MemStepInv ==
  ASSUME MemInv, [MemNext]_memVars
  PROVE  MemInv'
  <1>1. ASSUME NEW i \in Incidents, NEW a \in ActionIds, NEW d \in ActionDigests,
               Propose(i, a, d)
        PROVE  MemInv'
    BY <1>1 DEF Propose, MemInv, MemTypes, MemProjection, Suffix, MemStreams, MemTop
  <1>2. CASE UNCHANGED memVars
    BY <1>2 DEF memVars, memory, MemInv, MemTypes, MemProjection, Suffix, MemStreams, MemTop
  <1>3. ASSUME NEW s \in Streams, Serve(s) PROVE MemInv'
    BY <1>3, ReplayEventsInv, StreamStepInv DEF Serve
  <1>4. ASSUME NEW s \in Streams, (Heartbeat(s) \/ Disconnect(s)) /\ UNCHANGED memory
        PROVE  MemInv'
    BY <1>4, StreamStepInv
  <1> QED BY <1>1, <1>2, <1>3, <1>4, CommandInv, OpenMemoryStreamInv DEF MemNext

\* MemInv is an invariant of MemoryIncidentStore and of the streams on it.
THEOREM MemoryInvariant == MemSpec => []MemInv
  <1>1. MemInit => MemInv
    BY MemInitInv
  <1>2. MemInv /\ [MemNext]_memVars => MemInv'
    BY MemStepInv
  <1> QED BY <1>1, <1>2, PTL DEF MemSpec

\* Of the reference store: pruning keeps a suffix of the sequences, an open
\* stream holds all that its client is owed, and no client ever has a hole or
\* a repetition in what it received that it was not told of, other than the
\* event a retention gap named and the client resumed behind.
THEOREM ReferenceStreamsAreSound == MemSpec => []ReferenceStreamSound
  <1>1. MemInv => ReferenceStreamSound
    <2> SUFFICES ASSUME MemInv PROVE ReferenceStreamSound
      OBVIOUS
    <2>1. ASSUME NEW s \in Streams
          PROVE  /\ stream[s] \in StreamRecord
                 /\ Sound(stream[s], MemTop(stream[s].incident))
                 /\ Complete(stream[s], MemTop(stream[s].incident))
      BY DEF MemInv, MemTypes, MemStreams
    <2>2. NoGapButEarliest
      BY <2>1 DEF NoGapButEarliest, Seen, Complete, GapFree
    <2>3. DeliveredInOrder
      BY <2>1 DEF DeliveredInOrder, Sound, HistorySound
    <2>4. RetainedIsSuffix
      BY DEF RetainedIsSuffix, MemInv, MemProjection, Suffix
    <2>5. MemStreamCovers
      <3> SUFFICES ASSUME NEW s \in Streams, stream[s].pc \in Open, ~stream[s].overflow,
                          NEW n \in (stream[s].delivered + 1)..last[stream[s].incident]
                   PROVE  \/ n \in stream[s].replay \cup stream[s].excused
                          \/ \E k \in DOMAIN stream[s].queue : stream[s].queue[k] = n
        BY DEF MemStreamCovers, Open
      <3>1. stream[s].incident # None
        BY <2>1 DEF Sound, FollowsSound, Open
      <3>2. MemTop(stream[s].incident) = last[stream[s].incident]
        BY <3>1 DEF MemTop
      <3> QED BY <2>1, <3>2 DEF Complete, Covering
    <2> QED BY <2>2, <2>3, <2>4, <2>5 DEF ReferenceStreamSound
  <1> QED BY <1>1, MemoryInvariant, PTL

-----------------------------------------------------------------------------
(***************************************************************************)
(* The Control API: what its store promises to the streams.                *)
(***************************************************************************)

\* An incident that exists has its creation event.
Begun == \A i \in Incidents : incident[i] # AbsentRow => incident[i].cursor >= 1

\* The handler of an event still has its incident and its sequence in hand,
\* and what a handler is about to publish is in the projection.
EventOwner ==
  \A i \in Incidents : \A e \in projection[i] : e.by # None =>
    target[e.by] = i /\ row[e.by].cursor + 1 = e.seq
InRange ==
  \A r \in Requests : pc[r] = "committed" =>
    row[r].cursor + 1 <= incident[target[r]].cursor

StoreInv == Inv /\ Begun /\ EventOwner /\ InRange

\* The store a run starts from.
LEMMA StoreInit == Init => StoreInv
  <1> SUFFICES ASSUME Init PROVE StoreInv
    OBVIOUS
  <1>1. Begun
    BY DEF Init, Begun, NewRow
  <1>2. EventOwner
    BY DEF Init, EventOwner, CreatedEvent
  <1>3. InRange
    BY DEF Init, InRange
  <1> QED BY <1>1, <1>2, <1>3, InitInv DEF StoreInv

\* After COMMIT a handler keeps its locals, and the only things it does are
\* to publish or to fail; nobody else reaches COMMIT in such a step.
HandlerKept(o) ==
  /\ target'[o] = target[o] /\ row'[o] = row[o]
  /\ \/ pc'[o] = pc[o] /\ reply'[o] = reply[o]
     \/ pc[o] = "committed" /\ pc'[o] = "done" /\ reply'[o].status = "failed"
     \/ pc[o] = "committed" /\ pc'[o] = "done" /\ Publish(o)

\* A step that moves handler r only, and not to "committed".
LEMMA OtherHandlers ==
  ASSUME TypeOK, NEW r \in Requests, NEW p, NEW a, pc[r] \notin {"committed", "done"},
         p # "committed", pc' = [pc EXCEPT ![r] = p],
         reply' = [reply EXCEPT ![r] = a] \/ reply' = reply,
         target' = target \/ (\E i : target' = [target EXCEPT ![r] = i]),
         row' = row \/ (\E w : row' = [row EXCEPT ![r] = w])
  PROVE  \A o \in Requests : /\ pc[o] \in {"committed", "done"} => HandlerKept(o)
                             /\ pc'[o] = "committed" => pc[o] = "committed"
  <1> TAKE o \in Requests
  <1>1. o # r => /\ pc'[o] = pc[o] /\ reply'[o] = reply[o]
                 /\ target'[o] = target[o] /\ row'[o] = row[o]
    BY DEF TypeOK
  <1>2. pc'[r] = p
    BY DEF TypeOK
  <1> QED BY <1>1, <1>2 DEF HandlerKept

\* A step other than COMMIT.
LEMMA QuietHandlers ==
  ASSUME Inv, [Next]_vars, ~\E r \in Requests : Commit(r)
  PROVE  \A o \in Requests : /\ pc[o] \in {"committed", "done"} => HandlerKept(o)
                             /\ pc'[o] = "committed" => pc[o] = "committed"
  <1> DEFINE Goal == \A o \in Requests :
                       /\ pc[o] \in {"committed", "done"} => HandlerKept(o)
                       /\ pc'[o] = "committed" => pc[o] = "committed"
  <1>t. TypeOK
    BY DEF Inv
  <1>1. ASSUME NEW r \in Requests, Receive(r) PROVE Goal
    <2>1. PICK q \in Request : CheckIdempotency(r, q)
      BY <1>1 DEF Receive
    <2>2. PICK p, a : /\ p # "committed" /\ pc' = [pc EXCEPT ![r] = p]
                      /\ reply' = [reply EXCEPT ![r] = a] \/ reply' = reply
      BY <2>1 DEF CheckIdempotency, Goto, Finish
    <2>3. pc[r] = "idle" /\ target' = target /\ row' = row
      BY <2>1 DEF CheckIdempotency
    <2> QED BY <1>t, <2>2, <2>3, OtherHandlers
  <1>2. ASSUME NEW r \in Requests, InsertIncident(r) PROVE Goal
    BY <1>t, <1>2, OtherHandlers DEF InsertIncident, Goto
  <1>3. ASSUME NEW r \in Requests, LockIncident(r) PROVE Goal
    <2>1. PICK p, a : /\ p # "committed" /\ pc' = [pc EXCEPT ![r] = p]
                      /\ reply' = [reply EXCEPT ![r] = a] \/ reply' = reply
      BY <1>3 DEF LockIncident, Goto, Finish
    <2>2. /\ pc[r] = "checked"
          /\ target' = target \/ (\E i : target' = [target EXCEPT ![r] = i])
          /\ row' = row \/ (\E w : row' = [row EXCEPT ![r] = w])
      BY <1>3 DEF LockIncident
    <2> QED BY <1>t, <2>1, <2>2, OtherHandlers
  <1>4. ASSUME NEW r \in Requests, SaveIdempotency(r) PROVE Goal
    <2>1. PICK p, a : /\ p # "committed" /\ pc' = [pc EXCEPT ![r] = p]
                      /\ reply' = [reply EXCEPT ![r] = a] \/ reply' = reply
      BY <1>4 DEF SaveIdempotency, Goto, Finish
    <2>2. pc[r] = "locked" /\ target' = target /\ row' = row
      BY <1>4 DEF SaveIdempotency
    <2> QED BY <1>t, <2>1, <2>2, OtherHandlers
  <1>5. ASSUME NEW r \in Requests, Publish(r) PROVE Goal
    <2>1. /\ pc[r] = "committed" /\ pc' = [pc EXCEPT ![r] = "done"]
          /\ reply' = [reply EXCEPT ![r] = Accepted(AnswerOf(r))]
          /\ target' = target /\ row' = row
      BY <1>5 DEF Publish, Finish
    <2> TAKE o \in Requests
    <2>2. o # r => pc'[o] = pc[o] /\ reply'[o] = reply[o]
      BY <1>t, <2>1 DEF TypeOK
    <2>3. pc'[r] = "done"
      BY <1>t, <2>1 DEF TypeOK
    <2> QED BY <1>5, <2>1, <2>2, <2>3 DEF HandlerKept
  <1>6. ASSUME NEW r \in Requests, Fail(r) PROVE Goal
    <2>1. /\ pc[r] \in {"checked", "locked", "saved", "committed"}
          /\ pc' = [pc EXCEPT ![r] = "done"]
          /\ reply' = [reply EXCEPT ![r] = Refusal("failed")]
          /\ target' = target /\ row' = row
      BY <1>6 DEF Fail, Finish
    <2> TAKE o \in Requests
    <2>2. o # r => pc'[o] = pc[o] /\ reply'[o] = reply[o]
      BY <1>t, <2>1 DEF TypeOK
    <2>3. pc'[r] = "done" /\ reply'[r].status = "failed"
      BY <1>t, <2>1 DEF TypeOK, Refusal
    <2> QED BY <2>1, <2>2, <2>3 DEF HandlerKept
  <1>7. ASSUME UNCHANGED handler PROVE Goal
    BY <1>7 DEF handler, HandlerKept
  <1>8. ASSUME UNCHANGED vars PROVE Goal
    BY <1>7, <1>8 DEF vars
  <1>9. ASSUME NEW i \in Incidents, NEW a \in ActionIds, NEW d \in ActionDigests,
               ProposeAction(i, a, d)
        PROVE  Goal
    BY <1>7, <1>9 DEF ProposeAction
  <1> HIDE DEF Goal
  <1>10. Goal
    <2>1. ASSUME NEW r \in Requests, Step(r) PROVE Goal
      BY <1>2, <1>3, <1>4, <1>5, <2>1 DEF Step
    <2>2. CASE Next
      <3>1. CASE \E r \in Requests : Receive(r)
        BY <1>1, <3>1
      <3>2. CASE \E r \in Requests : Step(r)
        BY <2>1, <3>2
      <3>3. CASE \E r \in Requests : Fail(r)
        BY <1>6, <3>3
      <3>4. CASE \E i \in Incidents, a \in ActionIds, d \in ActionDigests :
                   ProposeAction(i, a, d)
        BY <1>9, <3>4
      <3> QED BY <2>2, <3>1, <3>2, <3>3, <3>4 DEF Next
    <2>3. CASE UNCHANGED vars
      BY <1>8, <2>3
    <2> QED BY <2>2, <2>3
  <1> QED BY <1>10 DEF Goal

\* Every step but COMMIT: an event that has not been published stays so until
\* its handler publishes it.
LEMMA QuietStore ==
  ASSUME StoreInv, [Next]_vars, ~\E r \in Requests : Commit(r)
  PROVE  /\ StoreInv' /\ UNCHANGED <<incident, projection>>
         /\ \A i \in Incidents : \A n : Unpublished(i, n) =>
              \/ Unpublished(i, n)'
              \/ \E r \in Requests : Publish(r) /\ target[r] = i /\ n = row[r].cursor + 1
  <1>1. UNCHANGED <<incident, projection>>
    BY QuietStep DEF StoreInv
  <1>2. \A o \in Requests : /\ pc[o] \in {"committed", "done"} => HandlerKept(o)
                            /\ pc'[o] = "committed" => pc[o] = "committed"
    BY QuietHandlers DEF StoreInv
  <1>3. \A i \in Incidents : \A e \in projection[i] : e.by # None =>
          /\ e.by \in Requests /\ pc[e.by] \in {"committed", "done"} /\ HandlerKept(e.by)
          /\ target[e.by] = i /\ row[e.by].cursor + 1 = e.seq
    BY <1>2 DEF StoreInv, Inv, EventsCommitted, EventOwner
  <1>4. Begun'
    BY <1>1 DEF StoreInv, Begun
  <1>5. EventOwner'
    BY <1>1, <1>3 DEF EventOwner, HandlerKept
  <1>6. InRange'
    BY <1>1, <1>2 DEF StoreInv, InRange, HandlerKept
  <1>7. ASSUME NEW i \in Incidents, NEW n, Unpublished(i, n)
        PROVE  \/ Unpublished(i, n)'
               \/ \E r \in Requests : Publish(r) /\ target[r] = i /\ n = row[r].cursor + 1
    <2>1. PICK e \in projection[i] :
            e.seq = n /\ e.by # None
              /\ (pc[e.by] = "committed" \/ reply[e.by].status = "failed")
      BY <1>7 DEF Unpublished
    <2>2. /\ e.by \in Requests /\ HandlerKept(e.by)
          /\ target[e.by] = i /\ row[e.by].cursor + 1 = n
      BY <1>3, <2>1
    <2>3. CASE Publish(e.by)
      BY <2>2, <2>3
    <2>4. CASE ~Publish(e.by)
      <3>1. pc'[e.by] = "committed" \/ reply'[e.by].status = "failed"
        BY <2>1, <2>2, <2>4 DEF HandlerKept
      <3> QED BY <1>1, <2>1, <3>1 DEF Unpublished
    <2> QED BY <2>3, <2>4
  <1> QED BY <1>1, <1>4, <1>5, <1>6, <1>7, NextInv DEF StoreInv

\* COMMIT: the new event is the next of its incident and is not published yet.
LEMMA CommitStore ==
  ASSUME StoreInv, NEW r \in Requests, Commit(r)
  PROVE  /\ StoreInv'
         /\ \A i \in Incidents : incident[i].cursor <= incident'[i].cursor
         /\ \A i \in Incidents : \A n : Unpublished(i, n) => Unpublished(i, n)'
         /\ \A i \in Incidents : \A n \in (incident[i].cursor + 1)..incident'[i].cursor :
              Unpublished(i, n)'
  <1>i. Inv
    BY DEF StoreInv
  <1>1. PICK i \in Incidents : i = target[r]
    BY <1>i DEF Commit, Inv, Serving, InTransaction
  <1>2. PICK ev : ev = [seq |-> row[r].cursor + 1, type |-> EventType(req[r]), by |-> r]
    OBVIOUS
  <1>3. /\ pc[r] = "saved" /\ pc' = [pc EXCEPT ![r] = "committed"]
        /\ incident' = [incident EXCEPT ![i] = Written(r)]
        /\ projection' = [projection EXCEPT ![i] = projection[i] \cup {ev}]
        /\ UNCHANGED <<target, row, reply>>
    BY <1>1, <1>2 DEF Commit, Goto
  <1>4. PICK c \in Nat : c = row[r].cursor /\ c = incident[i].cursor
    <2>1. row[r].cursor = incident[i].cursor
      BY <1>i, <1>1, <1>3 DEF Inv, Locking, InTransaction
    <2>2. row[r].cursor \in Nat
      BY <1>i DEF Inv, TypeOK, Row
    <2> QED BY <2>1, <2>2
  <1>5. Written(r).cursor = c + 1
    BY <1>4 DEF Written
  <1>6. /\ incident'[i].cursor = c + 1
        /\ projection'[i] = projection[i] \cup {ev}
        /\ \A j \in Incidents : j # i =>
             incident'[j] = incident[j] /\ projection'[j] = projection[j]
        /\ pc'[r] = "committed"
        /\ \A o \in Requests : o # r => pc'[o] = pc[o]
    BY <1>i, <1>3, <1>5 DEF Inv, TypeOK
  <1>7. ev.seq = c + 1 /\ ev.by = r /\ r # None
    BY <1>2, <1>4, RequestsAssumption
  <1>8. \A j \in Incidents : \A e \in projection[j] :
          e.by # None => e.by \in Requests /\ e.by # r
    BY <1>i, <1>3 DEF Inv, EventsCommitted
  <1>9. \A j \in Incidents : incident[j].cursor \in Nat
    BY <1>i DEF Inv, TypeOK, Row
  <1>10. \A j \in Incidents : incident[j].cursor <= incident'[j].cursor
    BY <1>4, <1>6, <1>9
  <1>11. Begun'
    <2> SUFFICES ASSUME NEW j \in Incidents, incident'[j] # AbsentRow
                 PROVE  incident'[j].cursor >= 1
      BY DEF Begun
    <2>1. CASE j = i
      BY <1>6, <2>1
    <2>2. CASE j # i
      BY <1>6, <2>2 DEF StoreInv, Begun
    <2> QED BY <2>1, <2>2
  <1>12. EventOwner'
    <2> SUFFICES ASSUME NEW j \in Incidents, NEW e \in projection'[j], e.by # None
                 PROVE  target[e.by] = j /\ row[e.by].cursor + 1 = e.seq
      BY <1>3 DEF EventOwner
    <2>1. CASE j = i /\ e = ev
      BY <1>1, <1>4, <1>7, <2>1
    <2>2. CASE ~(j = i /\ e = ev)
      <3>1. e \in projection[j]
        BY <1>6, <2>2
      <3> QED BY <3>1 DEF StoreInv, EventOwner
    <2> QED BY <2>1, <2>2
  <1>13. InRange'
    <2> SUFFICES ASSUME NEW o \in Requests, pc'[o] = "committed"
                 PROVE  row[o].cursor + 1 <= incident'[target[o]].cursor
      BY <1>3 DEF InRange
    <2>1. CASE o = r
      <3>1. row[o].cursor = c /\ incident'[target[o]].cursor = c + 1
        BY <1>1, <1>4, <1>6, <2>1
      <3> QED BY <3>1
    <2>2. CASE o # r
      <3>1. pc[o] = "committed"
        BY <1>6, <2>2
      <3>2. row[o].cursor \in Nat /\ target[o] \in Incidents
        BY <1>i, <3>1 DEF Inv, TypeOK, Row, Serving
      <3>3. row[o].cursor + 1 <= incident[target[o]].cursor
        BY <3>1 DEF StoreInv, InRange
      <3>4. incident'[target[o]].cursor \in Nat
        BY <1>4, <1>6, <1>9, <3>2
      <3> QED BY <1>9, <1>10, <3>2, <3>3, <3>4
    <2> QED BY <2>1, <2>2
  <1>14. ASSUME NEW j \in Incidents, NEW n, Unpublished(j, n) PROVE Unpublished(j, n)'
    <2>1. PICK e \in projection[j] :
            e.seq = n /\ e.by # None
              /\ (pc[e.by] = "committed" \/ reply[e.by].status = "failed")
      BY <1>14 DEF Unpublished
    <2>2. e \in projection'[j]
      BY <1>6, <2>1
    <2>3. pc'[e.by] = pc[e.by] /\ reply' = reply
      BY <1>3, <1>6, <1>8, <2>1
    <2> QED BY <2>1, <2>2, <2>3 DEF Unpublished
  <1>15. ASSUME NEW j \in Incidents, NEW n \in (incident[j].cursor + 1)..incident'[j].cursor
         PROVE  Unpublished(j, n)'
    <2>1. j = i
      BY <1>6, <1>9, <1>15
    <2>2. n = c + 1
      BY <1>4, <1>6, <1>15, <2>1
    <2>3. ev \in projection'[j]
      BY <1>6, <2>1
    <2> QED BY <1>6, <1>7, <2>2, <2>3 DEF Unpublished
  <1>16. Inv'
    BY <1>i, CommitInv
  <1> QED BY <1>10, <1>11, <1>12, <1>13, <1>14, <1>15, <1>16 DEF StoreInv

-----------------------------------------------------------------------------
(***************************************************************************)
(* The streams of the Control API.                                         *)
(***************************************************************************)

\* What a stream owes its client is in its replay, in its queue or, being
\* unpublished, in U.
Covered(x, top, U) ==
  x.pc \in Open /\ ~x.overflow =>
    \A n \in (x.delivered + 1)..top :
      n \in x.replay \cup U \/ \E k \in DOMAIN x.queue : x.queue[k] = n

ApiTop(i) == IF i = None THEN 0 ELSE incident[i].cursor
Hidden(i) == IF i = None THEN {} ELSE {n \in Nat : Unpublished(i, n)}

ApiStreams ==
  /\ stream \in [Streams -> StreamRecord]
  /\ \A s \in Streams :
       /\ Sound(stream[s], ApiTop(stream[s].incident))
       /\ Covered(stream[s], ApiTop(stream[s].incident), Hidden(stream[s].incident))

ApiInv == StoreInv /\ ApiStreams

\* Nobody is connected at first.
LEMMA ApiInitInv == ApiInit => ApiInv
  <1> SUFFICES ASSUME ApiInit PROVE ApiInv
    OBVIOUS
  <1>1. <<>> \in Seq(Nat) /\ DOMAIN <<>> = {}
    OBVIOUS
  <1>2. ASSUME NEW s \in Streams
        PROVE  /\ stream[s] \in StreamRecord
               /\ Sound(stream[s], ApiTop(stream[s].incident))
               /\ Covered(stream[s], ApiTop(stream[s].incident), Hidden(stream[s].incident))
    <2>1. PICK x : /\ x = stream[s] /\ x.pc = "closed" /\ x.incident = None
                   /\ x.seen = <<>> /\ x.queue = <<>> /\ x \in StreamRecord
      <3>1. stream[s] \in StreamRecord
        BY <1>1 DEF ApiInit, StreamInit, StreamRecord
      <3>2. /\ stream[s].pc = "closed" /\ stream[s].incident = None
            /\ stream[s].seen = <<>> /\ stream[s].queue = <<>>
        BY DEF ApiInit, StreamInit
      <3> QED BY <3>1, <3>2
    <2>2. Sound(x, ApiTop(x.incident))
      BY <1>1, <2>1 DEF Sound, HistorySound, PositionSound, FollowsSound, Open
    <2>3. Covered(x, ApiTop(x.incident), Hidden(x.incident))
      BY <2>1 DEF Covered, Open
    <2> QED BY <2>1, <2>2, <2>3
  <1>3. stream \in [Streams -> StreamRecord]
    <2>1. stream = [s \in Streams |-> stream[s]]
      BY Zenon DEF ApiInit, StreamInit
    <2> QED BY <1>2, <2>1
  <1> QED BY <1>2, <1>3, StoreInit DEF ApiInit, ApiInv, ApiStreams

\* A longer projection, and more that is not published.
LEMMA CoveredGrows ==
  ASSUME NEW x \in StreamRecord, NEW a \in Nat, NEW b \in Nat, a <= b, NEW U, NEW V,
         Covered(x, a, U), \A n \in U : n \in V, \A n \in (a + 1)..b : n \in V
  PROVE  Covered(x, b, V)
  <1> SUFFICES ASSUME x.pc \in Open, ~x.overflow, NEW n \in (x.delivered + 1)..b
               PROVE  n \in x.replay \cup V \/ \E k \in DOMAIN x.queue : x.queue[k] = n
    BY DEF Covered
  <1>1. x.delivered \in Nat
    BY DEF StreamRecord
  <1>2. CASE n <= a
    <2>1. n \in (x.delivered + 1)..a
      BY <1>1, <1>2
    <2> QED BY <2>1 DEF Covered
  <1>3. CASE ~(n <= a)
    <2>1. n \in (a + 1)..b
      BY <1>1, <1>3
    <2> QED BY <2>1
  <1> QED BY <1>2, <1>3

\* Yielding the least of the replay.
LEMMA YieldCovered ==
  ASSUME NEW x \in StreamRecord, NEW y \in StreamRecord, NEW top \in Nat, NEW U, NEW n \in Nat,
         Covered(x, top, U), x.pc \in Open, y.queue = x.queue, y.overflow = x.overflow,
         y.replay = x.replay \ {n}, y.delivered = n, n > x.delivered
  PROVE  Covered(y, top, U)
  <1> SUFFICES ASSUME y.pc \in Open, ~y.overflow, NEW m \in (y.delivered + 1)..top
               PROVE  m \in y.replay \cup U \/ \E k \in DOMAIN y.queue : y.queue[k] = m
    BY DEF Covered
  <1>1. x.delivered \in Nat
    BY DEF StreamRecord
  <1>2. m \in (x.delivered + 1)..top /\ m # n
    BY <1>1
  <1>3. m \in x.replay \cup U \/ \E k \in DOMAIN x.queue : x.queue[k] = m
    BY <1>2 DEF Covered
  <1> QED BY <1>2, <1>3

\* Taking the head of the queue.
LEMMA TakeCovered ==
  ASSUME NEW x \in StreamRecord, NEW y \in StreamRecord, NEW top \in Nat, NEW U, NEW n \in Nat,
         Covered(x, top, U), Taken(x, y, n)
  PROVE  Covered(y, top, U)
  <1> SUFFICES ASSUME y.pc \in Open, ~y.overflow, NEW m \in (y.delivered + 1)..top
               PROVE  m \in y.replay \cup U \/ \E k \in DOMAIN y.queue : y.queue[k] = m
    BY DEF Covered
  <1>1. /\ x.delivered \in Nat /\ y.delivered \in Nat /\ x.pc \in Open /\ ~x.overflow
        /\ x.replay = {} /\ y.queue = Tail(x.queue) /\ x.queue \in Seq(Nat) /\ x.queue # <<>>
        /\ n = Head(x.queue)
    BY DEF StreamRecord, Taken, Open
  <1>2. x.delivered <= y.delivered /\ n <= y.delivered
    BY <1>1 DEF Taken, Delivered
  <1>3. m \in (x.delivered + 1)..top /\ m # n
    BY <1>1, <1>2
  <1>4. m \in U \/ \E k \in DOMAIN x.queue : x.queue[k] = m
    BY <1>1, <1>3 DEF Covered
  <1>5. ASSUME NEW k \in DOMAIN x.queue, x.queue[k] = m
        PROVE  k - 1 \in DOMAIN y.queue /\ y.queue[k - 1] = m
    <2>1. PICK q \in Seq(Nat), t \in Seq(Nat) : q = x.queue /\ t = y.queue /\ t = Tail(q)
      BY <1>1, TailFacts
    <2>2. PICK l \in Nat :
            /\ l = Len(q) /\ DOMAIN q = 1..l /\ DOMAIN t = 1..(l - 1)
            /\ n = q[1] /\ \A j \in 1..(l - 1) : t[j] = q[j + 1]
      BY <1>1, <2>1, TailFacts
    <2>3. k \in 1..l /\ k # 1 /\ q[k] = m
      BY <1>3, <1>5, <2>1, <2>2
    <2>4. PICK p \in Nat : p + 1 = k /\ p \in 1..(l - 1) /\ p = k - 1
      <3>1. PICK c \in Nat : c = k /\ c <= l /\ c >= 1 /\ c # 1
        BY <2>3
      <3>2. c - 1 \in Nat /\ (c - 1) + 1 = c /\ c - 1 \in 1..(l - 1)
        BY <3>1
      <3> QED BY <3>1, <3>2
    <2> QED BY <2>1, <2>2, <2>3, <2>4
  <1> QED BY <1>4, <1>5

\* Of what a stream was not yet offered, only event n of incident i goes.
Released(x, i, n, U, V) == \A m \in U : m \in V \/ (m = n /\ x.incident = i)

\* Publishing event n: whoever was owed it has it in the queue, or is marked
\* slow.
LEMMA OfferCovered ==
  ASSUME NEW x \in StreamRecord, NEW y \in StreamRecord, NEW top \in Nat, NEW U, NEW V,
         NEW i \in Incidents, NEW n \in Nat, Covered(x, top, U), Offered(x, y, i, n),
         Released(x, i, n, U, V)
  PROVE  Covered(y, top, V)
  <1> USE DEF Released
  <1> SUFFICES ASSUME y.pc \in Open, ~y.overflow, NEW m \in (y.delivered + 1)..top
               PROVE  m \in y.replay \cup V \/ \E k \in DOMAIN y.queue : y.queue[k] = m
    BY DEF Covered
  <1>1. x.pc \in Open /\ ~x.overflow /\ x.delivered = y.delivered /\ x.replay = y.replay
    BY DEF Offered
  <1>2. m \in x.replay \cup U \/ \E k \in DOMAIN x.queue : x.queue[k] = m
    BY <1>1 DEF Covered
  <1>3. CASE x.incident # i
    <2>1. y = x
      BY <1>3 DEF Offered
    <2> QED BY <1>2, <1>3, <2>1
  <1>4. CASE x.incident = i
    <2>1. y.queue = Append(x.queue, n)
      BY <1>1, <1>4 DEF Offered, Open
    <2>2. PICK q \in Seq(Nat), a \in Seq(Nat) : q = x.queue /\ a = y.queue /\ a = Append(q, n)
      BY <2>1 DEF StreamRecord
    <2>3. /\ Len(q) \in Nat /\ DOMAIN q = 1..Len(q) /\ DOMAIN a = 1..(Len(q) + 1)
          /\ a[Len(q) + 1] = n /\ \A k \in 1..Len(q) : a[k] = q[k]
      BY <2>2, AppendFacts
    <2>4. Len(q) + 1 \in DOMAIN a /\ \A k \in DOMAIN q : k \in DOMAIN a /\ a[k] = q[k]
      BY <2>3
    <2> QED BY <1>1, <1>2, <2>2, <2>3, <2>4
  <1> QED BY <1>3, <1>4

\* The newest sequence of what a stream follows is a number.
LEMMA ApiTopNat ==
  ASSUME StoreInv, NEW i \in Incidents \cup {None}
  PROVE  ApiTop(i) \in Nat
  <1>1. i \in Incidents => incident[i].cursor \in Nat
    BY DEF StoreInv, Inv, TypeOK, Row
  <1> QED BY <1>1 DEF ApiTop

\* Changing one stream and nothing else.
LEMMA OneApiStream ==
  ASSUME ApiInv, NEW s \in Streams, NEW y \in StreamRecord, Set(s, y), UNCHANGED vars,
         Sound(y, ApiTop(y.incident)), Covered(y, ApiTop(y.incident), Hidden(y.incident))
  PROVE  ApiInv'
  <1>1. UNCHANGED <<incident, projection, pc, reply, target, row>>
    BY DEF vars, tables, handler
  <1>2. Inv'
    BY NextInv DEF ApiInv, StoreInv
  <1>3. StoreInv'
    BY <1>1, <1>2 DEF ApiInv, StoreInv, Begun, EventOwner, InRange
  <1>4. /\ stream' \in [Streams -> StreamRecord] /\ stream'[s] = y
        /\ \A o \in Streams : o # s => stream'[o] = stream[o]
    BY DEF Set, ApiInv, ApiStreams
  <1>6. ASSUME NEW o \in Streams
        PROVE  /\ Sound(stream[o], ApiTop(stream[o].incident))'
               /\ Covered(stream[o], ApiTop(stream[o].incident), Hidden(stream[o].incident))'
    <2>1. ApiTop(stream[o].incident)' = ApiTop(stream'[o].incident)
      BY <1>1 DEF ApiTop
    <2>2. Hidden(stream[o].incident)' = Hidden(stream'[o].incident)
      BY <1>1 DEF Hidden, Unpublished
    <2>3. CASE o = s
      BY <1>4, <2>1, <2>2, <2>3
    <2>4. CASE o # s
      BY <1>4, <2>1, <2>2, <2>4 DEF ApiInv, ApiStreams
    <2> QED BY <2>3, <2>4
  <1> QED BY <1>3, <1>4, <1>6 DEF ApiInv, ApiStreams

\* The record of a stream and the projection it follows.
LEMMA ApiStreamFacts ==
  ASSUME ApiInv, NEW s \in Streams
  PROVE  \E x \in StreamRecord, top \in Nat, U \in SUBSET Nat :
           /\ x = stream[s] /\ top = ApiTop(x.incident) /\ U = Hidden(x.incident)
           /\ Sound(x, top) /\ Covered(x, top, U)
  <1>1. stream[s] \in StreamRecord
    BY DEF ApiInv, ApiStreams
  <1>2. stream[s].incident \in Incidents \cup {None}
    BY <1>1 DEF StreamRecord
  <1>3. ApiTop(stream[s].incident) \in Nat
    BY <1>2, ApiTopNat DEF ApiInv
  <1>4. Hidden(stream[s].incident) \in SUBSET Nat
    BY DEF Hidden
  <1> QED BY <1>1, <1>3, <1>4 DEF ApiInv, ApiStreams

\* A connection is opened.
LEMMA OpenStreamInv ==
  ASSUME ApiInv, NEW s \in Streams, NEW i \in Incidents, OpenStream(s, i)
  PROVE  ApiInv'
  <1>1. PICK start \in Nat : Subscribe(s, i, start)
    BY StartCursorsAssumption DEF OpenStream
  <1>2. PICK x \in StreamRecord : x = stream[s] /\ Sound(x, ApiTop(x.incident))
    BY DEF ApiInv, ApiStreams
  <1>3. PICK top \in Nat : top = ApiTop(i) /\ top >= 1
    <2>1. incident[i] # AbsentRow /\ incident[i].cursor \in Nat
      BY DEF OpenStream, ApiInv, StoreInv, Inv, TypeOK, Row
    <2>2. incident[i].cursor >= 1
      BY <2>1 DEF ApiInv, StoreInv, Begun
    <2> QED BY <2>1, <2>2, NoneAssumption DEF ApiTop
  <1>4. x.incident \in {None, i}
    BY <1>2 DEF OpenStream
  <1>5. Sound(x, top)
    <2>1. CASE x.incident = i
      BY <1>2, <1>3, <2>1
    <2>2. CASE x.incident = None
      <3>1. Sound(x, 0)
        BY <1>2, <2>2 DEF ApiTop
      <3> QED BY <1>3, <3>1, SoundGrows
    <2> QED BY <1>4, <2>1, <2>2
  <1>6. PICK y \in StreamRecord :
          Set(s, y) /\ Sound(y, top) /\ y.pc = "subscribed" /\ y.incident = i
    BY <1>1, <1>2, <1>3, <1>4, <1>5, SubscribeSound
  <1>7. Covered(y, top, Hidden(i))
    BY <1>6 DEF Covered, Open
  <1>8. UNCHANGED vars
    BY DEF OpenStream
  <1> QED BY <1>3, <1>6, <1>7, <1>8, OneApiStream

\* The replay is read: it holds everything beyond the cursor.
LEMMA ReplayProjectionInv ==
  ASSUME ApiInv, NEW s \in Streams, ReplayProjection(s)
  PROVE  ApiInv'
  <1>1. PICK x \in StreamRecord, top \in Nat, U \in SUBSET Nat :
          /\ x = stream[s] /\ top = ApiTop(x.incident) /\ U = Hidden(x.incident)
          /\ Sound(x, top) /\ Covered(x, top, U)
    BY ApiStreamFacts
  <1>2. PICK i \in Incidents : i = x.incident
    <2>1. x.pc # "closed"
      BY <1>1 DEF ReplayProjection
    <2>2. x.incident # None
      BY <1>1, <2>1 DEF Sound, FollowsSound
    <2> QED BY <2>2 DEF StreamRecord
  <1>3. top = incident[i].cursor /\ top >= 1
    BY <1>1, <1>2, NoneAssumption DEF ApiTop, Sound, FollowsSound
  <1>4. Retained(i) = 1..top
    BY <1>3 DEF Retained, ApiInv, StoreInv, Inv, ProjectionContiguous
  <1>l. PICK lo \in Nat : lo = 1 /\ 1 <= lo /\ lo <= top
    BY <1>3
  <1>5. Replay(s, lo..top, top) /\ UNCHANGED vars
    <2>1. Retained(i) = lo..top
      BY <1>4, <1>l
    <2> QED BY <1>1, <1>2, <1>3, <2>1, Zenon DEF ReplayProjection
  <1>6. PICK y \in StreamRecord :
           /\ Set(s, y) /\ Sound(y, top)
           /\ y.incident = x.incident /\ y.seen = x.seen /\ y.queue = x.queue
           /\ y.overflow = x.overflow
           /\ Refused(x, y) \/ Gap(x, y, lo) \/ Read(x, y, lo, top)
    BY <1>1, <1>l, <1>5, ReplaySound
  <1>7. Covered(y, top, U)
    <2>1. CASE y.pc = "closed"
      BY <2>1 DEF Covered, Open
    <2>2. CASE Read(x, y, lo, top)
      <3>1. y.delivered = x.cursor /\ y.replay = {n \in lo..top : n > x.cursor}
            /\ x.cursor \in Nat
        BY <2>2 DEF Read, StreamRecord
      <3>2. \A n \in (y.delivered + 1)..top : n \in y.replay
        BY <1>l, <3>1
      <3> QED BY <3>2 DEF Covered
    <2> QED BY <1>6, <2>1, <2>2 DEF Refused, Gap
  <1> QED BY <1>1, <1>5, <1>6, <1>7, OneApiStream

\* Every other step of a stream.
LEMMA ApiStreamStepInv ==
  ASSUME ApiInv, NEW s \in Streams, UNCHANGED vars,
         StreamStep(s) \/ Heartbeat(s) \/ Disconnect(s)
  PROVE  ApiInv'
  <1>1. PICK x \in StreamRecord, top \in Nat, U \in SUBSET Nat :
          /\ x = stream[s] /\ top = ApiTop(x.incident) /\ U = Hidden(x.incident)
          /\ Sound(x, top) /\ Covered(x, top, U)
    BY ApiStreamFacts
  <1>4. CASE YieldReplay(s)
    <2>1. PICK y \in StreamRecord, n \in x.replay :
           /\ Set(s, y) /\ Sound(y, top)
           /\ x.pc = "replaying" /\ y.pc = "replaying" /\ y.incident = x.incident
           /\ y.queue = x.queue /\ y.overflow = x.overflow
           /\ y.excused = x.excused /\ y.skipped = x.skipped
           /\ Delivered(x, y, n) /\ (\A m \in x.replay : n <= m)
           /\ y.replay = x.replay \ {n}
      BY <1>1, <1>4, YieldReplaySound
    <2>2. n \in Nat /\ y.delivered = n /\ n > x.delivered /\ x.pc \in Open
      BY <2>1 DEF Delivered, Open
    <2>3. Covered(y, top, U)
      BY <1>1, <2>1, <2>2, YieldCovered
    <2> QED BY <1>1, <2>1, <2>3, OneApiStream
  <1>5. CASE Take(s)
    <2>1. PICK y \in StreamRecord, n \in Nat :
           Set(s, y) /\ Sound(y, top) /\ Taken(x, y, n)
      BY <1>1, <1>5, TakeSound
    <2>2. Covered(y, top, U)
      BY <1>1, <2>1, TakeCovered
    <2>3. y.incident = x.incident
      BY <2>1 DEF Taken
    <2> QED BY <1>1, <2>1, <2>2, <2>3, OneApiStream
  <1>6. CASE EndReplay(s) \/ Wait(s) \/ Heartbeat(s) \/ SlowConsumer(s) \/ Disconnect(s)
    <2>1. PICK y \in StreamRecord :
           Set(s, y) /\ Sound(y, top) /\ Moved(x, y) /\ x.pc \in Open
      BY <1>1, <1>6, MoveSound
    <2>2. Covered(y, top, U)
      BY <1>1, <2>1 DEF Covered, Moved
    <2>3. y.incident = x.incident
      BY <2>1 DEF Moved
    <2> QED BY <1>1, <2>1, <2>2, <2>3, OneApiStream
  <1> QED BY <1>4, <1>5, <1>6 DEF StreamStep

\* A step of the store or of a handler: the streams are left alone, or the
\* event a handler has committed is offered to them.
LEMMA StoreStepInv ==
  ASSUME ApiInv, StoreInv',
         \A i \in Incidents : incident[i].cursor <= incident'[i].cursor,
         \A i \in Incidents : \A n \in (incident[i].cursor + 1)..incident'[i].cursor :
           Unpublished(i, n)',
         \/ /\ UNCHANGED stream
            /\ \A i \in Incidents : \A n : Unpublished(i, n) => Unpublished(i, n)'
         \/ \E r \in Requests :
              /\ target[r] \in Incidents /\ row[r].cursor + 1 \in 1..incident[target[r]].cursor
              /\ Offer(target[r], row[r].cursor + 1)
              /\ \A i \in Incidents : \A n : Unpublished(i, n) =>
                   Unpublished(i, n)' \/ (target[r] = i /\ n = row[r].cursor + 1)
  PROVE  ApiInv'
  <1>1. \A i \in Incidents : incident[i].cursor \in Nat /\ incident'[i].cursor \in Nat
    BY DEF ApiInv, StoreInv, Inv, TypeOK, Row
  <1>2. ASSUME NEW s \in Streams
        PROVE  /\ stream'[s] \in StreamRecord
               /\ Sound(stream[s], ApiTop(stream[s].incident))'
               /\ Covered(stream[s], ApiTop(stream[s].incident), Hidden(stream[s].incident))'
    <2>1. PICK x \in StreamRecord, old \in Nat, U \in SUBSET Nat :
            /\ x = stream[s] /\ old = ApiTop(x.incident) /\ U = Hidden(x.incident)
            /\ Sound(x, old) /\ Covered(x, old, U)
      BY ApiStreamFacts
    <2>i. x.incident \in Incidents \cup {None}
      BY DEF StreamRecord
    <2>2. PICK new \in Nat :
            /\ old <= new
            /\ new = IF x.incident = None THEN 0 ELSE incident'[x.incident].cursor
      BY <1>1, <2>1, <2>i, NoneAssumption DEF ApiTop
    <2>3. PICK V \in SUBSET Nat :
            V = IF x.incident = None THEN {}
                ELSE {n \in Nat : Unpublished(x.incident, n)'}
      OBVIOUS
    <2>4. \A n \in (old + 1)..new : n \in V
      <3> TAKE n \in (old + 1)..new
      <3>1. CASE x.incident = None
        BY <2>1, <2>2, <3>1 DEF ApiTop
      <3>2. CASE x.incident # None
        <4>1. x.incident \in Incidents
          BY <2>i, <3>2
        <4>2. n \in (incident[x.incident].cursor + 1)..incident'[x.incident].cursor
          BY <2>1, <2>2, <3>2 DEF ApiTop
        <4>3. Unpublished(x.incident, n)' /\ n \in Nat
          BY <4>1, <4>2
        <4> QED BY <2>3, <3>2, <4>3
      <3> QED BY <3>1, <3>2
    <2>5. Sound(x, new)
      BY <2>1, <2>2, SoundGrows
    <2>6. \A n \in U : x.incident \in Incidents /\ Unpublished(x.incident, n)
      BY <2>1, <2>i DEF Hidden
    <2>7. ASSUME NEW y \in StreamRecord, stream'[s] = y, y.incident = x.incident
          PROVE  ApiTop(stream[s].incident)' = new /\ Hidden(stream[s].incident)' = V
      BY <2>2, <2>3, <2>7 DEF ApiTop, Hidden
    <2>8. CASE /\ UNCHANGED stream
               /\ \A i \in Incidents : \A n : Unpublished(i, n) => Unpublished(i, n)'
      <3>1. \A n \in U : n \in V
        BY <2>3, <2>6, <2>8, NoneAssumption
      <3>2. Covered(x, new, V)
        BY <2>1, <2>2, <2>4, <3>1, CoveredGrows
      <3>3. stream'[s] = x
        BY <2>1, <2>8
      <3> QED BY <2>5, <2>7, <3>2, <3>3
    <2>9. ASSUME NEW r \in Requests,
                 target[r] \in Incidents, row[r].cursor + 1 \in 1..incident[target[r]].cursor,
                 Offer(target[r], row[r].cursor + 1),
                 \A i \in Incidents : \A n : Unpublished(i, n) =>
                   Unpublished(i, n)' \/ (target[r] = i /\ n = row[r].cursor + 1)
          PROVE  /\ stream'[s] \in StreamRecord
                 /\ Sound(stream[s], ApiTop(stream[s].incident))'
                 /\ Covered(stream[s], ApiTop(stream[s].incident), Hidden(stream[s].incident))'
      <3>1. PICK i \in Incidents, n \in Nat : i = target[r] /\ n = row[r].cursor + 1
                                              /\ n \in 1..incident[i].cursor
        BY <2>9
      <3>2. x.incident = i => n \in 1..new
        <4>1. x.incident = i => old = incident[i].cursor
          BY <2>1, NoneAssumption DEF ApiTop
        <4> QED BY <2>2, <3>1, <4>1
      <3>3. PICK y \in StreamRecord :
              stream'[s] = y /\ Sound(y, new) /\ Offered(x, y, i, n)
        BY <2>1, <2>5, <2>9, <3>1, <3>2, OfferSound
      <3>4. y.incident = x.incident
        BY <3>3 DEF Offered
      <3>5. PICK W \in SUBSET Nat : W = U \cup V
        OBVIOUS
      <3>6. Covered(x, new, W)
        <4>1. (\A m \in U : m \in W) /\ (\A m \in (old + 1)..new : m \in W)
          BY <2>4, <3>5
        <4> QED BY <2>1, <2>2, <4>1, CoveredGrows
      <3>7. Covered(y, new, V)
        <4>1. Released(x, i, n, W, V)
          BY <2>3, <2>6, <2>9, <3>1, <3>5, NoneAssumption DEF Released
        <4>2. Offered(x, y, i, n)
          BY <3>3
        <4> QED BY <3>6, <4>1, <4>2, OfferCovered
      <3> QED BY <2>7, <3>3, <3>4, <3>7
    <2> QED BY <2>8, <2>9
  <1>3. stream' \in [Streams -> StreamRecord]
    <2>1. CASE UNCHANGED stream
      BY <2>1 DEF ApiInv, ApiStreams
    <2>2. CASE ~UNCHANGED stream
      <3>1. stream' = [s \in Streams |-> stream'[s]]
        BY <2>2 DEF Offer
      <3> QED BY <1>2, <3>1
    <2> QED BY <2>1, <2>2
  <1> QED BY <1>2, <1>3 DEF ApiInv, ApiStreams

\* A step of the store that touches no stream.
LEMMA QuietApiStep ==
  ASSUME ApiInv, [Next]_vars, UNCHANGED stream, ~\E r \in Requests : Publish(r)
  PROVE  ApiInv'
  <1>1. StoreInv
    BY DEF ApiInv
  <1>2. CASE \E r \in Requests : Commit(r)
    <2>1. PICK r \in Requests : Commit(r)
      BY <1>2
    <2>2. /\ StoreInv'
          /\ \A i \in Incidents : incident[i].cursor <= incident'[i].cursor
          /\ \A i \in Incidents : \A n : Unpublished(i, n) => Unpublished(i, n)'
          /\ \A i \in Incidents : \A n \in (incident[i].cursor + 1)..incident'[i].cursor :
               Unpublished(i, n)'
      BY <1>1, <2>1, CommitStore
    <2> QED BY <2>2, StoreStepInv
  <1>3. CASE ~\E r \in Requests : Commit(r)
    <2>1. /\ StoreInv' /\ UNCHANGED <<incident, projection>>
          /\ \A i \in Incidents : \A n : Unpublished(i, n) =>
              \/ Unpublished(i, n)'
              \/ \E r \in Requests : Publish(r) /\ target[r] = i /\ n = row[r].cursor + 1
      BY <1>1, <1>3, QuietStore
    <2>2. \A i \in Incidents : \A n : Unpublished(i, n) => Unpublished(i, n)'
      BY <2>1, Zenon
    <2>3. \A i \in Incidents : incident[i].cursor \in Nat
      BY <1>1 DEF StoreInv, Inv, TypeOK, Row
    <2>4. \A i \in Incidents : /\ incident[i].cursor <= incident'[i].cursor
                               /\ (incident[i].cursor + 1)..incident'[i].cursor = {}
      BY <2>1, <2>3
    <2> QED BY <2>1, <2>2, <2>4, StoreStepInv
  <1> QED BY <1>2, <1>3

\* _publish.
LEMMA PublishApiStep ==
  ASSUME ApiInv, NEW r \in Requests, PublishToStreams(r)
  PROVE  ApiInv'
  <1>1. StoreInv
    BY DEF ApiInv
  <1>2. Publish(r) /\ Offer(target[r], row[r].cursor + 1)
    BY DEF PublishToStreams
  <1>3. pc[r] = "committed" /\ pc' = [pc EXCEPT ![r] = "done"]
    BY <1>2 DEF Publish, Finish
  <1>4. ASSUME NEW o \in Requests PROVE ~Commit(o) /\ (Publish(o) => o = r)
    <2>1. pc[o] # "committed" => pc'[o] # "committed"
      BY <1>1, <1>3 DEF StoreInv, Inv, TypeOK
    <2>2. ~Commit(o)
      <3> SUFFICES ASSUME Commit(o) PROVE FALSE
        OBVIOUS
      <3>1. pc[o] = "saved" /\ pc' = [pc EXCEPT ![o] = "committed"]
        BY DEF Commit, Goto
      <3>2. pc'[o] = "committed"
        BY <1>1, <3>1 DEF StoreInv, Inv, TypeOK
      <3> QED BY <2>1, <3>1, <3>2
    <2>3. ASSUME Publish(o), o # r PROVE FALSE
      <3>1. pc[o] = "committed" /\ pc' = [pc EXCEPT ![o] = "done"]
        BY <2>3 DEF Publish, Finish
      <3>2. pc'[o] = "done" /\ pc'[o] = pc[o]
        BY <1>1, <1>3, <2>3, <3>1 DEF StoreInv, Inv, TypeOK
      <3> QED BY <3>1, <3>2
    <2> QED BY <2>2, <2>3
  <1>5. [Next]_vars
    BY <1>2 DEF Next, Step
  <1>6. /\ StoreInv' /\ UNCHANGED <<incident, projection>>
        /\ \A i \in Incidents : \A n : Unpublished(i, n) =>
             \/ Unpublished(i, n)'
             \/ \E o \in Requests : Publish(o) /\ target[o] = i /\ n = row[o].cursor + 1
    BY <1>1, <1>4, <1>5, QuietStore
  <1>7. \A i \in Incidents : \A n : Unpublished(i, n) =>
          Unpublished(i, n)' \/ (target[r] = i /\ n = row[r].cursor + 1)
    BY <1>4, <1>6, Zenon
  <1>8. /\ target[r] \in Incidents /\ row[r].cursor \in Nat
        /\ \A i \in Incidents : incident[i].cursor \in Nat
    BY <1>1, <1>3 DEF StoreInv, Inv, TypeOK, Row, Serving
  <1>9. row[r].cursor + 1 \in 1..incident[target[r]].cursor
    BY <1>1, <1>3, <1>8 DEF StoreInv, InRange
  <1>10. \A i \in Incidents : /\ incident[i].cursor <= incident'[i].cursor
                              /\ (incident[i].cursor + 1)..incident'[i].cursor = {}
    BY <1>6, <1>8
  <1> QED BY <1>2, <1>6, <1>7, <1>8, <1>9, <1>10, StoreStepInv

\* Every step of the Control API process.
LEMMA ApiStepInv ==
  ASSUME ApiInv, [ApiNext]_apiVars
  PROVE  ApiInv'
  <1>t. TypeOK
    BY DEF ApiInv, StoreInv, Inv
  <1>q. ASSUME NEW r \in Requests, Publish(r) PROVE pc' # pc
    <2>1. pc[r] = "committed" /\ pc' = [pc EXCEPT ![r] = "done"]
      BY <1>q DEF Publish, Finish
    <2>2. pc'[r] = "done"
      BY <1>t, <2>1 DEF TypeOK
    <2> QED BY <2>1, <2>2
  <1>1. CASE UNCHANGED apiVars
    <2>1. UNCHANGED vars /\ UNCHANGED stream /\ pc' = pc
      BY <1>1 DEF apiVars, vars, handler
    <2>2. ~\E r \in Requests : Publish(r)
      BY <1>q, <2>1
    <2> QED BY <2>1, <2>2, QuietApiStep
  <1>2. ASSUME NEW r \in Requests, UNCHANGED stream,
               \/ Receive(r) \/ InsertIncident(r) \/ LockIncident(r)
               \/ SaveIdempotency(r) \/ Commit(r) \/ Fail(r)
        PROVE  ApiInv'
    <2>1. [Next]_vars
      BY <1>2 DEF Next, Step
    <2>2. CASE ~\E o \in Requests : Publish(o)
      BY <1>2, <2>1, <2>2, QuietApiStep
    <2>3. ASSUME NEW o \in Requests, Publish(o) PROVE FALSE
      <3>1. /\ pc[o] = "committed" /\ pc' = [pc EXCEPT ![o] = "done"]
            /\ reply' = [reply EXCEPT ![o] = Accepted(AnswerOf(o))]
        BY <2>3 DEF Publish, Finish
      <3>2. /\ pc'[o] = "done" /\ reply'[o].status = "ok"
            /\ \A p \in Requests : p # o => pc'[p] = pc[p]
        BY <1>t, <3>1 DEF TypeOK, Accepted
      <3>3. CASE Fail(r)
        <4>1. /\ pc[r] # "done" /\ pc' = [pc EXCEPT ![r] = "done"]
              /\ reply' = [reply EXCEPT ![r] = Refusal("failed")]
          BY <3>3 DEF Fail, Finish
        <4>2. pc'[r] = "done" /\ reply'[r].status = "failed"
          BY <1>t, <4>1 DEF TypeOK, Refusal
        <4> QED BY <3>2, <4>1, <4>2
      <3>4. CASE ~Fail(r)
        <4>1. pc[r] # "committed"
          BY <1>2, <3>4 DEF Receive, CheckIdempotency, InsertIncident, LockIncident,
             SaveIdempotency, Commit
        <4>2. PICK p : pc' = [pc EXCEPT ![r] = p] /\ p # pc[r]
          BY <1>2, <3>4 DEF Receive, CheckIdempotency, InsertIncident, LockIncident,
             SaveIdempotency, Commit, Goto, Finish
        <4>3. pc'[r] # pc[r]
          BY <1>t, <4>2 DEF TypeOK
        <4> QED BY <3>1, <3>2, <4>1, <4>3
      <3> QED BY <3>3, <3>4
    <2> QED BY <2>2, <2>3
  <1>3. ASSUME NEW i \in Incidents, NEW a \in ActionIds, NEW d \in ActionDigests,
               ProposeAction(i, a, d), UNCHANGED stream
        PROVE  ApiInv'
    <2>1. [Next]_vars
      BY <1>3 DEF Next
    <2>2. ~\E r \in Requests : Publish(r)
      <3>1. pc' = pc
        BY <1>3 DEF ProposeAction, handler
      <3> QED BY <1>q, <3>1
    <2> QED BY <1>3, <2>1, <2>2, QuietApiStep
  <1>4. ASSUME NEW s \in Streams, UNCHANGED vars,
               \/ YieldReplay(s) \/ EndReplay(s) \/ Wait(s) \/ Heartbeat(s) \/ Take(s)
               \/ SlowConsumer(s) \/ Disconnect(s)
        PROVE  ApiInv'
    BY <1>4, ApiStreamStepInv DEF StreamStep
  <1>5. CASE ApiNext
    <2>1. ASSUME NEW r \in Requests,
                 \/ (Receive(r) /\ UNCHANGED stream) \/ (InsertIncident(r) /\ UNCHANGED stream)
                 \/ (LockIncident(r) /\ UNCHANGED stream) \/ SaveOnly(r)
                 \/ (Commit(r) /\ UNCHANGED stream) \/ PublishToStreams(r)
                 \/ (Fail(r) /\ UNCHANGED stream)
          PROVE  ApiInv'
      BY <1>2, <2>1, PublishApiStep DEF SaveOnly
    <2>2. ASSUME NEW s \in Streams,
                 \/ ReplayProjection(s) \/ (\E i \in Incidents : OpenStream(s, i))
                 \/ /\ UNCHANGED vars
                    /\ \/ YieldReplay(s) \/ EndReplay(s) \/ Wait(s) \/ Heartbeat(s)
                       \/ Take(s) \/ SlowConsumer(s) \/ Disconnect(s)
          PROVE  ApiInv'
      BY <1>4, <2>2, ReplayProjectionInv, OpenStreamInv
    <2>3. ASSUME NEW i \in Incidents, NEW a \in ActionIds, NEW d \in ActionDigests,
                 ProposeAction(i, a, d) /\ UNCHANGED stream
          PROVE  ApiInv'
      BY <1>3, <2>3
    <2> QED BY <1>5, <2>1, <2>2, <2>3, Zenon DEF ApiNext
  <1> QED BY <1>1, <1>5

\* ApiInv is an invariant of the Control API.
THEOREM ApiInvariant == ApiSpec => []ApiInv
  <1>1. ApiInit => ApiInv
    BY ApiInitInv
  <1>2. ApiInv /\ [ApiNext]_apiVars => ApiInv'
    BY ApiStepInv
  <1> QED BY <1>1, <1>2, PTL DEF ApiSpec

\* Of the Control API: a client is shown durable events only, in order and
\* once, and an open stream that was not marked slow holds, in its replay or
\* its queue, every published event that it has not delivered.
THEOREM StreamsAreExact == ApiSpec => []StreamExact
  <1>1. ApiInv => StreamExact
    <2> SUFFICES ASSUME ApiInv PROVE StreamExact
      OBVIOUS
    <2>1. ASSUME NEW s \in Streams
          PROVE  /\ stream[s] \in StreamRecord
                 /\ Sound(stream[s], ApiTop(stream[s].incident))
                 /\ Covered(stream[s], ApiTop(stream[s].incident), Hidden(stream[s].incident))
      BY DEF ApiInv, ApiStreams
    <2>2. DeliveredInOrder
      BY <2>1 DEF DeliveredInOrder, Sound, HistorySound
    <2>3. OnlyCommittedDelivered
      <3> SUFFICES ASSUME NEW s \in Streams
                   PROVE  LET Committed == IF stream[s].incident = None THEN {}
                                           ELSE Retained(stream[s].incident)
                          IN /\ Seen(s) \subseteq Committed
                             /\ \A k \in DOMAIN stream[s].queue :
                                  stream[s].queue[k] \in Committed
        BY DEF OnlyCommittedDelivered
      <3>1. CASE stream[s].incident = None
        <4>1. stream[s].seen = <<>> /\ stream[s].queue = <<>>
          BY <2>1, <3>1 DEF Sound, FollowsSound
        <4> QED BY <3>1, <4>1 DEF Seen
      <3>2. CASE stream[s].incident # None
        <4>1. PICK i \in Incidents : i = stream[s].incident
          BY <2>1, <3>2 DEF StreamRecord
        <4>2. Retained(i) = 1..ApiTop(i)
          BY <3>2, <4>1 DEF ApiTop, Retained, ApiInv, StoreInv, Inv, ProjectionContiguous
        <4>3. /\ \A k \in DOMAIN stream[s].seen : stream[s].seen[k] \in 1..ApiTop(i)
              /\ \A k \in DOMAIN stream[s].queue : stream[s].queue[k] \in 1..ApiTop(i)
          BY <2>1, <4>1 DEF Sound, HistorySound
        <4> QED BY <3>2, <4>1, <4>2, <4>3 DEF Seen
      <3> QED BY <3>1, <3>2
    <2>4. StreamCovers
      <3> SUFFICES ASSUME NEW s \in Streams, stream[s].pc \in Open, ~stream[s].overflow,
                     NEW n \in (stream[s].delivered + 1)..incident[stream[s].incident].cursor
                   PROVE  \/ n \in stream[s].replay
                          \/ \E k \in DOMAIN stream[s].queue : stream[s].queue[k] = n
                          \/ Unpublished(stream[s].incident, n)
        BY DEF StreamCovers, Open
      <3>1. stream[s].incident # None
        BY <2>1 DEF Sound, FollowsSound, Open
      <3>2. ApiTop(stream[s].incident) = incident[stream[s].incident].cursor
        BY <3>1 DEF ApiTop
      <3>3. \/ n \in stream[s].replay \cup Hidden(stream[s].incident)
            \/ \E k \in DOMAIN stream[s].queue : stream[s].queue[k] = n
        BY <2>1, <3>2 DEF Covered
      <3> QED BY <3>1, <3>3 DEF Hidden
    <2> QED BY <2>2, <2>3, <2>4 DEF StreamExact
  <1> QED BY <1>1, ApiInvariant, PTL
=============================================================================
