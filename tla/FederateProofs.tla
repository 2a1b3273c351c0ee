--------------------------- MODULE FederateProofs ---------------------------
(***************************************************************************)
(* Theorems about the whole federate, for any number of nodes, commands    *)
(* and messages.  FedInv adds to the manager's own invariant, IInv, how    *)
(* far the commands have got: those that have been handled are the first   *)
(* ones that were issued, each node is as they have made it, and what they *)
(* have sent to the apps is still to arrive at the same time, in the order *)
(* of their numbers.                                                       *)
(***************************************************************************)
EXTENDS Federate, ScenarioManagerProofs, FiniteSetTheorems

FesEvent == [time : Nat, kind : EventKinds, of : Nat]

(* At time t the events es are in the order of their times, and none is    *)
(* past; messages arrive at once; and commands are in the order of their   *)
(* issue, each at the time that l, the commands issued, has for it.        *)
InOrder(es, t, l) ==
    /\ es \in Seq(FesEvent)
    /\ \A i, j \in DOMAIN es : i < j => es[i].time <= es[j].time
    /\ \A i \in DOMAIN es : t <= es[i].time
    /\ \A i \in DOMAIN es : es[i].kind = "MESSAGE" => es[i].time = t
    /\ \A i \in DOMAIN es : es[i].kind = "COMMAND" =>
          es[i].of \in DOMAIN l /\ es[i].time = l[es[i].of].time
    /\ \A i, j \in DOMAIN es :
          i < j /\ es[i].kind = "COMMAND" /\ es[j].kind = "COMMAND" =>
             es[i].of < es[j].of

EventsInOrder ==
    /\ InOrder(fes, clock, log)
    /\ clock <= grant
    /\ running \/ pending = <<>>

(* The commands that have been handled are the first that were issued.     *)
CommandsInOrder ==
    /\ \E n \in 0 .. Len(log) : Handled = 1 .. n
    /\ \A k, l \in DOMAIN log : k < l => log[k].time <= log[l].time

(* A command makes sense after those before it. *)
CommandsSensible ==
    \A k \in DOMAIN log :
       LET c == log[k]
           before == 1 .. (k - 1)
       IN  /\ c.added = AddedBy(k - 1)
                 + (IF c.operation \in Additions THEN Len(c.ids) ELSE 0)
           /\ \A i, j \in DOMAIN c.ids : c.ids[i] = c.ids[j] => i = j
           /\ c.operation \notin Operations => Len(c.ids) = 1
           /\ c.operation \in Additions => \A i \in DOMAIN c.ids :
                 c.ids[i] \notin Present(before) /\ c.ids[i] <= AddedBy(k - 1)
           /\ c.operation \in {"MOVE_NODES", "REMOVE_NODES"} =>
                 \A i \in DOMAIN c.ids : c.ids[i] \in Present(before)

(* The command of which a part is still to be done is the last one that    *)
(* has been taken.                                                         *)
CommandUnderway ==
    todo # <<>> =>
       /\ running
       /\ current \in DOMAIN log /\ Handled = 1 .. current
       /\ clock = log[current].time
       /\ \A i \in DOMAIN todo :
             todo[i].operation = log[current].operation
                /\ Names(current, todo[i].id)
       /\ \A i, j \in DOMAIN todo : todo[i].id = todo[j].id => i = j
       /\ Len(todo) <= Len(log[current].ids)

(* Modules have been created as commands have asked for nodes. *)
NodesAdded ==
    \A n \in 0 .. Len(log) : Handled = 1 .. n =>
       AddedBy(n) = Len(externalId)
          + (IF todo # <<>> /\ log[current].operation \in Additions
             THEN Len(todo) ELSE 0)

(* The commands that have had their effect on a node. *)
Effective(id) ==
    IF \E i \in DOMAIN todo : todo[i].id = id THEN Handled \ {current} ELSE Handled

(* The node, or its absence, is what those commands have made of it. *)
AsOrdered(id) ==
    /\ id \in Mapped <=> id \in Present(Effective(id))
    /\ id \in Mapped => Placed(place[nodes[id].module], Effective(id), id)

NodesAsOrdered == mode = "up" => \A id \in Ids : AsOrdered(id)

(* q is the sequence of what the messages among events es belong to. *)
Follows(es, q) ==
    \E g \in [DOMAIN q -> DOMAIN es] :
       /\ \A i, j \in DOMAIN q : i < j => g[i] < g[j]
       /\ \A p \in DOMAIN es : es[p].kind = "MESSAGE" <=> \E i \in DOMAIN q : g[i] = p
       /\ \A i \in DOMAIN q : es[g[i]].of = q[i]

(* Message i has a command that made it; reports to the manager have none. *)
Sources(q) ==
    \A i \in DOMAIN pending :
       IF pending[i].to = Manager
       THEN q[i] = 0
       ELSE /\ q[i] \in Handled
            /\ Names(q[i], pending[i].id)
            /\ log[q[i]].operation = IF pending[i].packet = NoPacket
                                     THEN "CONF_RADIO" ELSE "MSG_SEND"

(* Module m has, or is about to get by one of the messages before the j-th *)
(* one, the configuration that the first n commands give its node.         *)
Configured(q, m, n, j) ==
    \E k \in 1 .. n :
       /\ IsLast(k, 1 .. n, externalId[m], Additions \cup {"CONF_RADIO"})
       /\ IF log[k].operation = "CONF_RADIO"
          THEN conf[m] = k \/ \E i \in 1 .. (j - 1) : pending[i].to = m /\ q[i] = k
          ELSE /\ conf[m] = None
               /\ \A i \in 1 .. (j - 1) :
                     pending[i].to = m => pending[i].packet # NoPacket

(* Messages are in the order of the commands they come from, and each app  *)
(* will be configured for every message by those before it.                *)
InOrderOfIssue(q) ==
    /\ \A i, j \in DOMAIN pending :
          i < j /\ pending[i].to # Manager /\ pending[j].to # Manager => q[i] < q[j]
    /\ \A i \in DOMAIN pending :
          pending[i].to # Manager => conf[pending[i].to] < q[i]
    /\ \A i \in DOMAIN pending :
          pending[i].to \in Alive => Configured(q, pending[i].to, q[i] - 1, i)
    /\ \A n \in 0 .. Len(log) : Handled = 1 .. n =>
          \A m \in Alive : Configured(q, m, n, Len(pending) + 1)

MessagesQueued ==
    /\ \A m \in DOMAIN conf : conf[m] \in {None} \cup Handled
    /\ \E q \in [DOMAIN pending -> 0 .. Len(log)] :
          Follows(fes, q) /\ Sources(q) /\ InOrderOfIssue(q)

(* The module at the end of a message that is not the manager's. *)
AppOf(p) == IF p.to = Manager THEN p.from ELSE p.to

(* If it is gone, it went just now. *)
RemovalsNow ==
    mode = "up" =>
       \A i \in DOMAIN pending :
          LET m == AppOf(pending[i])
          IN  m \notin Alive => \E k \in Handled :
                 /\ log[k].operation = "REMOVE_NODES"
                 /\ Names(k, externalId[m])
                 /\ log[k].time = clock

(* The federate has got as far as the commands it has taken: every node    *)
(* and every message is as they order it.                                  *)
FedInv ==
    /\ IInv
    /\ FederateTypeOK
    /\ NoError
    /\ EventsInOrder
    /\ CommandsInOrder
    /\ CommandsSensible
    /\ CommandUnderway
    /\ NodesAdded
    /\ NodesAsOrdered
    /\ MessagesQueued
    /\ RemovalsNow

-----------------------------------------------------------------------------
(* Sequences of events *)

(* A function on the first numbers is a sequence. *)
LEMMA FunctionIsSeq ==
    ASSUME NEW S, NEW n \in Nat, NEW f \in [1 .. n -> S]
    PROVE  f \in Seq(S) /\ Len(f) = n
  OBVIOUS

(* The first event leaves. *)
LEMMA TailEvents ==
    ASSUME NEW S, NEW es \in Seq(S), es # <<>>
    PROVE  /\ Tail(es) \in Seq(S)
           /\ Len(es) \in Nat /\ Len(Tail(es)) = Len(es) - 1
           /\ 1 \in DOMAIN es /\ Head(es) = es[1] /\ Head(es) \in S
           /\ \A i \in DOMAIN Tail(es) : i + 1 \in DOMAIN es /\ Tail(es)[i] = es[i + 1]
           /\ \A i \in DOMAIN es : i # 1 =>
                 i - 1 \in DOMAIN Tail(es) /\ Tail(es)[i - 1] = es[i]
  OBVIOUS

(* An event is inserted behind those of its time. *)
LEMMA InsertEvents ==
    ASSUME NEW es \in Seq(FesEvent), NEW e \in FesEvent, NEW fs \in Insert(es, e)
    PROVE  \E n \in 0 .. Len(es) :
              /\ fs \in Seq(FesEvent) /\ Len(fs) = Len(es) + 1
              /\ \A i \in DOMAIN es : es[i].time <= e.time <=> i <= n
              /\ \A i \in 1 .. n : fs[i] = es[i]
              /\ fs[n + 1] = e
              /\ \A i \in (n + 1) .. Len(es) : fs[i + 1] = es[i]
<1>1. PICK n \in 0 .. Len(es) :
         /\ fs = InsertedAt(es, e, n)
         /\ \A i \in DOMAIN es : es[i].time <= e.time <=> i <= n
  BY DEF Insert
<1>2. Len(es) \in Nat /\ n \in Nat /\ n <= Len(es) /\ DOMAIN es = 1 .. Len(es)
  OBVIOUS
<1>3. fs = [i \in 1 .. Len(es) + 1 |->
              IF i <= n THEN es[i] ELSE IF i = n + 1 THEN e ELSE es[i - 1]]
  BY <1>1, <1>2 DEF InsertedAt
<1>4. \A i \in 1 .. Len(es) + 1 :
         (IF i <= n THEN es[i] ELSE IF i = n + 1 THEN e ELSE es[i - 1]) \in FesEvent
  BY <1>2
<1>5. fs \in [1 .. Len(es) + 1 -> FesEvent]
  BY <1>3, <1>4
<1>6. fs \in Seq(FesEvent) /\ Len(fs) = Len(es) + 1
  BY <1>2, <1>5
<1>7. \A i \in 1 .. n : fs[i] = es[i]
  BY <1>2, <1>3
<1>8. fs[n + 1] = e
  BY <1>2, <1>3
<1>9. \A i \in (n + 1) .. Len(es) : fs[i + 1] = es[i]
  BY <1>2, <1>3
<1> QED
  BY <1>1, <1>6, <1>7, <1>8, <1>9

(* fs is es with e put at one place; the others move. *)
Moved(es, e, fs, at, to) ==
    /\ fs \in Seq(FesEvent) /\ fs[at] = e /\ at \in DOMAIN fs
    /\ to \in [DOMAIN es -> DOMAIN fs]
    /\ \A i \in DOMAIN es : to[i] # at /\ fs[to[i]] = es[i]
    /\ \A i, j \in DOMAIN es : i < j <=> to[i] < to[j]
    /\ \A i, j \in DOMAIN es : to[i] = to[j] => i = j
    /\ \A p \in DOMAIN fs : p = at \/ \E i \in DOMAIN es : to[i] = p
    /\ \A i \in DOMAIN es : es[i].time <= e.time <=> to[i] < at

(* The same, by the places from which and to which events move. *)
LEMMA InsertPlaces ==
    ASSUME NEW es \in Seq(FesEvent), NEW e \in FesEvent, NEW fs \in Insert(es, e)
    PROVE  \E at, to : Moved(es, e, fs, at, to)
<1>1. PICK n \in 0 .. Len(es) :
              /\ fs \in Seq(FesEvent) /\ Len(fs) = Len(es) + 1
              /\ \A i \in DOMAIN es : es[i].time <= e.time <=> i <= n
              /\ \A i \in 1 .. n : fs[i] = es[i]
              /\ fs[n + 1] = e
              /\ \A i \in (n + 1) .. Len(es) : fs[i + 1] = es[i]
  BY InsertEvents
<1>2. /\ Len(es) \in Nat /\ n \in Nat /\ n <= Len(es)
      /\ DOMAIN es = 1 .. Len(es) /\ DOMAIN fs = 1 .. Len(es) + 1
  BY <1>1
<1> DEFINE to == [i \in DOMAIN es |-> IF i <= n THEN i ELSE i + 1]
<1>3. to \in [DOMAIN es -> DOMAIN fs]
  BY <1>2
<1>4. \A i \in DOMAIN es : to[i] = IF i <= n THEN i ELSE i + 1
  OBVIOUS
<1> HIDE DEF to
<1>5. \A i \in DOMAIN es : to[i] # n + 1 /\ fs[to[i]] = es[i]
  BY <1>1, <1>2, <1>4
<1>6. \A i, j \in DOMAIN es : i < j <=> to[i] < to[j]
  BY <1>2, <1>4
<1>7. \A p \in DOMAIN fs : p = n + 1 \/ \E i \in DOMAIN es : to[i] = p
  <2> SUFFICES ASSUME NEW p \in DOMAIN fs, p # n + 1
               PROVE  \E i \in DOMAIN es : to[i] = p
    OBVIOUS
  <2>1. CASE p <= n
    <3>1. p \in DOMAIN es /\ to[p] = p
      BY <1>2, <1>4, <2>1
    <3> QED
      BY <3>1
  <2>2. CASE p > n
    <3>1. p - 1 \in DOMAIN es /\ ~(p - 1 <= n) /\ (p - 1) + 1 = p
      BY <1>2, <2>2
    <3> QED
      BY <1>4, <3>1
  <2> QED
    BY <1>2, <2>1, <2>2
<1>8. \A i \in DOMAIN es : es[i].time <= e.time <=> to[i] < n + 1
  BY <1>1, <1>2, <1>4
<1>9. n + 1 \in DOMAIN fs
  BY <1>2
<1>10. \A i, j \in DOMAIN es : to[i] = to[j] => i = j
  BY <1>2, <1>4
<1>11. Moved(es, e, fs, n + 1, to)
  BY <1>1, <1>3, <1>5, <1>6, <1>7, <1>8, <1>9, <1>10 DEF Moved
<1> QED
  BY <1>11

(* Another event than a message leaves. *)
LEMMA TailOther ==
    ASSUME NEW es \in Seq(FesEvent), es # <<>>, Head(es).kind # "MESSAGE",
           NEW q \in Seq(Nat), Follows(es, q)
    PROVE  Follows(Tail(es), q)
<1>1. PICK g \in [DOMAIN q -> DOMAIN es] :
         /\ \A i, j \in DOMAIN q : i < j => g[i] < g[j]
         /\ \A p \in DOMAIN es : es[p].kind = "MESSAGE" <=> \E i \in DOMAIN q : g[i] = p
         /\ \A i \in DOMAIN q : es[g[i]].of = q[i]
  BY DEF Follows
<1>2. /\ 1 \in DOMAIN es /\ Head(es) = es[1]
      /\ \A i \in DOMAIN Tail(es) : i + 1 \in DOMAIN es /\ Tail(es)[i] = es[i + 1]
      /\ \A i \in DOMAIN es : i # 1 =>
            i - 1 \in DOMAIN Tail(es) /\ Tail(es)[i - 1] = es[i]
  BY TailEvents
<1>3. DOMAIN es \subseteq Nat /\ DOMAIN Tail(es) \subseteq Nat /\ DOMAIN q \subseteq Nat
  OBVIOUS
<1>4. \A i \in DOMAIN q : g[i] \in DOMAIN es /\ g[i] # 1
  BY <1>1, <1>2
<1> DEFINE h == [i \in DOMAIN q |-> g[i] - 1]
<1>5. h \in [DOMAIN q -> DOMAIN Tail(es)]
  BY <1>2, <1>4
<1>6. \A i \in DOMAIN q : h[i] = g[i] - 1
  OBVIOUS
<1> HIDE DEF h
<1>7. \A i, j \in DOMAIN q : i < j => h[i] < h[j]
  BY <1>1, <1>3, <1>4, <1>6
<1>8. \A p \in DOMAIN Tail(es) :
         Tail(es)[p].kind = "MESSAGE" <=> \E i \in DOMAIN q : h[i] = p
  <2> TAKE p \in DOMAIN Tail(es)
  <2>1. p + 1 \in DOMAIN es /\ Tail(es)[p] = es[p + 1] /\ p \in Nat
    BY <1>2, <1>3
  <2>2. \A i \in DOMAIN q : h[i] = p <=> g[i] = p + 1
    BY <1>3, <1>4, <1>6, <2>1
  <2> QED
    BY <1>1, <2>1, <2>2
<1>9. \A i \in DOMAIN q : Tail(es)[h[i]].of = q[i]
  BY <1>1, <1>2, <1>4, <1>6
<1> QED
  BY <1>5, <1>7, <1>8, <1>9 DEF Follows

(* The first message leaves. *)
LEMMA TailMessage ==
    ASSUME NEW es \in Seq(FesEvent), es # <<>>, Head(es).kind = "MESSAGE",
           NEW q \in Seq(Nat), Follows(es, q)
    PROVE  q # <<>> /\ q[1] = Head(es).of /\ Follows(Tail(es), Tail(q))
<1>1. PICK g \in [DOMAIN q -> DOMAIN es] :
         /\ \A i, j \in DOMAIN q : i < j => g[i] < g[j]
         /\ \A p \in DOMAIN es : es[p].kind = "MESSAGE" <=> \E i \in DOMAIN q : g[i] = p
         /\ \A i \in DOMAIN q : es[g[i]].of = q[i]
  BY DEF Follows
<1>2. /\ 1 \in DOMAIN es /\ Head(es) = es[1]
      /\ \A i \in DOMAIN Tail(es) : i + 1 \in DOMAIN es /\ Tail(es)[i] = es[i + 1]
      /\ \A i \in DOMAIN es : i # 1 =>
            i - 1 \in DOMAIN Tail(es) /\ Tail(es)[i - 1] = es[i]
  BY TailEvents
<1>3. /\ DOMAIN es = 1 .. Len(es) /\ DOMAIN Tail(es) \subseteq Nat \ {0}
      /\ DOMAIN q = 1 .. Len(q) /\ Len(q) \in Nat /\ Len(es) \in Nat
  OBVIOUS
<1>4. PICK f \in DOMAIN q : g[f] = 1
  BY <1>1, <1>2
<1>5. q # <<>> /\ 1 \in DOMAIN q
  BY <1>3, <1>4
<1>a. \A i \in DOMAIN q : g[i] \in DOMAIN es /\ g[i] \in Nat /\ 1 <= g[i]
  BY <1>3
<1>6. f = 1
  <2> SUFFICES ASSUME f # 1 PROVE FALSE
    OBVIOUS
  <2>1. 1 < f
    BY <1>3
  <2>2. g[1] < g[f]
    BY <2>1, <1>1, <1>5
  <2> QED
    BY <2>2, <1>4, <1>5, <1>a
<1>7. /\ Tail(q) \in Seq(Nat)
      /\ \A i \in DOMAIN Tail(q) : i + 1 \in DOMAIN q /\ Tail(q)[i] = q[i + 1]
      /\ \A i \in DOMAIN q : i # 1 =>
            i - 1 \in DOMAIN Tail(q) /\ Tail(q)[i - 1] = q[i]
  BY <1>5, TailEvents
<1>8. \A i \in DOMAIN q : i # 1 => g[i] # 1
  <2> SUFFICES ASSUME NEW i \in DOMAIN q, i # 1 PROVE g[i] # 1
    OBVIOUS
  <2>1. 1 < i
    BY <1>3
  <2>2. g[1] < g[i]
    BY <2>1, <1>1, <1>5
  <2> QED
    BY <2>2, <1>5, <1>a
<1> DEFINE r == Tail(q)
           fs == Tail(es)
<1>9. DOMAIN r \subseteq Nat
  BY <1>7
<1>c. \A i \in DOMAIN fs :
         i + 1 \in DOMAIN es /\ fs[i] = es[i + 1] /\ i \in Nat /\ i # 0
  BY <1>2, <1>3
<1>d. \A i \in DOMAIN es : i # 1 => i - 1 \in DOMAIN fs /\ fs[i - 1] = es[i]
  BY <1>2
<1>e. \A i \in DOMAIN r : r[i] = q[i + 1]
  BY <1>7
<1>f. \A i \in DOMAIN q : i # 1 => i - 1 \in DOMAIN r
  BY <1>7
<1> DEFINE h == [i \in DOMAIN r |-> g[i + 1] - 1]
<1>10. \A i \in DOMAIN r : i \in Nat /\ i + 1 \in DOMAIN q /\ i + 1 # 1
  BY <1>7, <1>9
<1>b. \A i \in DOMAIN r :
         g[i + 1] \in DOMAIN es /\ g[i + 1] # 1 /\ g[i + 1] \in Nat
  BY <1>8, <1>a, <1>10
<1> HIDE DEF r, fs
<1>11. h \in [DOMAIN r -> DOMAIN fs]
  BY <1>d, <1>b
<1>12. \A i \in DOMAIN r : h[i] = g[i + 1] - 1
  OBVIOUS
<1> HIDE DEF h
<1>13. \A i, j \in DOMAIN r : i < j => h[i] < h[j]
  <2> TAKE i, j \in DOMAIN r
  <2> HAVE i < j
  <2>1. g[i + 1] < g[j + 1]
    BY <1>1, <1>10
  <2> QED
    BY <1>b, <1>12, <2>1
<1>14. \A p \in DOMAIN fs :
         fs[p].kind = "MESSAGE" <=> \E i \in DOMAIN r : h[i] = p
  <2> TAKE p \in DOMAIN fs
  <2>1. p + 1 \in DOMAIN es /\ fs[p] = es[p + 1] /\ p \in Nat /\ p # 0
    BY <1>c
  <2>2. \A i \in DOMAIN r : h[i] = p <=> g[i + 1] = p + 1
    BY <1>b, <1>12, <2>1, SMTT(60)
  <2>3. (\E i \in DOMAIN q : g[i] = p + 1)
           => \E i \in DOMAIN r : g[i + 1] = p + 1
    <3>1. ASSUME NEW i \in DOMAIN q, g[i] = p + 1
          PROVE  i - 1 \in DOMAIN r /\ (i - 1) + 1 = i
      <4>1. i # 1
        BY <1>3, <1>4, <1>6, <2>1, <3>1
      <4>2. i \in Nat
        BY <1>3
      <4> QED
        BY <1>f, <4>1, <4>2
    <3> QED
      BY <3>1
  <2> QED
    BY <1>1, <1>10, <2>1, <2>2, <2>3, SMTT(60)
<1>15. \A i \in DOMAIN r : fs[h[i]].of = r[i]
  BY <1>1, <1>b, <1>d, <1>e, <1>10, <1>12, SMTT(60)
<1>16. Follows(fs, r)
  BY <1>11, <1>13, <1>14, <1>15 DEF Follows
<1>17. q[1] = Head(es).of
  BY <1>1, <1>2, <1>4, <1>6
<1> QED
  BY <1>5, <1>16, <1>17 DEF r, fs

(* Another event than a message is inserted. *)
LEMMA InsertOther ==
    ASSUME NEW es \in Seq(FesEvent), NEW e \in FesEvent, e.kind # "MESSAGE",
           NEW fs \in Insert(es, e), NEW q \in Seq(Nat), Follows(es, q)
    PROVE  Follows(fs, q)
<1>1. PICK g \in [DOMAIN q -> DOMAIN es] :
         /\ \A i, j \in DOMAIN q : i < j => g[i] < g[j]
         /\ \A p \in DOMAIN es : es[p].kind = "MESSAGE" <=> \E i \in DOMAIN q : g[i] = p
         /\ \A i \in DOMAIN q : es[g[i]].of = q[i]
  BY DEF Follows
<1>a. PICK at, to : Moved(es, e, fs, at, to)
  BY InsertPlaces
<1>2. /\ fs[at] = e /\ at \in DOMAIN fs /\ to \in [DOMAIN es -> DOMAIN fs]
      /\ \A i \in DOMAIN es : to[i] # at /\ fs[to[i]] = es[i]
      /\ \A i, j \in DOMAIN es : i < j <=> to[i] < to[j]
      /\ \A p \in DOMAIN fs : p = at \/ \E i \in DOMAIN es : to[i] = p
      /\ \A i \in DOMAIN es : es[i].time <= e.time <=> to[i] < at
  BY <1>a DEF Moved
<1> DEFINE h == [i \in DOMAIN q |-> to[g[i]]]
<1>3. h \in [DOMAIN q -> DOMAIN fs]
  BY <1>2
<1>4. \A i \in DOMAIN q : h[i] = to[g[i]] /\ g[i] \in DOMAIN es
  OBVIOUS
<1> HIDE DEF h
<1>5. \A i, j \in DOMAIN q : i < j => h[i] < h[j]
  BY <1>1, <1>2, <1>4
<1>6. \A i, j \in DOMAIN es : to[i] = to[j] => i = j
  BY <1>a DEF Moved
<1>7. \A p \in DOMAIN fs : fs[p].kind = "MESSAGE" <=> \E i \in DOMAIN q : h[i] = p
  <2> TAKE p \in DOMAIN fs
  <2>1. CASE p = at
    BY <2>1, <1>2, <1>4
  <2>2. CASE p # at
    <3>1. PICK l \in DOMAIN es : to[l] = p /\ fs[p] = es[l]
      BY <2>2, <1>2
    <3>2. \A i \in DOMAIN q : h[i] = p <=> g[i] = l
      BY <1>4, <1>6, <3>1
    <3> QED
      BY <1>1, <3>1, <3>2
  <2> QED
    BY <2>1, <2>2
<1>8. \A i \in DOMAIN q : fs[h[i]].of = q[i]
  BY <1>1, <1>2, <1>4
<1> QED
  BY <1>3, <1>5, <1>7, <1>8 DEF Follows

(* A message is inserted behind all messages. *)
LEMMA InsertMessage ==
    ASSUME NEW es \in Seq(FesEvent), NEW e \in FesEvent, e.kind = "MESSAGE",
           NEW fs \in Insert(es, e), NEW q \in Seq(Nat), Follows(es, q),
           \A i \in DOMAIN es : es[i].kind = "MESSAGE" => es[i].time <= e.time
    PROVE  Follows(fs, Append(q, e.of))
<1>1. PICK g \in [DOMAIN q -> DOMAIN es] :
         /\ \A i, j \in DOMAIN q : i < j => g[i] < g[j]
         /\ \A p \in DOMAIN es : es[p].kind = "MESSAGE" <=> \E i \in DOMAIN q : g[i] = p
         /\ \A i \in DOMAIN q : es[g[i]].of = q[i]
  BY DEF Follows
<1>a. PICK at, to : Moved(es, e, fs, at, to)
  BY InsertPlaces
<1>2. /\ fs[at] = e /\ at \in DOMAIN fs /\ to \in [DOMAIN es -> DOMAIN fs]
      /\ \A i \in DOMAIN es : to[i] # at /\ fs[to[i]] = es[i]
      /\ \A i, j \in DOMAIN es : i < j <=> to[i] < to[j]
      /\ \A p \in DOMAIN fs : p = at \/ \E i \in DOMAIN es : to[i] = p
      /\ \A i \in DOMAIN es : es[i].time <= e.time <=> to[i] < at
  BY <1>a DEF Moved
<1> DEFINE r == Append(q, e.of)
           z == Len(q) + 1
<1>3. /\ DOMAIN r = DOMAIN q \cup {z} /\ z \notin DOMAIN q /\ z \in Nat
      /\ \A i \in DOMAIN q : r[i] = q[i] /\ i < z /\ ~(z < i)
      /\ r[z] = e.of
  BY SMTT(60) DEF FesEvent
<1> HIDE DEF r, z
<1> DEFINE h == [i \in DOMAIN r |-> IF i = z THEN at ELSE to[g[i]]]
<1>4. \A i \in DOMAIN q : g[i] \in DOMAIN es /\ to[g[i]] \in DOMAIN fs
  BY <1>2
<1>5. h \in [DOMAIN r -> DOMAIN fs]
  BY <1>2, <1>3, <1>4
<1>6. h[z] = at /\ \A i \in DOMAIN q : h[i] = to[g[i]]
  BY <1>3
<1> HIDE DEF h
<1>7. \A i \in DOMAIN q : h[i] < at
  <2> TAKE i \in DOMAIN q
  <2>1. es[g[i]].kind = "MESSAGE"
    BY <1>1, <1>4
  <2> QED
    BY <1>2, <1>4, <1>6, <2>1
<1>8. \A i, j \in DOMAIN r : i < j => h[i] < h[j]
  <2> TAKE i, j \in DOMAIN r
  <2> HAVE i < j
  <2>1. i # z
    BY <1>3
  <2>2. CASE j = z
    BY <2>1, <2>2, <1>3, <1>6, <1>7
  <2>3. CASE j # z
    <3>1. i \in DOMAIN q /\ j \in DOMAIN q
      BY <2>1, <2>3, <1>3
    <3> QED
      BY <3>1, <1>1, <1>2, <1>4, <1>6
  <2> QED
    BY <2>2, <2>3
<1>9. \A i, j \in DOMAIN es : to[i] = to[j] => i = j
  BY <1>a DEF Moved
<1>10. \A p \in DOMAIN fs : fs[p].kind = "MESSAGE" <=> \E i \in DOMAIN r : h[i] = p
  <2> TAKE p \in DOMAIN fs
  <2>1. CASE p = at
    BY <2>1, <1>2, <1>3, <1>6
  <2>2. CASE p # at
    <3>1. PICK l \in DOMAIN es : to[l] = p /\ fs[p] = es[l]
      BY <2>2, <1>2
    <3>2. \A i \in DOMAIN q : h[i] = p <=> g[i] = l
      BY <1>4, <1>6, <1>9, <3>1
    <3>3. (\E i \in DOMAIN r : h[i] = p) <=> \E i \in DOMAIN q : h[i] = p
      BY <2>2, <1>3, <1>6
    <3> QED
      BY <1>1, <3>1, <3>2, <3>3, ZenonT(60)
  <2> QED
    BY <2>1, <2>2
<1>11. \A i \in DOMAIN r : fs[h[i]].of = r[i]
  BY <1>1, <1>2, <1>3, <1>4, <1>6
<1>12. Follows(fs, r)
  BY <1>5, <1>8, <1>10, <1>11 DEF Follows
<1> QED
  BY <1>12 DEF r

(* What the numbers of the commands among events es are. *)
CommandsOf(es) ==
    {k \in Nat : \E i \in DOMAIN es : es[i].kind = "COMMAND" /\ es[i].of = k}

LEMMA TailOrder ==
    ASSUME NEW es, NEW t, NEW l, InOrder(es, t, l), es # <<>>, t \in Nat
    PROVE  /\ Head(es) \in FesEvent /\ t <= Head(es).time
           /\ \A i \in DOMAIN es : Head(es).time <= es[i].time
           /\ Head(es).kind = "COMMAND" =>
                 /\ Head(es).of \in DOMAIN l /\ Head(es).time = l[Head(es).of].time
                 /\ Head(es).of \in CommandsOf(es)
                 /\ \A k \in CommandsOf(es) : Head(es).of <= k
           /\ InOrder(Tail(es), Head(es).time, l)
           /\ CommandsOf(Tail(es)) =
                 IF Head(es).kind = "COMMAND" THEN CommandsOf(es) \ {Head(es).of}
                                              ELSE CommandsOf(es)
<1> DEFINE fs == Tail(es)
           h == Head(es)
<1>1. /\ es \in Seq(FesEvent) /\ fs \in Seq(FesEvent)
      /\ 1 \in DOMAIN es /\ h = es[1] /\ h \in FesEvent
      /\ \A i \in DOMAIN fs : i + 1 \in DOMAIN es /\ fs[i] = es[i + 1]
      /\ \A i \in DOMAIN es : i # 1 =>
            i - 1 \in DOMAIN fs /\ fs[i - 1] = es[i]
  BY TailEvents DEF InOrder
<1> HIDE DEF fs, h
<1>2. /\ \A i \in DOMAIN es : i \in Nat /\ 1 <= i /\ es[i] \in FesEvent
      /\ \A i \in DOMAIN fs : i \in Nat /\ 1 <= i /\ fs[i] \in FesEvent
  BY <1>1
<1>3. h.time \in Nat /\ t <= h.time
  BY <1>1 DEF InOrder, FesEvent
<1>4. \A i \in DOMAIN es : h.time <= es[i].time
  BY <1>1, <1>2, <1>3 DEF InOrder
<1>5. InOrder(fs, h.time, l)
  <2>1. \A i, j \in DOMAIN fs : i < j =>
           /\ fs[i].time <= fs[j].time
           /\ fs[i].kind = "COMMAND" /\ fs[j].kind = "COMMAND" => fs[i].of < fs[j].of
    <3> TAKE i, j \in DOMAIN fs
    <3> HAVE i < j
    <3>1. i + 1 \in DOMAIN es /\ j + 1 \in DOMAIN es /\ i + 1 < j + 1
      BY <1>1, <1>2
    <3> QED
      BY <1>1, <3>1 DEF InOrder
  <2>2. \A i \in DOMAIN fs :
           /\ h.time <= fs[i].time
           /\ fs[i].kind = "MESSAGE" => fs[i].time = t
           /\ fs[i].kind = "COMMAND" =>
                 fs[i].of \in DOMAIN l /\ fs[i].time = l[fs[i].of].time
    BY <1>1, <1>4 DEF InOrder
  <2>3. \A i \in DOMAIN fs : fs[i].kind = "MESSAGE" => fs[i].time = h.time
    <3> SUFFICES ASSUME NEW i \in DOMAIN fs, fs[i].kind = "MESSAGE"
                 PROVE  fs[i].time = h.time
      OBVIOUS
    <3>1. fs[i].time = t /\ h.time <= fs[i].time
      BY <2>2
    <3> QED
      BY <1>3, <3>1
  <2> QED
    BY <1>1, <2>1, <2>2, <2>3 DEF InOrder
<1>6. ASSUME h.kind = "COMMAND"
      PROVE  /\ h.of \in DOMAIN l /\ h.time = l[h.of].time
             /\ h.of \in CommandsOf(es)
             /\ \A i \in DOMAIN es : es[i].kind = "COMMAND" /\ i # 1 => h.of < es[i].of
  <2>1. h.of \in DOMAIN l /\ h.time = l[h.of].time
    BY <1>1, <1>6 DEF InOrder
  <2>2. h.of \in Nat
    BY <1>1 DEF FesEvent
  <2>3. h.of \in CommandsOf(es)
    BY <1>1, <1>6, <2>2 DEF CommandsOf
  <2>4. \A i \in DOMAIN es : i # 1 => 1 < i
    BY <1>2
  <2> QED
    BY <1>1, <1>6, <2>1, <2>3, <2>4 DEF InOrder
<1>7. h.kind = "COMMAND" => \A k \in CommandsOf(es) : h.of <= k
  <2> SUFFICES ASSUME h.kind = "COMMAND", NEW k \in CommandsOf(es)
               PROVE  h.of <= k
    OBVIOUS
  <2>1. PICK i \in DOMAIN es : es[i].kind = "COMMAND" /\ es[i].of = k
    BY DEF CommandsOf
  <2>2. h.of \in Nat /\ k \in Nat
    BY <1>1 DEF FesEvent, CommandsOf
  <2>3. i = 1 => h.of = k
    BY <1>1, <2>1
  <2>4. i # 1 => h.of < k
    BY <1>6, <2>1
  <2> QED
    BY <2>2, <2>3, <2>4
<1>8. CommandsOf(fs) = IF h.kind = "COMMAND" THEN CommandsOf(es) \ {h.of} ELSE CommandsOf(es)
  <2>1. ASSUME NEW k \in CommandsOf(fs)
        PROVE  k \in CommandsOf(es) /\ (h.kind = "COMMAND" => k # h.of)
    <3>1. PICK i \in DOMAIN fs : fs[i].kind = "COMMAND" /\ fs[i].of = k /\ k \in Nat
      BY DEF CommandsOf
    <3>2. i + 1 \in DOMAIN es /\ es[i + 1] = fs[i] /\ i + 1 # 1
      BY <1>1, <1>2
    <3>3. h.of \in Nat
      BY <1>1 DEF FesEvent
    <3>4. k \in CommandsOf(es)
      BY <3>1, <3>2 DEF CommandsOf
    <3>5. h.kind = "COMMAND" => h.of < k
      BY <1>6, <3>1, <3>2
    <3> QED
      BY <3>1, <3>3, <3>4, <3>5
  <2>2. ASSUME NEW k \in CommandsOf(es), h.kind # "COMMAND" \/ k # h.of
        PROVE  k \in CommandsOf(fs)
    <3>1. PICK i \in DOMAIN es : es[i].kind = "COMMAND" /\ es[i].of = k /\ k \in Nat
      BY DEF CommandsOf
    <3>2. i # 1
      BY <1>1, <2>2, <3>1
    <3> QED
      BY <1>1, <3>1, <3>2 DEF CommandsOf
  <2> QED
    BY <2>1, <2>2
<1> QED
  BY <1>1, <1>3, <1>4, <1>5, <1>6, <1>7, <1>8 DEF fs, h

LEMMA InsertOrder ==
    ASSUME NEW es, NEW t \in Nat, NEW l, InOrder(es, t, l),
           NEW e \in FesEvent, NEW fs \in Insert(es, e),
           t <= e.time, e.kind = "MESSAGE" => e.time = t,
           e.kind = "COMMAND" =>
              /\ e.of \in DOMAIN l /\ e.time = l[e.of].time
              /\ \A k \in CommandsOf(es) : k < e.of /\ l[k].time <= e.time
    PROVE  /\ InOrder(fs, t, l)
           /\ CommandsOf(fs) = IF e.kind = "COMMAND" THEN CommandsOf(es) \cup {e.of}
                                                    ELSE CommandsOf(es)
<1>1. es \in Seq(FesEvent)
  BY DEF InOrder
<1>2. PICK at, to : Moved(es, e, fs, at, to)
  BY <1>1, InsertPlaces
<1>3. /\ fs \in Seq(FesEvent) /\ fs[at] = e /\ at \in DOMAIN fs
      /\ to \in [DOMAIN es -> DOMAIN fs]
      /\ \A i \in DOMAIN es : to[i] # at /\ fs[to[i]] = es[i]
      /\ \A i, j \in DOMAIN es : i < j <=> to[i] < to[j]
      /\ \A p \in DOMAIN fs : p = at \/ \E i \in DOMAIN es : to[i] = p
      /\ \A i \in DOMAIN es : es[i].time <= e.time <=> to[i] < at
  BY <1>2 DEF Moved
<1>4. /\ \A i \in DOMAIN es : i \in Nat /\ es[i] \in FesEvent
      /\ \A i \in DOMAIN fs : i \in Nat /\ fs[i] \in FesEvent
  BY <1>1, <1>3
<1>5. /\ e.time \in Nat /\ e.of \in Nat
      /\ \A i \in DOMAIN es : es[i].time \in Nat /\ es[i].of \in Nat
  BY <1>4 DEF FesEvent
<1>6. \A p \in DOMAIN fs : fs[p] = e \/ \E i \in DOMAIN es : fs[p] = es[i]
  BY <1>3
<1>7. \A p \in DOMAIN fs :
         /\ t <= fs[p].time
         /\ fs[p].kind = "MESSAGE" => fs[p].time = t
         /\ fs[p].kind = "COMMAND" =>
               fs[p].of \in DOMAIN l /\ fs[p].time = l[fs[p].of].time
  BY <1>6 DEF InOrder
<1>8. \A i \in DOMAIN es : es[i].kind = "COMMAND" =>
         es[i].of \in CommandsOf(es) /\ es[i].time = l[es[i].of].time
  BY <1>5 DEF CommandsOf, InOrder
<1>9. ASSUME NEW p \in DOMAIN fs, NEW r \in DOMAIN fs, p < r
      PROVE  /\ fs[p].time <= fs[r].time
             /\ fs[p].kind = "COMMAND" /\ fs[r].kind = "COMMAND" => fs[p].of < fs[r].of
  <2>1. CASE p = at
    <3>1. r # at
      BY <1>4, <1>9, <2>1
    <3>2. PICK j \in DOMAIN es : to[j] = r
      BY <1>3, <3>1
    <3>3. ~(to[j] < at) /\ fs[r] = es[j] /\ fs[p] = e
      BY <1>3, <1>4, <1>9, <2>1, <3>2
    <3>4. ~(es[j].time <= e.time)
      BY <1>3, <3>3
    <3>5. fs[p].time <= fs[r].time
      BY <1>5, <3>3, <3>4
    <3>6. ~(fs[p].kind = "COMMAND" /\ fs[r].kind = "COMMAND")
      BY <1>5, <1>8, <3>3, <3>4
    <3> QED
      BY <3>5, <3>6
  <2>2. CASE r = at
    <3>1. p # at
      BY <1>4, <1>9, <2>2
    <3>2. PICK i \in DOMAIN es : to[i] = p
      BY <1>3, <3>1
    <3>3. to[i] < at /\ fs[p] = es[i] /\ fs[r] = e
      BY <1>3, <1>9, <2>2, <3>2
    <3> QED
      BY <1>3, <1>5, <1>8, <3>3
  <2>3. CASE p # at /\ r # at
    <3>1. PICK i \in DOMAIN es, j \in DOMAIN es : to[i] = p /\ to[j] = r
      BY <1>3, <2>3
    <3>2. i < j /\ fs[p] = es[i] /\ fs[r] = es[j]
      BY <1>3, <1>9, <3>1
    <3> QED
      BY <3>2 DEF InOrder
  <2> QED
    BY <2>1, <2>2, <2>3
<1>10. InOrder(fs, t, l)
  BY <1>3, <1>7, <1>9 DEF InOrder
<1>11. CommandsOf(fs) = IF e.kind = "COMMAND" THEN CommandsOf(es) \cup {e.of}
                                             ELSE CommandsOf(es)
  <2>1. CommandsOf(es) \subseteq CommandsOf(fs)
    BY <1>3 DEF CommandsOf
  <2>2. e.kind = "COMMAND" => e.of \in CommandsOf(fs)
    BY <1>3, <1>5 DEF CommandsOf
  <2>3. ASSUME NEW k \in CommandsOf(fs)
        PROVE  k \in CommandsOf(es) \/ (e.kind = "COMMAND" /\ k = e.of)
    <3>1. PICK p \in DOMAIN fs : fs[p].kind = "COMMAND" /\ fs[p].of = k /\ k \in Nat
      BY DEF CommandsOf
    <3> QED
      BY <1>6, <3>1 DEF CommandsOf
  <2> QED
    BY <2>1, <2>2, <2>3
<1> QED
  BY <1>10, <1>11

-----------------------------------------------------------------------------
(* The commands, one after the other *)

LEMMA Intervals == \A m, n \in Nat : 1 .. m = 1 .. n => m = n
<1> SUFFICES ASSUME NEW m \in Nat, NEW n \in Nat, 1 .. m = 1 .. n, m # n
             PROVE  FALSE
  OBVIOUS
<1>1. CASE m < n
  <2>1. n \in 1 .. n /\ n \notin 1 .. m
    BY <1>1
  <2> QED
    BY <2>1
<1>2. CASE n < m
  <2>1. m \in 1 .. m /\ m \notin 1 .. n
    BY <1>2
  <2> QED
    BY <2>1
<1> QED
  BY <1>1, <1>2

(* Of the first n commands the last one comes first. *)
LEMMA LastStep ==
    ASSUME NEW n \in Nat, n # 0, NEW k, NEW id, NEW operations
    PROVE  IsLast(k, 1 .. n, id, operations) <=>
              IF log[n].operation \in operations /\ Names(n, id) THEN k = n
              ELSE IsLast(k, 1 .. (n - 1), id, operations)
<1> DEFINE Those(m) == {j \in 1 .. m : log[j].operation \in operations /\ Names(j, id)}
<1>1. \A m : IsLast(k, 1 .. m, id, operations) <=>
                k \in Those(m) /\ \A j \in Those(m) : j <= k
  BY DEF IsLast
<1>2. 1 .. n = (1 .. (n - 1)) \cup {n} /\ \A j \in 1 .. (n - 1) : j < n /\ j \in Nat
  OBVIOUS
<1>3. CASE log[n].operation \in operations /\ Names(n, id)
  <2>1. n \in Those(n) /\ \A j \in Those(n) : j <= n /\ j \in Nat
    BY <1>2, <1>3
  <2>2. k \in Those(n) /\ (\A j \in Those(n) : j <= k) <=> k = n
    BY <2>1
  <2> QED
    BY <1>1, <1>3, <2>2
<1>4. CASE ~(log[n].operation \in operations /\ Names(n, id))
  <2>1. Those(n) = Those(n - 1)
    BY <1>2, <1>4
  <2> QED
    BY <1>1, <1>4, <2>1
<1> QED
  BY <1>3, <1>4

LEMMA PresentStep ==
    ASSUME NEW n \in Nat, n # 0, NEW id \in Ids
    PROVE  id \in Present(1 .. n) <=>
              IF log[n].operation \in Additions \cup {"REMOVE_NODES"} /\ Names(n, id)
              THEN log[n].operation \in Additions
              ELSE id \in Present(1 .. (n - 1))
<1> DEFINE ops == Additions \cup {"REMOVE_NODES"}
<1>1. \A m : id \in Present(1 .. m) <=>
         \E k \in 1 .. m : IsLast(k, 1 .. m, id, ops) /\ log[k].operation \in Additions
  BY DEF Present
<1> HIDE DEF ops
<1>2. \A k, ks : IsLast(k, ks, id, ops) => k \in ks
  BY DEF IsLast
<1>3. n \in 1 .. n /\ 1 .. (n - 1) \subseteq 1 .. n
  OBVIOUS
<1>4. \A k : IsLast(k, 1 .. n, id, ops) <=>
              IF log[n].operation \in ops /\ Names(n, id) THEN k = n
              ELSE IsLast(k, 1 .. (n - 1), id, ops)
  BY LastStep
<1>5. id \in Present(1 .. n) <=>
              IF log[n].operation \in ops /\ Names(n, id)
              THEN log[n].operation \in Additions
              ELSE id \in Present(1 .. (n - 1))
  BY <1>1, <1>2, <1>3, <1>4
<1> QED
  BY <1>5 DEF ops

(* The commands so far are the same. *)
LEMMA SameLog ==
    ASSUME log' = log
    PROVE  /\ \A k, id : Names(k, id)' <=> Names(k, id)
           /\ \A k, ks, id, ops : IsLast(k, ks, id, ops)' <=> IsLast(k, ks, id, ops)
           /\ \A ks : Present(ks)' = Present(ks)
           /\ \A n : AddedBy(n)' = AddedBy(n)
           /\ \A at, ks, id : Placed(at, ks, id)' <=> Placed(at', ks, id)
<1>1. \A k, id : Names(k, id)' <=> Names(k, id)
  BY DEF Names
<1>2. \A k, ks, id, ops : IsLast(k, ks, id, ops)' <=> IsLast(k, ks, id, ops)
  BY <1>1 DEF IsLast
<1>3. \A ks : Present(ks)' = Present(ks)
  BY <1>2 DEF Present
<1>4. \A k, id : PlaceOf(k, id)' = PlaceOf(k, id)
  BY DEF PlaceOf, AtNil
<1> QED
  BY <1>1, <1>2, <1>3, <1>4 DEF AddedBy, Placed

(* A new command changes nothing of those before it. *)
LEMMA LongerLog ==
    ASSUME log \in Seq(Commands), NEW c \in Commands, log' = Append(log, c)
    PROVE  /\ log' \in Seq(Commands) /\ Len(log) \in Nat /\ Len(log)' = Len(log) + 1
           /\ DOMAIN log = 1 .. Len(log) /\ (DOMAIN log)' = 1 .. (Len(log) + 1)
           /\ \A k \in DOMAIN log : log'[k] = log[k]
           /\ log'[Len(log) + 1] = c
           /\ \A k \in DOMAIN log : \A id : Names(k, id)' <=> Names(k, id)
           /\ \A ks \in SUBSET DOMAIN log : \A k, id, ops :
                 IsLast(k, ks, id, ops)' <=> IsLast(k, ks, id, ops)
           /\ \A ks \in SUBSET DOMAIN log : Present(ks)' = Present(ks)
           /\ \A n \in 0 .. Len(log) : AddedBy(n)' = AddedBy(n)
           /\ \A ks \in SUBSET DOMAIN log : \A at, id :
                 Placed(at, ks, id)' <=> Placed(at', ks, id)
<1>1. /\ log' \in Seq(Commands) /\ Len(log) \in Nat /\ Len(log)' = Len(log) + 1
      /\ DOMAIN log = 1 .. Len(log) /\ (DOMAIN log)' = 1 .. (Len(log) + 1)
      /\ \A k \in DOMAIN log : log'[k] = log[k]
      /\ log'[Len(log) + 1] = c
  OBVIOUS
<1>2. \A k \in DOMAIN log : \A id : Names(k, id)' <=> Names(k, id)
  BY <1>1 DEF Names
<1>3. \A ks \in SUBSET DOMAIN log : \A k, id, ops :
         IsLast(k, ks, id, ops)' <=> IsLast(k, ks, id, ops)
  <2> SUFFICES ASSUME NEW ks \in SUBSET DOMAIN log, NEW k, NEW id, NEW ops
               PROVE  IsLast(k, ks, id, ops)' <=> IsLast(k, ks, id, ops)
    OBVIOUS
  <2>1. {j \in ks : log'[j].operation \in ops /\ Names(j, id)'}
           = {j \in ks : log[j].operation \in ops /\ Names(j, id)}
    BY <1>1, <1>2
  <2> QED
    BY <2>1 DEF IsLast
<1>4. \A ks \in SUBSET DOMAIN log : Present(ks)' = Present(ks)
  BY <1>1, <1>3 DEF Present
<1>5. \A n \in 0 .. Len(log) : AddedBy(n)' = AddedBy(n)
  BY <1>1 DEF AddedBy
<1>6. \A ks \in SUBSET DOMAIN log : \A at, id :
         Placed(at, ks, id)' <=> Placed(at', ks, id)
  <2>1. \A k \in DOMAIN log : \A id : PlaceOf(k, id)' = PlaceOf(k, id)
    BY <1>1 DEF PlaceOf, AtNil
  <2> QED
    BY <1>3, <2>1 DEF Placed
<1> QED
  BY <1>1, <1>2, <1>3, <1>4, <1>5, <1>6

LEMMA HandledIs ==
    ASSUME fes \in Seq(FesEvent), log \in Seq(Commands)
    PROVE  Handled = DOMAIN log \ CommandsOf(fes)
  BY DEF Handled, CommandsOf

(* The command that is taken is the one after those handled. *)
LEMMA TakeHandled ==
    ASSUME log \in Seq(Commands), InOrder(fes, clock, log), clock \in Nat,
           CommandsInOrder, fes # <<>>, log' = log, fes' \in Seq(FesEvent),
           CommandsOf(fes') = CommandsOf(Tail(fes))
    PROVE  /\ Head(fes).kind # "COMMAND" => Handled' = Handled
           /\ Head(fes).kind = "COMMAND" =>
                 /\ Head(fes).of \in DOMAIN log
                 /\ Handled = 1 .. (Head(fes).of - 1) /\ Handled' = 1 .. Head(fes).of
           /\ CommandsInOrder'
<1> DEFINE k == Head(fes).of
<1>1. /\ Handled = DOMAIN log \ CommandsOf(fes)
      /\ Handled' = DOMAIN log \ CommandsOf(fes')
  <2>1. fes \in Seq(FesEvent)
    BY DEF InOrder
  <2> QED
    BY <2>1, HandledIs DEF Handled, CommandsOf
<1>2. /\ Head(fes).kind = "COMMAND" =>
             /\ k \in DOMAIN log /\ k \in CommandsOf(fes)
             /\ \A j \in CommandsOf(fes) : k <= j
      /\ CommandsOf(fes') = IF Head(fes).kind = "COMMAND" THEN CommandsOf(fes) \ {k}
                                                         ELSE CommandsOf(fes)
  BY TailOrder
<1> HIDE DEF k
<1>3. PICK n \in 0 .. Len(log) : Handled = 1 .. n
  BY DEF CommandsInOrder
<1>4. DOMAIN log = 1 .. Len(log) /\ Len(log) \in Nat /\ n \in Nat
  OBVIOUS
<1>5. ASSUME Head(fes).kind = "COMMAND"
      PROVE  k \in DOMAIN log /\ Handled = 1 .. (k - 1) /\ Handled' = 1 .. k
  <2>1. k \in DOMAIN log /\ k \in Nat /\ k >= 1
    BY <1>2, <1>4, <1>5
  <2>2. k > n
    BY <1>1, <1>2, <1>3, <1>4, <1>5, <2>1
  <2>3. k = n + 1
    <3>1. CASE n + 1 < k
      <4>1. n + 1 \in DOMAIN log /\ n + 1 \notin CommandsOf(fes)
        BY <1>2, <1>4, <1>5, <2>1, <3>1
      <4> QED
        BY <1>1, <1>3, <1>4, <4>1
    <3> QED
      BY <1>4, <2>1, <2>2, <3>1
  <2>4. Handled' = Handled \cup {k}
    BY <1>1, <1>2, <1>5, <2>1
  <2> QED
    BY <1>3, <1>4, <2>1, <2>3, <2>4
<1>6. Head(fes).kind # "COMMAND" => Handled' = Handled
  BY <1>1, <1>2
<1>7. CommandsInOrder'
  <2>1. \E m \in 0 .. Len(log) : Handled' = 1 .. m
    <3>1. CASE Head(fes).kind = "COMMAND"
      BY <1>4, <1>5, <3>1
    <3>2. CASE Head(fes).kind # "COMMAND"
      BY <1>3, <1>6, <3>2
    <3> QED
      BY <3>1, <3>2
  <2> QED
    BY <2>1 DEF CommandsInOrder
<1> QED
  BY <1>5, <1>6, <1>7 DEF k

-----------------------------------------------------------------------------
(* The initial state *)

LEMMA InitFedInv == FederateInit => FedInv
<1> SUFFICES ASSUME FederateInit PROVE FedInv
  OBVIOUS
<1>1. /\ clock = 0 /\ grant = StartTime /\ running = FALSE /\ fes = <<>>
      /\ log = <<>> /\ current = 0 /\ place = <<>> /\ conf = <<>>
  BY DEF FederateInit
<1>2. /\ mode = "up" /\ todo = <<>> /\ nodes = Empty /\ externalId = <<>>
      /\ pending = <<>>
  BY DEF FederateInit, Init
<1>3. IInv
  BY InitIInv DEF FederateInit
<1>e. DOMAIN <<>> = {} /\ Len(<<>>) = 0
  OBVIOUS
<1>4. FederateTypeOK
  <2>1. place \in [DOMAIN externalId -> Nat] /\ conf \in [DOMAIN externalId -> Nat]
    BY <1>1, <1>2
  <2>2. current \in 0 .. Len(log)
    BY <1>1, <1>e
  <2>3. fes \in Seq([time : Nat, kind : EventKinds, of : Nat]) /\ log \in Seq(Commands)
    BY <1>1
  <2> QED
    BY <1>1, <2>1, <2>2, <2>3, FederateAssumption DEF FederateTypeOK
<1>5. EventsInOrder
  BY <1>1, <1>2, FederateAssumption DEF EventsInOrder, InOrder
<1>6. Handled = {} /\ DOMAIN log = {} /\ Len(log) = 0 /\ Mapped = {} /\ Alive = {}
  BY <1>1, <1>2 DEF Handled, Mapped, Alive, Empty
<1>7. CommandsInOrder /\ CommandsSensible
  BY <1>6 DEF CommandsInOrder, CommandsSensible
<1>8. CommandUnderway /\ NodesAdded
  BY <1>2, <1>6 DEF CommandUnderway, NodesAdded, AddedBy
<1>9. NodesAsOrdered
  BY <1>2, <1>6 DEF NodesAsOrdered, AsOrdered, Present, Effective
<1>10. MessagesQueued
  <2>1. <<>> \in [DOMAIN pending -> 0 .. Len(log)]
    BY <1>2
  <2>2. Follows(fes, <<>>)
    <3>1. DOMAIN fes = {}
      BY <1>1
    <3>2. <<>> \in [DOMAIN <<>> -> DOMAIN fes]
      BY <1>1
    <3> QED
      BY <1>e, <3>1, <3>2 DEF Follows
  <2>3. Sources(<<>>) /\ InOrderOfIssue(<<>>)
    BY <1>2, <1>6 DEF Sources, InOrderOfIssue
  <2>4. DOMAIN conf = {}
    BY <1>1
  <2> QED
    BY <2>1, <2>2, <2>3, <2>4 DEF MessagesQueued
<1>11. RemovalsNow
  BY <1>2 DEF RemovalsNow
<1> QED
  BY <1>1, <1>2, <1>3, <1>4, <1>5, <1>7, <1>8, <1>9, <1>10, <1>11
  DEF FedInv, NoError

-----------------------------------------------------------------------------
(* The steps in which an event is handled *)

LEMMA PendingNow ==
    ASSUME FedInv, pending # <<>>
    PROVE  \E p \in DOMAIN fes : fes[p].kind = "MESSAGE" /\ fes[p].time = clock
<1>1. PICK q \in [DOMAIN pending -> 0 .. Len(log)] : Follows(fes, q)
  BY DEF FedInv, MessagesQueued
<1>2. 1 \in DOMAIN q
  BY DEF FedInv, IInv, TypeOK
<1>3. \E p \in DOMAIN fes : fes[p].kind = "MESSAGE"
  BY <1>1, <1>2 DEF Follows
<1> QED
  BY <1>3 DEF FedInv, EventsInOrder, InOrder

(* The event that is taken, and at most one that is sent. *)
LEMMA TakeOrder ==
    ASSUME FedInv, NEW kind, Take(kind),
           \/ fes' = Tail(fes)
           \/ \E e \in FesEvent :
                 /\ e.kind \in {"MESSAGE", "RX"} /\ clock' <= e.time
                 /\ e.kind = "MESSAGE" => e.time = clock'
                 /\ fes' \in Insert(Tail(fes), e)
    PROVE  /\ EventsInOrder' /\ CommandsInOrder'
           /\ InOrder(Tail(fes), clock', log)
           /\ Head(fes) \in FesEvent /\ Head(fes).kind = kind
           /\ mode = "up" /\ todo = <<>> /\ log' = log
           /\ clock' \in Nat /\ fes' \in Seq(FesEvent)
           /\ pending # <<>> => clock' = clock
           /\ kind # "COMMAND" => Handled' = Handled
           /\ kind = "COMMAND" =>
                 /\ Head(fes).of \in DOMAIN log
                 /\ clock' = log[Head(fes).of].time
                 /\ Handled = 1 .. (Head(fes).of - 1) /\ Handled' = 1 .. Head(fes).of
<1>1. /\ running /\ mode = "up" /\ todo = <<>> /\ fes # <<>>
      /\ Head(fes).kind = kind /\ Head(fes).time <= grant
      /\ clock' = Head(fes).time
      /\ grant' = grant /\ running' = running /\ log' = log
  BY DEF Take, Idle
<1>2. /\ clock \in Nat /\ log \in Seq(Commands) /\ InOrder(fes, clock, log)
  BY DEF FedInv, FederateTypeOK, EventsInOrder
<1>3. /\ Head(fes) \in FesEvent /\ clock <= Head(fes).time
      /\ \A i \in DOMAIN fes : Head(fes).time <= fes[i].time
      /\ Head(fes).kind = "COMMAND" => Head(fes).time = log[Head(fes).of].time
      /\ InOrder(Tail(fes), clock', log)
  BY <1>1, <1>2, TailOrder
<1>4. clock' \in Nat
  BY <1>1, <1>3 DEF FesEvent
<1>5. InOrder(fes', clock', log) /\ CommandsOf(fes') = CommandsOf(Tail(fes))
  <2>1. CASE fes' = Tail(fes)
    BY <1>3, <2>1
  <2>2. CASE \E e \in FesEvent :
                 /\ e.kind \in {"MESSAGE", "RX"} /\ clock' <= e.time
                 /\ e.kind = "MESSAGE" => e.time = clock'
                 /\ fes' \in Insert(Tail(fes), e)
    <3>1. PICK e \in FesEvent :
                 /\ e.kind \in {"MESSAGE", "RX"} /\ clock' <= e.time
                 /\ e.kind = "MESSAGE" => e.time = clock'
                 /\ fes' \in Insert(Tail(fes), e)
      BY <2>2
    <3>2. e.kind # "COMMAND"
      BY <3>1
    <3> QED
      BY <1>3, <1>4, <3>1, <3>2, InsertOrder
  <2> QED
    BY <2>1, <2>2
<1>6. fes' \in Seq(FesEvent)
  BY <1>5 DEF InOrder
<1>7. EventsInOrder'
  BY <1>1, <1>5 DEF EventsInOrder
<1>8. CommandsInOrder
  BY DEF FedInv
<1>9. /\ Head(fes).kind # "COMMAND" => Handled' = Handled
      /\ Head(fes).kind = "COMMAND" =>
                 /\ Head(fes).of \in DOMAIN log
                 /\ Handled = 1 .. (Head(fes).of - 1) /\ Handled' = 1 .. Head(fes).of
      /\ CommandsInOrder'
  BY <1>1, <1>2, <1>5, <1>6, <1>8, TakeHandled
<1>10. ASSUME pending # <<>> PROVE clock' = clock
  <2>1. PICK p \in DOMAIN fes : fes[p].time = clock
    BY <1>10, PendingNow
  <2>2. clock' <= clock /\ clock <= clock'
    BY <1>1, <1>3, <2>1
  <2> QED
    BY <1>2, <1>4, <2>2
<1> QED
  BY <1>1, <1>3, <1>4, <1>6, <1>7, <1>9, <1>10

(* A node of which nothing changes, although a command may be handled that *)
(* is not about it.                                                        *)
LEMMA SameNode ==
    ASSUME FedInv, log' = log, NEW id \in Ids, AsOrdered(id),
           id \in Mapped' <=> id \in Mapped,
           id \in Mapped => place'[nodes'[id].module] = place[nodes[id].module],
           \/ Effective(id)' = Effective(id)
           \/ \E k \in DOMAIN log :
                 /\ Effective(id) = 1 .. (k - 1) /\ Effective(id)' = 1 .. k
                 /\ Names(k, id) => log[k].operation \notin Operations
    PROVE  AsOrdered(id)'
<1> DEFINE at == place[nodes[id].module]
<1>1. /\ id \in Present(Effective(id)') <=> id \in Present(Effective(id))
      /\ Placed(at, Effective(id)', id) <=> Placed(at, Effective(id), id)
  <2>1. CASE \E k \in DOMAIN log :
                 /\ Effective(id) = 1 .. (k - 1) /\ Effective(id)' = 1 .. k
                 /\ Names(k, id) => log[k].operation \notin Operations
    <3>1. PICK k \in DOMAIN log :
                 /\ Effective(id) = 1 .. (k - 1) /\ Effective(id)' = 1 .. k
                 /\ Names(k, id) => log[k].operation \notin Operations
      BY <2>1
    <3>2. k \in Nat /\ k # 0
      BY DEF FedInv, FederateTypeOK
    <3>3. Names(k, id) => /\ log[k].operation \notin Additions \cup {"REMOVE_NODES"}
                          /\ log[k].operation \notin Positioning
      BY <3>1 DEF Operations, Additions, Positioning
    <3>4. \A l : IsLast(l, 1 .. k, id, Positioning)
                    <=> IsLast(l, 1 .. (k - 1), id, Positioning)
      BY <3>2, <3>3, LastStep
    <3>5. \A l, ks : IsLast(l, ks, id, Positioning) => l \in ks
      BY DEF IsLast
    <3>6. Placed(at, 1 .. k, id) <=> Placed(at, 1 .. (k - 1), id)
      BY <3>4, <3>5 DEF Placed
    <3> QED
      BY <3>1, <3>2, <3>3, <3>6, PresentStep
  <2> QED
    BY <2>1
<1>2. id \in Present(Effective(id))' <=> id \in Present(Effective(id)')
  BY SameLog
<1>3. Placed(at, Effective(id), id)' <=> Placed(at', Effective(id)', id)
  BY SameLog
<1> QED
  BY <1>1, <1>2, <1>3 DEF AsOrdered

(* An event that is not about which nodes there are leaves them as they    *)
(* are, and their commands.                                                *)
LEMMA SameScenario ==
    ASSUME FedInv, log' = log, todo = <<>>, todo' = <<>>, mode = "up",
           UNCHANGED <<nodes, externalId, place>>,
           \/ Handled' = Handled
           \/ \E k \in DOMAIN log :
                 /\ Handled = 1 .. (k - 1) /\ Handled' = 1 .. k
                 /\ log[k].operation \in {"CONF_RADIO", "MSG_SEND"}
    PROVE  CommandsSensible' /\ CommandUnderway' /\ NodesAdded' /\ NodesAsOrdered'
<1>1. CommandsSensible'
  BY SameLog DEF FedInv, CommandsSensible
<1>2. CommandUnderway'
  BY DEF CommandUnderway
<1>3. \A id : Effective(id) = Handled /\ Effective(id)' = Handled'
  <2>1. DOMAIN todo = {} /\ DOMAIN todo' = {}
    OBVIOUS
  <2> QED
    BY <2>1 DEF Effective
<1>4. NodesAsOrdered'
  <2>1. Mapped' = Mapped
    BY DEF Mapped
  <2>2. {"CONF_RADIO", "MSG_SEND"} \cap Operations = {}
    BY DEF Operations
  <2>3. \A id \in Ids : AsOrdered(id)
    BY DEF FedInv, NodesAsOrdered
  <2>4. \A id \in Ids : AsOrdered(id)'
    BY <1>3, <2>1, <2>2, <2>3, SameNode
  <2> QED
    BY <2>4 DEF NodesAsOrdered
<1>5. NodesAdded'
  <2>1. CASE Handled' = Handled
    BY <2>1, SameLog DEF FedInv, NodesAdded
  <2>2. CASE \E k \in DOMAIN log :
                 /\ Handled = 1 .. (k - 1) /\ Handled' = 1 .. k
                 /\ log[k].operation \in {"CONF_RADIO", "MSG_SEND"}
    <3>1. PICK k \in DOMAIN log :
                 /\ Handled = 1 .. (k - 1) /\ Handled' = 1 .. k
                 /\ log[k].operation \in {"CONF_RADIO", "MSG_SEND"}
      BY <2>2
    <3>2. k \in Nat /\ k # 0 /\ k - 1 \in 0 .. Len(log) /\ k <= Len(log)
      BY DEF FedInv, FederateTypeOK
    <3>3. SUFFICES ASSUME NEW n \in 0 .. Len(log), Handled' = 1 .. n
                   PROVE  AddedBy(n) = Len(externalId)
      BY SameLog DEF NodesAdded
    <3>4. n = k
      BY <3>1, <3>2, <3>3, Intervals
    <3>5. AddedBy(k - 1) = Len(externalId)
      BY <3>1, <3>2 DEF FedInv, NodesAdded
    <3>6. log[k].added = AddedBy(k - 1) + 0
      BY <3>1 DEF FedInv, CommandsSensible, Additions
    <3>7. Len(externalId) \in Nat
      BY DEF FedInv, IInv, TypeOK
    <3> QED
      BY <3>2, <3>4, <3>5, <3>6, <3>7 DEF AddedBy
  <2> QED
    BY <2>1, <2>2
<1> QED
  BY <1>1, <1>2, <1>4, <1>5

-----------------------------------------------------------------------------
(* The messages under way *)

LEMMA Modules ==
    ASSUME IInv
    PROVE  /\ Manager \notin Alive
           /\ \A m \in Alive :
                 /\ m \in DOMAIN externalId /\ externalId[m] \in Mapped
                 /\ nodes[externalId[m]].module = m
           /\ \A i \in DOMAIN pending : pending[i].to # Manager =>
                 /\ pending[i].to \in DOMAIN externalId
                 /\ externalId[pending[i].to] = pending[i].id
<1>1. \A m \in Alive : m \in Module /\ m \in DOMAIN externalId
         /\ externalId[m] \in Mapped /\ nodes[externalId[m]].module = m
  BY DEF IInv, TypeOK, GatesFollowNodes, Alive, Node
<1>2. Manager \notin Alive
  BY <1>1 DEF Module, Manager
<1> QED
  BY <1>1, <1>2 DEF IInv, NoMisdelivery

LEMMA Numbers ==
    ASSUME FedInv, NEW q \in [DOMAIN pending -> 0 .. Len(log)]
    PROVE  /\ q \in Seq(Nat) /\ DOMAIN q = DOMAIN pending /\ Len(q) = Len(pending)
           /\ pending \in Seq(Pending) /\ Len(pending) \in Nat
           /\ DOMAIN pending = 1 .. Len(pending)
           /\ \A i \in DOMAIN q : q[i] \in Nat
           /\ log \in Seq(Commands) /\ Len(log) \in Nat /\ DOMAIN log = 1 .. Len(log)
           /\ Handled \subseteq DOMAIN log
<1>1. pending \in Seq(Pending) /\ log \in Seq(Commands)
  BY DEF FedInv, IInv, TypeOK, FederateTypeOK
<1>2. /\ DOMAIN pending = 1 .. Len(pending) /\ Len(pending) \in Nat
      /\ DOMAIN log = 1 .. Len(log) /\ Len(log) \in Nat
  BY <1>1
<1>3. q \in [1 .. Len(pending) -> Nat]
  BY <1>2
<1>4. q \in Seq(Nat) /\ Len(q) = Len(pending)
  BY <1>2, <1>3
<1> QED
  BY <1>1, <1>2, <1>3, <1>4 DEF Handled

LEMMA SameConfigured ==
    ASSUME UNCHANGED <<log, pending, externalId, conf>>, NEW q, NEW m, NEW n, NEW j
    PROVE  Configured(q, m, n, j)' <=> Configured(q, m, n, j)
<1>1. \A k, ops : IsLast(k, 1 .. n, externalId[m], ops)'
                     <=> IsLast(k, 1 .. n, externalId[m], ops)
  BY SameLog
<1> QED
  BY <1>1 DEF Configured

(* No message leaves or is sent, and no app changes. *)
LEMMA SameMessages ==
    ASSUME FedInv, UNCHANGED <<log, pending, externalId, conf>>, Handled' = Handled,
           Alive' \subseteq Alive,
           \A q \in Seq(Nat) : Follows(fes, q) => Follows(fes', q)
    PROVE  MessagesQueued'
<1>1. PICK q \in [DOMAIN pending -> 0 .. Len(log)] :
         Follows(fes, q) /\ Sources(q) /\ InOrderOfIssue(q)
  BY DEF FedInv, MessagesQueued
<1>2. Follows(fes', q)
  BY <1>1, Numbers
<1>3. Sources(q)'
  BY <1>1, SameLog DEF Sources
<1>4. \A m, n, j : Configured(q, m, n, j)' <=> Configured(q, m, n, j)
  BY SameConfigured
<1>5. InOrderOfIssue(q)'
  BY <1>1, <1>4 DEF InOrderOfIssue
<1>6. q \in [DOMAIN pending' -> 0 .. Len(log')]
  OBVIOUS
<1> QED
  BY <1>2, <1>3, <1>5, <1>6 DEF FedInv, MessagesQueued

(* A command is handled that is not about the configuration of an app. *)
LEMMA QuietCommand ==
    ASSUME FedInv, NEW k \in DOMAIN log, Handled = 1 .. (k - 1), Handled' = 1 .. k,
           UNCHANGED <<log, pending, externalId, conf, nodes>>,
           fes # <<>>, Head(fes).kind = "COMMAND", fes' = Tail(fes),
           \A m \in Alive : log[k].operation \in Additions \cup {"CONF_RADIO"} =>
                               ~Names(k, externalId[m])
    PROVE  MessagesQueued'
<1>1. PICK q \in [DOMAIN pending -> 0 .. Len(log)] :
         Follows(fes, q) /\ Sources(q) /\ InOrderOfIssue(q)
  BY DEF FedInv, MessagesQueued
<1>2. /\ Handled \subseteq Handled' /\ k \in Nat /\ k # 0
      /\ k - 1 \in 0 .. Len(log)
  BY DEF FedInv, FederateTypeOK
<1>3. Follows(fes', q)
  <2>1. fes \in Seq(FesEvent)
    BY DEF FedInv, EventsInOrder, InOrder
  <2> QED
    BY <1>1, <2>1, Numbers, TailOther
<1>4. Sources(q)'
  BY <1>1, <1>2, SameLog DEF Sources
<1>5. \A m, n, j : Configured(q, m, n, j)' <=> Configured(q, m, n, j)
  BY SameConfigured
<1>6. Alive' = Alive
  BY DEF Alive, Mapped
<1>7. ASSUME NEW n \in 0 .. Len(log), Handled' = 1 .. n, NEW m \in Alive
      PROVE  Configured(q, m, n, Len(pending) + 1)
  <2>1. n = k
    BY <1>2, <1>7, Intervals
  <2>2. Configured(q, m, k - 1, Len(pending) + 1)
    BY <1>1, <1>2 DEF InOrderOfIssue
  <2>3. \A l : IsLast(l, 1 .. k, externalId[m], Additions \cup {"CONF_RADIO"})
                <=> IsLast(l, 1 .. (k - 1), externalId[m], Additions \cup {"CONF_RADIO"})
    BY <1>2, LastStep
  <2>4. 1 .. (k - 1) \subseteq 1 .. k
    BY <1>2
  <2> QED
    BY <2>1, <2>2, <2>3, <2>4 DEF Configured
<1>8. InOrderOfIssue(q)'
  BY <1>1, <1>5, <1>6, <1>7 DEF InOrderOfIssue
<1>9. q \in [DOMAIN pending' -> 0 .. Len(log')]
  OBVIOUS
<1> QED
  BY <1>2, <1>3, <1>4, <1>8, <1>9 DEF FedInv, MessagesQueued

(* The first message arrives; if it is a configuration, an app takes it.   *)
LEMMA ArrivalMessages ==
    ASSUME FedInv, fes # <<>>, Head(fes).kind = "MESSAGE",
           \A q \in Seq(Nat) : Follows(Tail(fes), q) => Follows(fes', q),
           pending # <<>>, pending' = Tail(pending), Handled' = Handled,
           UNCHANGED <<log, nodes, externalId>>,
           conf' = IF Head(pending).packet = NoPacket /\ Head(pending).to \in Alive
                   THEN [conf EXCEPT ![Head(pending).to] = Head(fes).of] ELSE conf
    PROVE  MessagesQueued'
<1>1. PICK q \in [DOMAIN pending -> 0 .. Len(log)] :
         Follows(fes, q) /\ Sources(q) /\ InOrderOfIssue(q)
  BY DEF FedInv, MessagesQueued
<1>2. /\ q \in Seq(Nat) /\ DOMAIN q = DOMAIN pending /\ Len(q) = Len(pending)
      /\ pending \in Seq(Pending) /\ Len(pending) \in Nat
      /\ DOMAIN pending = 1 .. Len(pending)
      /\ \A i \in DOMAIN q : q[i] \in Nat
      /\ log \in Seq(Commands) /\ Len(log) \in Nat /\ DOMAIN log = 1 .. Len(log)
      /\ Handled \subseteq DOMAIN log
  BY Numbers
<1>3. fes \in Seq(FesEvent)
  BY DEF FedInv, EventsInOrder, InOrder
<1>4. q # <<>> /\ q[1] = Head(fes).of /\ Follows(Tail(fes), Tail(q))
  BY <1>1, <1>2, <1>3, TailMessage
<1> DEFINE r == Tail(q)
           p == pending'
           a == pending[1].to
<1>5. /\ r \in Seq(Nat) /\ Len(r) = Len(p) /\ Len(p) = Len(pending) - 1
      /\ DOMAIN r = DOMAIN p /\ DOMAIN p = 1 .. Len(p) /\ Len(p) \in Nat
      /\ \A i \in DOMAIN p : /\ i \in Nat /\ i + 1 \in DOMAIN pending
                             /\ p[i] = pending[i + 1] /\ r[i] = q[i + 1]
      /\ \A i \in DOMAIN pending : i # 1 => i - 1 \in DOMAIN p /\ (i - 1) + 1 = i
      /\ 1 \in DOMAIN pending /\ Head(pending) = pending[1]
  BY <1>2, <1>4, SMTT(60)
<1>6. Follows(fes', r)
  BY <1>4, <1>5
<1>7. /\ Alive' = Alive /\ Manager \notin Alive
      /\ \A m \in Alive : m \in DOMAIN externalId
      /\ \A i \in DOMAIN pending : pending[i].to # Manager =>
                 externalId[pending[i].to] = pending[i].id
  BY Modules DEF FedInv, Alive, Mapped
<1> HIDE DEF r, p
<1>8. Sources(r)'
  <2>1. \A i \in DOMAIN p :
       IF p[i].to = Manager
       THEN r[i] = 0
       ELSE /\ r[i] \in Handled
            /\ Names(r[i], p[i].id)
            /\ log[r[i]].operation = IF p[i].packet = NoPacket
                                     THEN "CONF_RADIO" ELSE "MSG_SEND"
    BY <1>1, <1>5 DEF Sources
  <2> QED
    BY <2>1, SameLog DEF Sources, p
<1>9. a \in Alive =>
         /\ q[1] \in Handled /\ Names(q[1], externalId[a])
         /\ log[q[1]].operation = IF pending[1].packet = NoPacket
                                  THEN "CONF_RADIO" ELSE "MSG_SEND"
  BY <1>1, <1>5, <1>7 DEF Sources
<1>10. /\ conf \in [DOMAIN externalId -> Nat]
       /\ \A m \in DOMAIN externalId : conf'[m] =
              IF pending[1].packet = NoPacket /\ a \in Alive /\ m = a
              THEN q[1] ELSE conf[m]
  BY <1>4, <1>5 DEF FedInv, FederateTypeOK
<1>11. \A m \in DOMAIN conf' : conf'[m] \in {None} \cup Handled'
  <2>1. \A m \in DOMAIN conf : conf[m] \in {None} \cup Handled
    BY DEF FedInv, MessagesQueued
  <2>2. DOMAIN conf' = DOMAIN externalId
    BY <1>10
  <2> QED
    BY <1>9, <1>10, <2>1, <2>2
<1>12. /\ \A i, j \in DOMAIN p :
             i < j /\ p[i].to # Manager /\ p[j].to # Manager => r[i] < r[j]
       /\ \A i \in DOMAIN p : p[i].to # Manager /\ a # Manager => q[1] < r[i]
       /\ \A i \in DOMAIN p : p[i].to # Manager => conf'[p[i].to] < r[i]
  <2>1. \A i, j \in DOMAIN p :
             i < j /\ p[i].to # Manager /\ p[j].to # Manager => r[i] < r[j]
    <3> SUFFICES ASSUME NEW i \in DOMAIN p, NEW j \in DOMAIN p, i < j,
                        p[i].to # Manager, p[j].to # Manager
                 PROVE  r[i] < r[j]
      OBVIOUS
    <3>1. /\ i + 1 \in DOMAIN pending /\ j + 1 \in DOMAIN pending /\ i + 1 < j + 1
          /\ pending[i + 1].to # Manager /\ pending[j + 1].to # Manager
      BY <1>5, SMTT(60)
    <3>2. q[i + 1] < q[j + 1]
      BY <1>1, <3>1 DEF InOrderOfIssue
    <3> QED
      BY <1>5, <3>2
  <2>2. ASSUME NEW i \in DOMAIN p, p[i].to # Manager, a # Manager
        PROVE  q[1] < r[i]
    <3>1. 1 < i + 1
      BY <1>5
    <3> QED
      BY <1>1, <1>5, <2>2, <3>1, SMTT(60) DEF InOrderOfIssue
  <2>3. ASSUME NEW i \in DOMAIN p, p[i].to # Manager
        PROVE  conf'[p[i].to] < r[i]
    <3>1. conf[p[i].to] < r[i]
      BY <1>1, <1>5, <2>3 DEF InOrderOfIssue
    <3>2. p[i].to \in DOMAIN externalId
      BY <1>5, <2>3 DEF FedInv, IInv, NoMisdelivery
    <3> QED
      BY <1>7, <1>10, <2>2, <2>3, <3>1, <3>2
  <2> QED
    BY <2>1, <2>2, <2>3
<1>13. ASSUME NEW m \in Alive, NEW n \in 0 .. Len(log), NEW j \in 1 .. (Len(p) + 1),
              Configured(q, m, n, j + 1), a = m => q[1] <= n
       PROVE  Configured(r, m, n, j)'
  <2> DEFINE ops == Additions \cup {"CONF_RADIO"}
  <2>1. PICK k \in 1 .. n :
       /\ IsLast(k, 1 .. n, externalId[m], ops)
       /\ IF log[k].operation = "CONF_RADIO"
          THEN conf[m] = k \/ \E i \in 1 .. ((j + 1) - 1) : pending[i].to = m /\ q[i] = k
          ELSE /\ conf[m] = None
               /\ \A i \in 1 .. ((j + 1) - 1) :
                     pending[i].to = m => pending[i].packet # NoPacket
    BY <1>13 DEF Configured
  <2>2. /\ 1 .. ((j + 1) - 1) = 1 .. j /\ 1 \in 1 .. j
        /\ \A i \in 1 .. (j - 1) : i + 1 \in 1 .. j /\ i \in DOMAIN p
        /\ \A i \in 1 .. j : i # 1 => i - 1 \in 1 .. (j - 1) /\ (i - 1) + 1 = i
    BY <1>5
  <2>3. \A i \in 1 .. (j - 1) : p[i] = pending[i + 1] /\ r[i] = q[i + 1]
    BY <1>5, <2>2
  <2>4. CASE log[k].operation = "CONF_RADIO"
    <3>1. conf'[m] = k \/ \E i \in 1 .. (j - 1) : p[i].to = m /\ r[i] = k
      <4>1. CASE conf[m] = k /\ ~(a = m /\ pending[1].packet = NoPacket)
        BY <1>7, <1>10, <4>1
      <4>2. CASE conf[m] = k /\ a = m /\ pending[1].packet = NoPacket
        <5>1. k < q[1] /\ q[1] \in 1 .. n
          <6>1. a # Manager
            BY <1>7, <4>2
          <6>2. conf[m] < q[1]
            BY <1>1, <1>5, <4>2, <6>1 DEF InOrderOfIssue
          <6>3. q[1] \in Nat /\ q[1] >= 1
            BY <1>2, <1>9, <4>2
          <6> QED
            BY <1>13, <4>2, <6>2, <6>3
        <5>2. log[q[1]].operation \in ops /\ Names(q[1], externalId[m])
          BY <1>9, <4>2
        <5>3. q[1] <= k
          BY <2>1, <5>1, <5>2 DEF IsLast
        <5> QED
          BY <5>1, <5>3
      <4>3. CASE \E i \in 1 .. j : pending[i].to = m /\ q[i] = k
        <5>1. PICK i \in 1 .. j : pending[i].to = m /\ q[i] = k
          BY <4>3
        <5>2. CASE i = 1
          BY <1>7, <1>9, <1>10, <2>4, <5>1, <5>2
        <5>3. CASE i # 1
          BY <2>2, <2>3, <5>1, <5>3, ZenonT(60)
        <5> QED
          BY <5>2, <5>3
      <4> QED
        BY <2>1, <2>2, <2>4, <4>1, <4>2, <4>3
    <3> QED
      BY <2>1, <2>4, <3>1, SameLog DEF Configured, p
  <2>5. CASE log[k].operation # "CONF_RADIO"
    <3>1. a = m => pending[1].packet # NoPacket
      BY <2>1, <2>2, <2>5
    <3>2. conf'[m] = None
      BY <1>7, <1>10, <2>1, <2>5, <3>1
    <3>3. ASSUME NEW i \in 1 .. (j - 1), p[i].to = m
          PROVE  p[i].packet # NoPacket
      <4>1. i + 1 \in 1 .. j /\ p[i] = pending[i + 1]
        BY <2>2, <2>3
      <4> QED
        BY <2>1, <2>2, <2>5, <3>3, <4>1
    <3> QED
      BY <2>1, <2>5, <3>2, <3>3, SameLog DEF Configured, p
  <2> QED
    BY <2>4, <2>5
<1>14. ASSUME NEW i \in DOMAIN p, NEW m \in Alive, p[i].to = m
       PROVE  Configured(r, m, r[i] - 1, i)'
  <2>1. Configured(q, m, r[i] - 1, i + 1)
    BY <1>1, <1>5, <1>14 DEF InOrderOfIssue
  <2>2. r[i] \in Handled /\ r[i] \in Nat /\ r[i] - 1 \in 0 .. Len(log)
    <3>1. r[i] \in Handled
      BY <1>1, <1>5, <1>7, <1>14 DEF Sources
    <3> QED
      BY <1>2, <3>1
  <2>3. i \in 1 .. (Len(p) + 1)
    BY <1>5
  <2>4. ASSUME a = m PROVE q[1] <= r[i] - 1
    <3>1. q[1] < r[i]
      BY <1>7, <1>12, <1>14, <2>4
    <3>2. q[1] \in Nat
      BY <1>2, <1>5
    <3> QED
      BY <2>2, <3>1, <3>2
  <2> QED
    BY <1>13, <2>1, <2>2, <2>3, <2>4
<1>15. ASSUME NEW n \in 0 .. Len(log), Handled = 1 .. n, NEW m \in Alive,
              NEW j, j = Len(p) + 1
       PROVE  Configured(r, m, n, j)'
  <2>1. Configured(q, m, n, j + 1)
    BY <1>1, <1>2, <1>5, <1>15 DEF InOrderOfIssue
  <2>2. a = m => q[1] <= n
    BY <1>9, <1>15
  <2>3. j \in 1 .. (Len(p) + 1)
    BY <1>5, <1>15
  <2> QED
    BY <1>13, <2>1, <2>2, <2>3
<1>16. InOrderOfIssue(r)'
  <2>1. /\ \A i, j \in DOMAIN pending' :
             i < j /\ pending'[i].to # Manager /\ pending'[j].to # Manager => r[i] < r[j]
        /\ \A i \in DOMAIN pending' :
             pending'[i].to # Manager => conf'[pending'[i].to] < r[i]
    BY <1>12 DEF p
  <2>2. \A i \in DOMAIN pending' :
          pending'[i].to \in Alive' => Configured(r, pending[i].to, r[i] - 1, i)'
    BY <1>7, <1>14 DEF p
  <2>3. \A n \in 0 .. Len(log') : Handled' = 1 .. n =>
          \A m \in Alive' : Configured(r, m, n, Len(pending) + 1)'
    BY <1>7, <1>15 DEF p
  <2> QED
    BY <2>1, <2>2, <2>3 DEF InOrderOfIssue
<1>17. r \in [DOMAIN p -> 0 .. Len(log)]
  BY <1>5
<1> QED
  BY <1>6, <1>8, <1>11, <1>16, <1>17 DEF MessagesQueued, p

(* A message is sent: to an app by command x, or, if x is 0, to the        *)
(* manager.                                                                *)
LEMMA SentMessages ==
    ASSUME FedInv, NEW x \in 0 .. Len(log), NEW e \in Pending,
           pending' = Append(pending, e), UNCHANGED <<log, nodes, externalId, conf>>,
           \A q \in Seq(Nat) : Follows(fes, q) => Follows(fes', Append(q, x)),
           \/ e.to = Manager /\ x = 0 /\ Handled' = Handled
           \/ /\ x # 0 /\ Handled = 1 .. (x - 1) /\ Handled' = 1 .. x
              /\ e.to \in Alive /\ externalId[e.to] = e.id
              /\ Names(x, e.id) /\ \A id : Names(x, id) => id = e.id
              /\ log[x].operation = IF e.packet = NoPacket THEN "CONF_RADIO" ELSE "MSG_SEND"
    PROVE  MessagesQueued'
<1>1. PICK q \in [DOMAIN pending -> 0 .. Len(log)] :
         Follows(fes, q) /\ Sources(q) /\ InOrderOfIssue(q)
  BY DEF FedInv, MessagesQueued
<1>2. /\ q \in Seq(Nat) /\ DOMAIN q = DOMAIN pending /\ Len(q) = Len(pending)
      /\ pending \in Seq(Pending) /\ Len(pending) \in Nat
      /\ DOMAIN pending = 1 .. Len(pending)
      /\ \A i \in DOMAIN q : q[i] \in Nat
      /\ log \in Seq(Commands) /\ Len(log) \in Nat /\ DOMAIN log = 1 .. Len(log)
      /\ Handled \subseteq DOMAIN log
  BY Numbers
<1> DEFINE r == Append(q, x)
           p == pending'
           z == Len(pending) + 1
           ops == Additions \cup {"CONF_RADIO"}
<1>3. Follows(fes', r)
  BY <1>1, <1>2
<1>4. /\ DOMAIN r = DOMAIN p /\ DOMAIN p = DOMAIN pending \cup {z} /\ z \notin DOMAIN pending
      /\ Len(p) = z /\ z \in Nat
      /\ \A i \in DOMAIN pending : p[i] = pending[i] /\ r[i] = q[i] /\ i \in Nat /\ i < z
      /\ p[z] = e /\ r[z] = x
      /\ \A i \in 1 .. (z - 1) : i \in DOMAIN pending
      /\ 1 .. z = (1 .. (z - 1)) \cup {z}
      /\ r \in Seq(Nat)
  BY <1>2
<1>5. /\ Alive' = Alive /\ Manager \notin Alive
      /\ \A m \in Alive : m \in DOMAIN externalId /\ nodes[externalId[m]].module = m
  BY Modules DEF FedInv, Alive, Mapped
<1>6. Handled \subseteq Handled' /\ x \in Nat
  BY <1>2
<1>7. /\ \A m \in DOMAIN conf : conf[m] \in {None} \cup Handled
      /\ DOMAIN conf = DOMAIN externalId
  BY DEF FedInv, MessagesQueued, FederateTypeOK
<1> HIDE DEF r, p, z
<1>8. Sources(r)'
  <2>1. \A i \in DOMAIN p :
       IF p[i].to = Manager
       THEN r[i] = 0
       ELSE /\ r[i] \in Handled'
            /\ Names(r[i], p[i].id)
            /\ log[r[i]].operation = IF p[i].packet = NoPacket
                                     THEN "CONF_RADIO" ELSE "MSG_SEND"
    <3> TAKE i \in DOMAIN p
    <3>1. CASE i \in DOMAIN pending
      BY <1>1, <1>4, <1>6, <3>1 DEF Sources
    <3>2. CASE i = z
      BY <1>4, <1>5, <1>6, <3>2
    <3> QED
      BY <1>4, <3>1, <3>2
  <2> QED
    BY <2>1, SameLog DEF Sources, p
<1>9. ASSUME NEW i \in DOMAIN pending, pending[i].to # Manager, x # 0
      PROVE  q[i] < x
  <2>1. q[i] \in Handled
    BY <1>1, <1>9 DEF Sources
  <2> QED
    BY <1>2, <1>5, <1>6, <1>9, <2>1
<1>10. ASSUME NEW i \in DOMAIN p, NEW j \in DOMAIN p, i < j,
              p[i].to # Manager, p[j].to # Manager
       PROVE  r[i] < r[j]
  <2>1. i # z
    BY <1>4, <1>10
  <2>2. CASE j = z
    BY <1>4, <1>9, <1>10, <1>5, <2>1, <2>2
  <2>3. CASE j # z
    BY <1>1, <1>4, <1>10, <2>1, <2>3 DEF InOrderOfIssue
  <2> QED
    BY <2>2, <2>3
<1>11. ASSUME NEW i \in DOMAIN p, p[i].to # Manager
       PROVE  conf[p[i].to] < r[i]
  <2>1. CASE i = z
    <3>1. p[i] = e /\ r[i] = x /\ e.to \in Alive /\ x # 0 /\ Handled = 1 .. (x - 1)
      BY <1>4, <1>11, <2>1
    <3>2. conf[e.to] \in {None} \cup Handled
      BY <1>5, <1>7, <3>1
    <3> QED
      BY <1>6, <3>1, <3>2 DEF None
  <2>2. CASE i # z
    BY <1>1, <1>4, <1>11, <2>2 DEF InOrderOfIssue
  <2> QED
    BY <2>1, <2>2
<1>12. \A k, m, n : IsLast(k, 1 .. n, externalId[m], ops)'
                       <=> IsLast(k, 1 .. n, externalId[m], ops)
  BY SameLog
<1>13. ASSUME NEW m, NEW n, NEW j, Configured(q, m, n, j),
              j \in 1 .. z
       PROVE  Configured(r, m, n, j)'
  <2>1. PICK k \in 1 .. n :
       /\ IsLast(k, 1 .. n, externalId[m], ops)
       /\ IF log[k].operation = "CONF_RADIO"
          THEN conf[m] = k \/ \E i \in 1 .. (j - 1) : pending[i].to = m /\ q[i] = k
          ELSE /\ conf[m] = None
               /\ \A i \in 1 .. (j - 1) :
                     pending[i].to = m => pending[i].packet # NoPacket
    BY <1>13 DEF Configured
  <2>2. \A i \in 1 .. (j - 1) : i \in DOMAIN pending
    BY <1>4, <1>13
  <2>3. IF log[k].operation = "CONF_RADIO"
        THEN conf[m] = k \/ \E i \in 1 .. (j - 1) : p[i].to = m /\ r[i] = k
        ELSE /\ conf[m] = None
             /\ \A i \in 1 .. (j - 1) : p[i].to = m => p[i].packet # NoPacket
    BY <1>4, <2>1, <2>2
  <2> QED
    BY <1>12, <2>1, <2>3 DEF Configured, p
<1>14. ASSUME NEW m, NEW n, NEW j, j = z + 1, Configured(q, m, n, z),
              e.to = m => e.packet # NoPacket
       PROVE  Configured(r, m, n, j)'
  <2>1. PICK k \in 1 .. n :
       /\ IsLast(k, 1 .. n, externalId[m], ops)
       /\ IF log[k].operation = "CONF_RADIO"
          THEN conf[m] = k \/ \E i \in 1 .. (z - 1) : pending[i].to = m /\ q[i] = k
          ELSE /\ conf[m] = None
               /\ \A i \in 1 .. (z - 1) :
                     pending[i].to = m => pending[i].packet # NoPacket
    BY <1>14 DEF Configured
  <2>2. 1 .. (j - 1) = (1 .. (z - 1)) \cup {z}
    BY <1>4, <1>14
  <2>3. IF log[k].operation = "CONF_RADIO"
        THEN conf[m] = k \/ \E i \in 1 .. (j - 1) : p[i].to = m /\ r[i] = k
        ELSE /\ conf[m] = None
             /\ \A i \in 1 .. (j - 1) : p[i].to = m => p[i].packet # NoPacket
    BY <1>4, <1>14, <2>1, <2>2
  <2> QED
    BY <1>12, <2>1, <2>3 DEF Configured, p
<1>15. ASSUME NEW i \in DOMAIN p, NEW m \in Alive, p[i].to = m
       PROVE  Configured(r, m, r[i] - 1, i)'
  <2>1. CASE i = z
    <3>1. e.to = m /\ x # 0 /\ Handled = 1 .. (x - 1) /\ r[i] = x
      BY <1>4, <1>5, <1>15, <2>1
    <3>2. Configured(q, m, x - 1, z)
      BY <1>1, <1>2, <1>6, <3>1 DEF InOrderOfIssue, z
    <3>3. i \in 1 .. z
      BY <1>4, <2>1
    <3> QED
      BY <1>13, <2>1, <3>1, <3>2, <3>3
  <2>2. CASE i # z
    <3>1. Configured(q, m, r[i] - 1, i)
      BY <1>1, <1>4, <1>15, <2>2 DEF InOrderOfIssue
    <3>2. i \in 1 .. z
      BY <1>2, <1>4, <2>2
    <3> QED
      BY <1>13, <3>1, <3>2
  <2> QED
    BY <2>1, <2>2
<1>16. ASSUME NEW n \in 0 .. Len(log), Handled' = 1 .. n, NEW m \in Alive,
              NEW j, j = Len(p) + 1
       PROVE  Configured(r, m, n, j)'
  <2>1. j = z + 1
    BY <1>4, <1>16
  <2>2. CASE Handled' = Handled
    <3>1. Configured(q, m, n, z)
      BY <1>1, <1>16, <2>2 DEF InOrderOfIssue, z
    <3>2. e.to # m
      <4>1. CASE x = 0
        BY <1>5, <4>1
      <4>2. CASE x # 0
        <5>1. x \in 1 .. x /\ x \notin 1 .. (x - 1)
          BY <1>6, <4>2
        <5> QED
          BY <2>2, <4>2, <5>1
      <4> QED
        BY <4>1, <4>2
    <3> QED
      BY <1>14, <2>1, <3>1, <3>2
  <2>3. CASE /\ x # 0 /\ Handled = 1 .. (x - 1) /\ Handled' = 1 .. x
             /\ e.to \in Alive /\ externalId[e.to] = e.id
             /\ Names(x, e.id) /\ \A id : Names(x, id) => id = e.id
             /\ log[x].operation = IF e.packet = NoPacket THEN "CONF_RADIO" ELSE "MSG_SEND"
    <3>1. n = x
      BY <1>6, <1>16, <2>3, Intervals
    <3>2. Configured(q, m, x - 1, z)
      BY <1>1, <1>2, <1>6, <2>3 DEF InOrderOfIssue, z
    <3>3. \A k : IsLast(k, 1 .. x, externalId[m], ops) <=>
                    IF log[x].operation \in ops /\ Names(x, externalId[m]) THEN k = x
                    ELSE IsLast(k, 1 .. (x - 1), externalId[m], ops)
      BY <1>6, <2>3, LastStep
    <3>4. CASE e.to = m /\ e.packet = NoPacket
      <4>1. log[x].operation = "CONF_RADIO" /\ Names(x, externalId[m])
        BY <2>3, <3>4
      <4>2. IsLast(x, 1 .. x, externalId[m], ops)
        BY <3>3, <4>1
      <4>3. x \in 1 .. x /\ z \in 1 .. (j - 1)
        BY <1>4, <1>6, <2>1, <2>3
      <4>4. p[z].to = m /\ r[z] = x
        BY <1>4, <3>4
      <4> QED
        BY <1>12, <3>1, <4>1, <4>2, <4>3, <4>4 DEF Configured, p
    <3>5. CASE ~(e.to = m /\ e.packet = NoPacket)
      <4>1. ~(log[x].operation \in ops /\ Names(x, externalId[m]))
        <5>1. CASE e.packet # NoPacket
          BY <2>3, <5>1 DEF Additions
        <5>2. CASE e.to # m
          <6>1. externalId[m] # externalId[e.to]
            BY <1>5, <2>3, <5>2
          <6> QED
            BY <2>3, <6>1
        <5> QED
          BY <3>5, <5>1, <5>2
      <4>2. 1 .. (x - 1) \subseteq 1 .. x
        BY <1>6
      <4>3. Configured(q, m, x, z)
        BY <3>2, <3>3, <4>1, <4>2 DEF Configured
      <4> QED
        BY <1>14, <2>1, <3>1, <3>5, <4>3
    <3> QED
      BY <3>4, <3>5
  <2> QED
    BY <2>2, <2>3
<1>17. InOrderOfIssue(r)'
  <2>1. /\ \A i, j \in DOMAIN pending' :
             i < j /\ pending'[i].to # Manager /\ pending'[j].to # Manager => r[i] < r[j]
        /\ \A i \in DOMAIN pending' :
             pending'[i].to # Manager => conf'[pending'[i].to] < r[i]
    BY <1>10, <1>11 DEF p
  <2>2. \A i \in DOMAIN pending' :
          pending'[i].to \in Alive' => Configured(r, pending[i].to, r[i] - 1, i)'
    BY <1>5, <1>15 DEF p
  <2>3. \A n \in 0 .. Len(log') : Handled' = 1 .. n =>
          \A m \in Alive' : Configured(r, m, n, Len(pending) + 1)'
    BY <1>5, <1>16 DEF p
  <2> QED
    BY <2>1, <2>2, <2>3 DEF InOrderOfIssue
<1>18. r \in [DOMAIN p -> 0 .. Len(log)]
  <2>1. \A i \in DOMAIN p : r[i] \in 0 .. Len(log)
    BY <1>2, <1>4
  <2> QED
    BY <1>4, <2>1
<1> QED
  BY <1>3, <1>6, <1>7, <1>8, <1>17, <1>18 DEF MessagesQueued, p

(* Nodes are removed by the command for the current time.                  *)
LEMMA RemovalsStep ==
    ASSUME FedInv, log' = log, mode = "up", Handled \subseteq Handled',
           \A m \in DOMAIN externalId : externalId'[m] = externalId[m],
           pending # <<>> => clock' = clock,
           \A i \in DOMAIN pending' : \/ \E j \in DOMAIN pending : pending'[i] = pending[j]
                                    \/ AppOf(pending'[i]) \in Alive',
           \A m \in Alive : m \in Alive' \/ \E k \in Handled' :
              /\ log[k].operation = "REMOVE_NODES"
              /\ Names(k, externalId[m])
              /\ log[k].time = clock'
    PROVE  RemovalsNow'
<1>1. ASSUME NEW i \in DOMAIN pending', AppOf(pending'[i]) \notin Alive'
      PROVE  \E k \in Handled' :
                 /\ log[k].operation = "REMOVE_NODES"
                 /\ Names(k, externalId'[AppOf(pending'[i])])
                 /\ log[k].time = clock'
  <2>1. PICK j \in DOMAIN pending : pending'[i] = pending[j]
    BY <1>1
  <2> DEFINE m == AppOf(pending[j])
  <2>2. m \in DOMAIN externalId
    BY DEF FedInv, IInv, NoMisdelivery, ReportsNameReceiver, AppOf
  <2>3. clock' = clock
    BY <2>1
  <2> HIDE DEF m
  <2>4. m \notin Alive'
    BY <1>1, <2>1 DEF m
  <2>5. \E k \in Handled' :
              /\ log[k].operation = "REMOVE_NODES"
              /\ Names(k, externalId[m])
              /\ log[k].time = clock'
    BY <2>3, <2>4 DEF FedInv, RemovalsNow, m
  <2> QED
    BY <2>1, <2>2, <2>5 DEF m
<1> QED
  BY <1>1, SameLog DEF RemovalsNow, AppOf

-----------------------------------------------------------------------------
(* Each event *)

(* An event that is not for a list of nodes. *)
LEMMA EventInv ==
    ASSUME FedInv, NEW kind, Take(kind),
           \/ fes' = Tail(fes)
           \/ \E e \in FesEvent :
                 /\ e.kind \in {"MESSAGE", "RX"} /\ clock' <= e.time
                 /\ e.kind = "MESSAGE" => e.time = clock'
                 /\ fes' \in Insert(Tail(fes), e),
           kind = "COMMAND" => log[Head(fes).of].operation \in {"CONF_RADIO", "MSG_SEND"},
           UNCHANGED <<mode, todo, nodes, externalId, current, place>>,
           IInv', conf' \in [DOMAIN externalId -> Nat], MessagesQueued',
           \A i \in DOMAIN pending' : \/ \E j \in DOMAIN pending : pending'[i] = pending[j]
                                    \/ AppOf(pending'[i]) \in Alive'
    PROVE  FedInv'
<1>1. /\ EventsInOrder' /\ CommandsInOrder'
      /\ mode = "up" /\ todo = <<>> /\ log' = log
      /\ clock' \in Nat /\ fes' \in Seq(FesEvent)
      /\ pending # <<>> => clock' = clock
      /\ kind # "COMMAND" => Handled' = Handled
      /\ kind = "COMMAND" =>
            /\ Head(fes).of \in DOMAIN log
            /\ Handled = 1 .. (Head(fes).of - 1) /\ Handled' = 1 .. Head(fes).of
  BY TakeOrder
<1>2. FederateTypeOK'
  BY <1>1 DEF FedInv, FederateTypeOK, Take, FesEvent
<1>3. CommandsSensible' /\ CommandUnderway' /\ NodesAdded' /\ NodesAsOrdered'
  BY <1>1, SameScenario
<1>4. Handled \subseteq Handled'
  <2>1. kind = "COMMAND" => Head(fes).of \in Nat
    BY <1>1 DEF FedInv, FederateTypeOK
  <2> QED
    BY <1>1, <2>1
<1>5. Alive' = Alive
  BY DEF Alive, Mapped
<1>6. RemovalsNow'
  BY <1>1, <1>4, <1>5, RemovalsStep
<1>7. NoError'
  BY DEF FedInv, NoError
<1> QED
  BY <1>1, <1>2, <1>3, <1>6, <1>7 DEF FedInv

LEMMA DropMessageInv == FedInv /\ DropMessage => FedInv'
<1> SUFFICES ASSUME FedInv, DropMessage PROVE FedInv'
  OBVIOUS
<1>1. /\ Take("MESSAGE") /\ fes' = Tail(fes)
      /\ UNCHANGED <<mode, todo, nodes, externalId, current, place, conf>>
      /\ pending # <<>> /\ pending' = Tail(pending)
      /\ Head(pending).to \notin Alive
  BY DEF DropMessage, DropStale, Arrive, nodeVars
<1>2. IInv'
  BY OtherArrivalsIInv DEF FedInv, DropMessage
<1>3. Handled' = Handled /\ log' = log
  BY <1>1, TakeOrder
<1>4. MessagesQueued'
  BY <1>1, <1>3, ArrivalMessages DEF Take
<1>5. \A i \in DOMAIN pending' : \E j \in DOMAIN pending : pending'[i] = pending[j]
  BY <1>1, TailElements DEF FedInv, IInv, TypeOK
<1>6. conf' \in [DOMAIN externalId -> Nat]
  BY <1>1 DEF FedInv, FederateTypeOK
<1> QED
  BY <1>1, <1>2, <1>4, <1>5, <1>6, EventInv

LEMMA ReportReceptionInv == FedInv /\ ReportReception => FedInv'
<1> SUFFICES ASSUME FedInv, ReportReception PROVE FedInv'
  OBVIOUS
<1>1. /\ Take("MESSAGE") /\ fes' = Tail(fes)
      /\ UNCHANGED <<mode, todo, nodes, externalId, current, place, conf>>
      /\ pending # <<>> /\ pending' = Tail(pending)
      /\ Head(pending).to \notin Alive
  BY Modules DEF FedInv, ReportReception, ReceiveV2xMessage, Arrive, nodeVars
<1>2. IInv'
  BY OtherArrivalsIInv DEF FedInv, ReportReception
<1>3. Handled' = Handled /\ log' = log
  BY <1>1, TakeOrder
<1>4. MessagesQueued'
  BY <1>1, <1>3, ArrivalMessages DEF Take
<1>5. \A i \in DOMAIN pending' : \E j \in DOMAIN pending : pending'[i] = pending[j]
  BY <1>1, TailElements DEF FedInv, IInv, TypeOK
<1>6. conf' \in [DOMAIN externalId -> Nat]
  BY <1>1 DEF FedInv, FederateTypeOK
<1> QED
  BY <1>1, <1>2, <1>4, <1>5, <1>6, EventInv

LEMMA HandleAtAppInv == FedInv /\ HandleAtApp => FedInv'
<1> SUFFICES ASSUME FedInv, HandleAtApp PROVE FedInv'
  OBVIOUS
<1>1. /\ Take("MESSAGE") /\ fes # <<>> /\ Head(fes).kind = "MESSAGE"
      /\ UNCHANGED <<mode, todo, nodes, externalId, current, place>>
      /\ pending # <<>> /\ pending' = Tail(pending)
      /\ Head(pending).to \in Alive
      /\ conf' = IF Head(pending).packet = NoPacket
                 THEN [conf EXCEPT ![Head(pending).to] = Head(fes).of] ELSE conf
  BY DEF HandleAtApp, HandleFedIn, Arrive, Take
<1>2. /\ Head(fes) \in FesEvent /\ clock' \in Nat /\ Tail(fes) \in Seq(FesEvent)
      /\ Head(pending) \in Pending
  <2>1. fes \in Seq(FesEvent) /\ clock' = Head(fes).time
    BY <1>1 DEF FedInv, EventsInOrder, InOrder, Take
  <2>2. Head(fes) \in FesEvent /\ Tail(fes) \in Seq(FesEvent)
    BY <1>1, <2>1, TailEvents
  <2> QED
    BY <1>1, <2>1, <2>2, TailElements DEF FesEvent, FedInv, IInv, TypeOK
<1>3. \/ fes' = Tail(fes)
      \/ \E e \in FesEvent :
            e.kind = "RX" /\ clock' <= e.time /\ fes' \in Insert(Tail(fes), e)
  <2>1. SUFFICES ASSUME NEW t \in clock' .. MaxTime,
                        fes' \in Insert(Tail(fes), Event(t, "RX", Head(pending).packet))
                 PROVE  \E e \in FesEvent :
                           e.kind = "RX" /\ clock' <= e.time /\ fes' \in Insert(Tail(fes), e)
    BY DEF HandleAtApp
  <2> DEFINE e == Event(t, "RX", Head(pending).packet)
  <2>2. e \in FesEvent /\ e.kind = "RX" /\ e.time = t
    BY <1>2, FederateAssumption DEF Event, FesEvent, Pending, EventKinds
  <2> QED
    BY <1>2, <2>1, <2>2, FederateAssumption
<1>4. IInv'
  BY FedInIInv DEF FedInv, HandleAtApp
<1>5. /\ \/ fes' = Tail(fes)
         \/ \E e \in FesEvent :
                 /\ e.kind \in {"MESSAGE", "RX"} /\ clock' <= e.time
                 /\ e.kind = "MESSAGE" => e.time = clock'
                 /\ fes' \in Insert(Tail(fes), e)
      /\ \A q \in Seq(Nat) : Follows(Tail(fes), q) => Follows(fes', q)
  <2>1. CASE fes' = Tail(fes)
    BY <2>1
  <2>2. CASE fes' # Tail(fes)
    <3>1. PICK e \in FesEvent :
            e.kind = "RX" /\ clock' <= e.time /\ fes' \in Insert(Tail(fes), e)
      BY <1>3, <2>2
    <3>2. e.kind # "MESSAGE" /\ e.kind \in {"MESSAGE", "RX"}
      BY <3>1
    <3>3. \A q \in Seq(Nat) : Follows(Tail(fes), q) => Follows(fes', q)
      BY <1>2, <3>1, <3>2, InsertOther
    <3> QED
      BY <3>1, <3>2, <3>3
  <2> QED
    BY <2>1, <2>2
<1>6. Handled' = Handled /\ log' = log
  BY <1>1, <1>5, TakeOrder
<1>7. MessagesQueued'
  BY <1>1, <1>5, <1>6, ArrivalMessages
<1>8. \A i \in DOMAIN pending' : \E j \in DOMAIN pending : pending'[i] = pending[j]
  BY <1>1, TailElements DEF FedInv, IInv, TypeOK
<1>9. conf' \in [DOMAIN externalId -> Nat]
  <2>1. conf \in [DOMAIN externalId -> Nat] /\ Head(fes).of \in Nat
    BY <1>2 DEF FedInv, FederateTypeOK, FesEvent
  <2> QED
    BY <1>1, <2>1
<1> QED
  BY <1>1, <1>4, <1>5, <1>7, <1>8, <1>9, EventInv

(* A message for an app or the manager is sent when another event than a   *)
(* message is handled.                                                     *)
LEMMA SendFollows ==
    ASSUME FedInv, NEW kind, Take(kind), kind # "MESSAGE", NEW x \in Nat, SendMessage(x)
    PROVE  /\ \E e \in FesEvent :
                 /\ e.kind \in {"MESSAGE", "RX"} /\ clock' <= e.time
                 /\ e.kind = "MESSAGE" => e.time = clock'
                 /\ fes' \in Insert(Tail(fes), e)
           /\ \A q \in Seq(Nat) : Follows(fes, q) => Follows(fes', Append(q, x))
<1> DEFINE e == Event(clock', "MESSAGE", x)
<1>1. /\ fes # <<>> /\ Head(fes).kind = kind /\ clock' = Head(fes).time
      /\ fes \in Seq(FesEvent) /\ InOrder(fes, clock, log) /\ clock \in Nat
  BY DEF Take, FedInv, EventsInOrder, InOrder, FederateTypeOK
<1>2. Head(fes) \in FesEvent /\ InOrder(Tail(fes), clock', log)
  BY <1>1, TailOrder
<1>3. clock' \in Nat /\ Tail(fes) \in Seq(FesEvent)
  BY <1>1, <1>2 DEF FesEvent, InOrder
<1>4. e \in FesEvent /\ e.kind = "MESSAGE" /\ e.time = clock' /\ e.of = x
  BY <1>3 DEF Event, FesEvent, EventKinds
<1>5. fes' \in Insert(Tail(fes), e)
  BY DEF SendMessage, Arrival
<1> HIDE DEF e
<1>6. ASSUME NEW q \in Seq(Nat), Follows(fes, q)
      PROVE  Follows(fes', Append(q, x))
  <2>1. Follows(Tail(fes), q)
    BY <1>1, <1>6, TailOther
  <2>2. \A i \in DOMAIN Tail(fes) :
           Tail(fes)[i].kind = "MESSAGE" => Tail(fes)[i].time <= e.time
    BY <1>2, <1>3, <1>4 DEF InOrder
  <2> QED
    BY <1>3, <1>4, <1>5, <2>1, <2>2, InsertMessage
<1>7. clock' <= e.time
  BY <1>3, <1>4
<1> QED
  BY <1>4, <1>5, <1>6, <1>7

LEMMA Appended ==
    ASSUME NEW S, NEW s \in Seq(S), NEW e
    PROVE  /\ Len(s) + 1 \in DOMAIN Append(s, e) /\ Append(s, e)[Len(s) + 1] = e
           /\ \A i \in DOMAIN Append(s, e) :
              \/ i = Len(s) + 1
              \/ i \in DOMAIN s /\ Append(s, e)[i] = s[i]
<1> DEFINE t == Append(s, e)
<1>1. s \in Seq(S \cup {e}) /\ e \in S \cup {e}
  OBVIOUS
<1>2. /\ DOMAIN t = DOMAIN s \cup {Len(s) + 1}
      /\ \A i \in DOMAIN s : t[i] = s[i]
      /\ t[Len(s) + 1] = e
  BY <1>1, AppendElements
<1> HIDE DEF t
<1>3. /\ Len(s) + 1 \in DOMAIN t /\ t[Len(s) + 1] = e
      /\ \A i \in DOMAIN t : i # Len(s) + 1 => i \in DOMAIN s /\ t[i] = s[i]
  BY <1>2
<1> QED
  BY <1>3 DEF t

LEMMA ReceiveInv == FedInv /\ Receive => FedInv'
<1> SUFFICES ASSUME FedInv, Receive PROVE FedInv'
  OBVIOUS
<1>1. /\ Take("RX") /\ fes # <<>> /\ Head(fes).kind = "RX"
      /\ UNCHANGED <<mode, todo, nodes, externalId, current, place, conf>>
      /\ fes \in Seq(FesEvent)
  BY DEF Receive, Take, ReceivePacket, nodeVars, managerVars, vars,
         FedInv, EventsInOrder, InOrder
<1>2. conf' \in [DOMAIN externalId -> Nat]
  BY <1>1 DEF FedInv, FederateTypeOK
<1>3. CASE ReceivePacket /\ SendMessage(0)
  <2>1. /\ \E e \in FesEvent :
              /\ e.kind \in {"MESSAGE", "RX"} /\ clock' <= e.time
              /\ e.kind = "MESSAGE" => e.time = clock'
              /\ fes' \in Insert(Tail(fes), e)
        /\ \A q \in Seq(Nat) : Follows(fes, q) => Follows(fes', Append(q, 0))
    BY <1>1, <1>3, SendFollows
  <2>2. PICK a \in air, m \in Alive :
           pending' = Append(pending, Reported(a.packet, packets'[a.packet], m))
    BY <1>3 DEF ReceivePacket
  <2> DEFINE e == Reported(a.packet, packets'[a.packet], m)
  <2>3. IInv'
    BY <1>3, ReceiveIInv DEF FedInv
  <2>4. /\ pending \in Seq(Pending) /\ pending' \in Seq(Pending)
        /\ e.to = Manager /\ e.from = m
    BY <2>3 DEF FedInv, IInv, TypeOK, Reported
  <2> HIDE DEF e
  <2>5. /\ pending' = Append(pending, e)
        /\ Len(pending) + 1 \in DOMAIN pending' /\ pending'[Len(pending) + 1] = e
        /\ \A i \in DOMAIN pending' :
              \/ i = Len(pending) + 1
              \/ i \in DOMAIN pending /\ pending'[i] = pending[i]
    <3>1. pending' = Append(pending, e)
      BY <2>2 DEF e
    <3> QED
      BY <2>4, <3>1, Appended
  <2>6. e \in Pending
    BY <2>4, <2>5
  <2>7. Alive' = Alive /\ AppOf(e) \in Alive'
    BY <1>1, <2>2, <2>4 DEF Alive, Mapped, AppOf
  <2>8. Handled' = Handled /\ log' = log
    BY <1>1, <2>1, TakeOrder
  <2>9. MessagesQueued'
    <3>1. 0 \in 0 .. Len(log)
      BY DEF FedInv, FederateTypeOK
    <3>2. \/ e.to = Manager /\ 0 = 0 /\ Handled' = Handled
          \/ FALSE
      BY <2>4, <2>8
    <3> QED
      BY <1>1, <2>1, <2>5, <2>6, <2>8, <3>1, <3>2, SentMessages
  <2>10. \A i \in DOMAIN pending' :
            \/ \E j \in DOMAIN pending : pending'[i] = pending[j]
            \/ AppOf(pending'[i]) \in Alive'
    BY <2>5, <2>7
  <2> QED
    BY <1>1, <1>2, <2>1, <2>3, <2>9, <2>10, EventInv
<1>4. CASE fes' = Tail(fes) /\ UNCHANGED managerVars
  <2>1. Handled' = Handled /\ log' = log
    BY <1>1, <1>4, TakeOrder
  <2>2. IInv'
    BY <1>4, NextIInv DEF FedInv, managerVars
  <2>3. pending' = pending /\ Alive' = Alive
    BY <1>4 DEF managerVars, vars, Alive, Mapped
  <2>4. MessagesQueued'
    BY <1>1, <1>4, <2>1, <2>3, SameMessages, TailOther
  <2> QED
    BY <1>1, <1>2, <1>4, <2>2, <2>3, <2>4, EventInv
<1> QED
  BY <1>3, <1>4 DEF Receive

LEMMA PassOnInv == FedInv /\ PassOn => FedInv'
<1> SUFFICES ASSUME FedInv, PassOn PROVE FedInv'
  OBVIOUS
<1> DEFINE k == Head(fes).of
           c == log[k]
           id == c.ids[1]
<1>1. /\ Take("COMMAND") /\ c.operation \in {"CONF_RADIO", "MSG_SEND"}
      /\ UNCHANGED <<current, place, conf>>
      /\ fes # <<>> /\ Head(fes).kind = "COMMAND" /\ fes \in Seq(FesEvent)
  BY DEF PassOn, TakeCommand, Take, nodeVars, FedInv, EventsInOrder, InOrder
<1>2. conf' \in [DOMAIN externalId -> Nat]
  BY <1>1 DEF FedInv, FederateTypeOK
<1>3. /\ InOrder(fes, clock, log) /\ clock \in Nat
      /\ k \in DOMAIN log /\ c \in Commands /\ k \in Nat /\ k # 0
  <2>1. InOrder(fes, clock, log) /\ clock \in Nat
    BY DEF FedInv, EventsInOrder, FederateTypeOK
  <2>2. k \in DOMAIN log
    BY <1>1, <2>1, TailOrder
  <2> QED
    BY <2>1, <2>2 DEF FedInv, FederateTypeOK
<1>4. \A i : Names(k, i) <=> i = id
  <2>1. Len(c.ids) = 1 /\ c.ids \in Seq(Ids)
    BY <1>1, <1>3 DEF FedInv, CommandsSensible, Commands, Operations
  <2>2. Range(c.ids) = {id}
    BY <2>1 DEF Range
  <2> QED
    BY <2>2 DEF Names
<1>5. CASE id \in Mapped
  <2> DEFINE packet == IF c.operation = "CONF_RADIO" THEN NoPacket ELSE Len(packets) + 1
             e == [to |-> wired[id], id |-> id, packet |-> packet, from |-> Manager]
  <2>1. Send(id, packet) /\ SendMessage(k)
    BY <1>5 DEF PassOn
  <2>2. /\ \E f \in FesEvent :
              /\ f.kind \in {"MESSAGE", "RX"} /\ clock' <= f.time
              /\ f.kind = "MESSAGE" => f.time = clock'
              /\ fes' \in Insert(Tail(fes), f)
        /\ \A q \in Seq(Nat) : Follows(fes, q) => Follows(fes', Append(q, k))
    BY <1>1, <1>3, <2>1, SendFollows
  <2>3. IInv'
    <3>1. packet \in {NoPacket, Len(packets) + 1}
      OBVIOUS
    <3> QED
      BY <1>5, <2>1, <3>1, SendIInv DEF FedInv
  <2>4. /\ id \in DOMAIN wired /\ wired[id] \in Alive
        /\ externalId[wired[id]] = id
    BY <1>5 DEF FedInv, IInv, GatesFollowNodes, Alive
  <2>5. /\ pending' = Append(pending, e)
        /\ UNCHANGED <<mode, todo, nodes, externalId>>
    BY <2>1, <2>4 DEF Send
  <2>6. e.to = wired[id] /\ e.id = id /\ e.packet = packet
    OBVIOUS
  <2>7. c.operation = IF packet = NoPacket THEN "CONF_RADIO" ELSE "MSG_SEND"
    <3>1. Len(packets) + 1 # NoPacket
      BY DEF FedInv, IInv, TypeOK, NoPacket
    <3> QED
      BY <1>1, <3>1
  <2> HIDE DEF e, packet
  <2>8. pending \in Seq(Pending) /\ pending' \in Seq(Pending)
    BY <2>3 DEF FedInv, IInv, TypeOK
  <2>9. /\ Len(pending) + 1 \in DOMAIN pending' /\ pending'[Len(pending) + 1] = e
        /\ \A i \in DOMAIN pending' :
              \/ i = Len(pending) + 1
              \/ i \in DOMAIN pending /\ pending'[i] = pending[i]
    BY <2>5, <2>8, Appended
  <2>10. e \in Pending
    BY <2>8, <2>9
  <2>11. Alive' = Alive /\ AppOf(e) \in Alive'
    <3>1. Alive' = Alive
      BY <2>5 DEF Alive, Mapped
    <3>2. Manager \notin Alive
      BY Modules DEF FedInv
    <3> QED
      BY <2>4, <2>6, <3>1, <3>2 DEF AppOf
  <2>12. Handled = 1 .. (k - 1) /\ Handled' = 1 .. k /\ log' = log
    BY <1>1, <2>2, TakeOrder
  <2>13. MessagesQueued'
    <3>1. k \in 0 .. Len(log)
      BY <1>3 DEF FedInv, FederateTypeOK
    <3>2. /\ k # 0 /\ Handled = 1 .. (k - 1) /\ Handled' = 1 .. k
          /\ e.to \in Alive /\ externalId[e.to] = e.id
          /\ Names(k, e.id) /\ \A i : Names(k, i) => i = e.id
          /\ log[k].operation = IF e.packet = NoPacket THEN "CONF_RADIO" ELSE "MSG_SEND"
      BY <1>3, <1>4, <2>4, <2>6, <2>7, <2>12
    <3> HIDE DEF k, c, id
    <3> QED
      BY <1>1, <2>2, <2>5, <2>10, <2>12, <3>1, <3>2, SentMessages
  <2>14. \A i \in DOMAIN pending' :
            \/ \E j \in DOMAIN pending : pending'[i] = pending[j]
            \/ AppOf(pending'[i]) \in Alive'
    BY <2>9, <2>11
  <2> QED
    BY <1>1, <1>2, <2>2, <2>3, <2>5, <2>13, <2>14, EventInv
<1>6. CASE fes' = Tail(fes) /\ UNCHANGED managerVars /\ id \notin Mapped
  <2>1. Handled = 1 .. (k - 1) /\ Handled' = 1 .. k /\ log' = log
    BY <1>1, <1>6, TakeOrder
  <2>2. IInv'
    BY <1>6, NextIInv DEF FedInv, managerVars
  <2>3. UNCHANGED <<mode, todo, nodes, externalId, pending>>
    BY <1>6 DEF managerVars, vars
  <2>4. \A m \in Alive : ~Names(k, externalId[m])
    BY <1>4, <1>6, Modules DEF FedInv
  <2>5. MessagesQueued'
    BY <1>1, <1>3, <1>6, <2>1, <2>3, <2>4, QuietCommand
  <2> QED
    BY <1>1, <1>2, <1>6, <2>2, <2>3, <2>5, EventInv
<1> QED
  BY <1>5, <1>6 DEF PassOn

LEMMA HandleFinishInv == FedInv /\ HandleFinish => FedInv'
<1> SUFFICES ASSUME FedInv, HandleFinish PROVE FedInv'
  OBVIOUS
<1>1. /\ Take("FINISH") /\ fes # <<>> /\ Head(fes).kind = "FINISH" /\ fes' = Tail(fes)
      /\ mode' = "ended" /\ Remove(Mapped)
      /\ UNCHANGED <<todo, externalId, pending, current, place, conf>>
      /\ fes \in Seq(FesEvent)
  BY DEF HandleFinish, Finish, Take, nodeVars, FedInv, EventsInOrder, InOrder
<1>2. /\ EventsInOrder' /\ CommandsInOrder'
      /\ todo = <<>> /\ log' = log /\ Handled' = Handled
      /\ clock' \in Nat /\ fes' \in Seq(FesEvent)
  BY <1>1, TakeOrder
<1>3. FederateTypeOK'
  BY <1>1, <1>2 DEF FedInv, FederateTypeOK, Take, FesEvent
<1>4. IInv'
  BY FinishIInv DEF FedInv, HandleFinish
<1>5. CommandsSensible'
  BY <1>2, SameLog DEF FedInv, CommandsSensible
<1>6. CommandUnderway'
  BY <1>1, <1>2 DEF CommandUnderway
<1>7. NodesAdded'
  BY <1>1, <1>2, SameLog DEF FedInv, NodesAdded
<1>8. MessagesQueued'
  <2>1. Alive' = {}
    BY <1>1 DEF Remove, Restrict, Alive, Mapped
  <2> QED
    BY <1>1, <1>2, <2>1, SameMessages, TailOther
<1> QED
  BY <1>1, <1>2, <1>3, <1>4, <1>5, <1>6, <1>7, <1>8
  DEF FedInv, NodesAsOrdered, RemovalsNow, NoError

LEMMA HandleMobilityInv == FedInv /\ HandleMobility => FedInv'
<1> SUFFICES ASSUME FedInv, HandleMobility PROVE FedInv'
  OBVIOUS
<1> DEFINE k == Head(fes).of
           c == log[k]
<1>1. /\ Take("COMMAND") /\ c.operation \in Operations
      /\ fes # <<>> /\ Head(fes).kind = "COMMAND" /\ fes' = Tail(fes)
      /\ todo' = [i \in DOMAIN c.ids |-> [operation |-> c.operation, id |-> c.ids[i]]]
      /\ todo' # <<>>
      /\ current' = k
      /\ UNCHANGED <<mode, nodes, externalId, pending, place, conf, running>>
  <2>1. /\ Take("COMMAND") /\ c.operation \in Operations /\ fes' = Tail(fes)
        /\ todo' = [i \in DOMAIN c.ids |-> [operation |-> c.operation, id |-> c.ids[i]]]
        /\ current' = k /\ place' = place /\ conf' = conf
        /\ HandleMobilityCmd
    BY DEF HandleMobility, TakeCommand, nodeVars
  <2>2. UNCHANGED <<mode, nodes, externalId, pending>>
    BY <2>1 DEF HandleMobilityCmd
  <2>4. todo' # <<>>
    <3>1. \A a, b : <<a>> # <<>> /\ <<a, b>> # <<>>
      OBVIOUS
    <3> QED
      BY <2>1, <3>1 DEF HandleMobilityCmd
  <2>3. fes # <<>> /\ Head(fes).kind = "COMMAND" /\ running' = running
    BY <2>1 DEF Take
  <2> QED
    BY <2>1, <2>2, <2>3, <2>4
<1>2. /\ EventsInOrder' /\ CommandsInOrder' /\ running'
      /\ mode = "up" /\ todo = <<>> /\ log' = log
      /\ clock' \in Nat /\ fes' \in Seq(FesEvent)
      /\ pending # <<>> => clock' = clock
      /\ k \in DOMAIN log /\ clock' = c.time
      /\ Handled = 1 .. (k - 1) /\ Handled' = 1 .. k
  <2>1. Take("COMMAND") /\ fes' = Tail(fes)
    BY <1>1
  <2>2. running' = running /\ running
    BY <2>1 DEF Take
  <2> QED
    BY <2>1, <2>2, TakeOrder
<1>3. /\ c \in Commands /\ c.ids \in Seq(Ids) /\ k \in Nat /\ k # 0
      /\ k \in 0 .. Len(log) /\ k - 1 \in 0 .. Len(log)
  <2>1. log \in Seq(Commands)
    BY DEF FedInv, FederateTypeOK
  <2>2. /\ c \in Commands
        /\ k \in Nat /\ k # 0 /\ k \in 0 .. Len(log) /\ k - 1 \in 0 .. Len(log)
    BY <1>2, <2>1
  <2> QED
    BY <2>2 DEF Commands
<1>4. /\ DOMAIN todo' = DOMAIN c.ids /\ Len(todo') = Len(c.ids)
      /\ \A i \in DOMAIN todo' : todo'[i].operation = c.operation /\ todo'[i].id = c.ids[i]
  <2>1. DOMAIN todo' = DOMAIN c.ids
    BY <1>1
  <2>2. \A i \in DOMAIN c.ids :
           todo'[i].operation = c.operation /\ todo'[i].id = c.ids[i]
    BY <1>1
  <2>3. DOMAIN c.ids = 1 .. Len(c.ids) /\ Len(c.ids) \in Nat
    BY <1>3
  <2>4. \A i \in DOMAIN c.ids :
           [operation |-> c.operation, id |-> c.ids[i]] \in Step
    BY <1>1, <1>3, SMTT(60) DEF Step
  <2>5. todo' \in [1 .. Len(c.ids) -> Step]
    BY <1>1, <2>3, <2>4
  <2>6. Len(todo') = Len(c.ids)
    BY <2>3, <2>5, FunctionIsSeq
  <2> QED
    BY <2>1, <2>2, <2>6
<1>5. /\ c.added = AddedBy(k - 1) + (IF c.operation \in Additions THEN Len(c.ids) ELSE 0)
      /\ \A i, j \in DOMAIN c.ids : c.ids[i] = c.ids[j] => i = j
      /\ c.operation \in Additions =>
            \A i \in DOMAIN c.ids : c.ids[i] \notin Present(1 .. (k - 1))
  BY <1>2 DEF FedInv, CommandsSensible
<1>6. \A id : Names(k, id) <=> \E i \in DOMAIN todo' : todo'[i].id = id
  BY <1>4 DEF Names, Range
<1> HIDE DEF k, c
<1>7. IInv'
  BY CommandIInv DEF FedInv, HandleMobility
<1>8. FederateTypeOK'
  BY <1>1, <1>2, <1>3 DEF FedInv, FederateTypeOK, Take, FesEvent
<1>9. CommandsSensible'
  BY <1>2, SameLog DEF FedInv, CommandsSensible
<1>10. CommandUnderway'
  <2>1. \A i \in DOMAIN todo' : Names(k, todo'[i].id)
    BY <1>6
  <2>2. \A i, j \in DOMAIN todo' : todo'[i].id = todo'[j].id => i = j
    BY <1>4, <1>5
  <2>3. Len(todo') <= Len(c.ids)
    BY <1>3, <1>4
  <2> QED
    BY <1>1, <1>2, <1>4, <2>1, <2>2, <2>3, SameLog DEF CommandUnderway, c
<1>11. NodesAdded'
  <2>1. SUFFICES ASSUME NEW n \in 0 .. Len(log), Handled' = 1 .. n
                 PROVE  AddedBy(n) = Len(externalId)
                           + (IF c.operation \in Additions THEN Len(todo') ELSE 0)
    BY <1>1, <1>2, SameLog DEF NodesAdded, c
  <2>2. n = k
    BY <1>2, <1>3, <2>1, Intervals
  <2>3. AddedBy(k - 1) = Len(externalId)
    BY <1>2, <1>3 DEF FedInv, NodesAdded
  <2>4. AddedBy(k) = c.added
    BY <1>3 DEF AddedBy, c
  <2> QED
    BY <1>4, <1>5, <2>2, <2>3, <2>4
<1>12. \A id : Effective(id) = 1 .. (k - 1)
  <2>1. DOMAIN todo = {}
    BY <1>2
  <2> QED
    BY <1>2, <2>1 DEF Effective
<1>13. \A id : Effective(id)' = IF Names(k, id) THEN 1 .. (k - 1) ELSE 1 .. k
  <2>1. (1 .. k) \ {k} = 1 .. (k - 1)
    BY <1>3
  <2> QED
    BY <1>1, <1>2, <1>6, <2>1 DEF Effective
<1>14. NodesAsOrdered'
  <2>1. Mapped' = Mapped
    BY <1>1 DEF Mapped
  <2>2. ASSUME NEW id \in Ids PROVE AsOrdered(id)'
    <3>1. AsOrdered(id)
      BY <1>2 DEF FedInv, NodesAsOrdered
    <3>2. \/ Effective(id)' = Effective(id)
          \/ \E j \in DOMAIN log :
               /\ Effective(id) = 1 .. (j - 1) /\ Effective(id)' = 1 .. j
               /\ Names(j, id) => log[j].operation \notin Operations
      BY <1>2, <1>12, <1>13
    <3> QED
      BY <1>1, <1>2, <2>1, <3>1, <3>2, SameNode
  <2> QED
    BY <2>2 DEF NodesAsOrdered
<1>15. MessagesQueued'
  <2>1. ASSUME NEW m \in Alive, log[k].operation \in Additions \cup {"CONF_RADIO"}
        PROVE  ~Names(k, externalId[m])
    <3>1. c.operation \in Additions
      BY <1>1, <2>1 DEF c, Operations
    <3>2. externalId[m] \in Mapped /\ externalId[m] \in Ids
      BY Modules DEF FedInv, IInv, TypeOK
    <3>3. externalId[m] \in Present(1 .. (k - 1))
      BY <1>2, <1>12, <3>2 DEF FedInv, NodesAsOrdered, AsOrdered
    <3> QED
      BY <1>4, <1>5, <1>6, <3>1, <3>3
  <2> QED
    BY <1>1, <1>2, <2>1, QuietCommand
<1>16. RemovalsNow'
  <2>1. Alive' = Alive
    BY <1>1 DEF Alive, Mapped
  <2>2. Handled \subseteq Handled'
    BY <1>2, <1>3
  <2> QED
    BY <1>1, <1>2, <2>1, <2>2, RemovalsStep
<1> QED
  BY <1>1, <1>2, <1>7, <1>8, <1>9, <1>10, <1>11, <1>14, <1>15, <1>16
  DEF FedInv, NoError

-----------------------------------------------------------------------------
(* The steps for one node of a list *)

(* What is known of the node at hand. *)
LEMMA AtHand ==
    ASSUME FedInv, todo # <<>>
    PROVE  /\ Head(todo) \in Step /\ Head(todo).id \in Ids
           /\ current \in DOMAIN log /\ current \in Nat /\ current # 0
           /\ current \in 0 .. Len(log) /\ current - 1 \in 0 .. Len(log)
           /\ Handled = 1 .. current /\ clock = log[current].time
           /\ Head(todo).operation = log[current].operation
           /\ Names(current, Head(todo).id)
           /\ Effective(Head(todo).id) = 1 .. (current - 1)
           /\ log[current].ids \in Seq(Ids)
<1>1. /\ todo \in Seq(Step) /\ log \in Seq(Commands)
  BY DEF FedInv, IInv, TypeOK, FederateTypeOK
<1>2. /\ Head(todo) \in Step /\ Head(todo) = todo[1] /\ 1 \in DOMAIN todo
  BY <1>1, TailElements
<1>3. /\ current \in DOMAIN log
      /\ Handled = 1 .. current /\ clock = log[current].time
      /\ Head(todo).operation = log[current].operation
      /\ Names(current, Head(todo).id)
  BY <1>2 DEF FedInv, CommandUnderway
<1>4. /\ current \in Nat /\ current # 0
      /\ current \in 0 .. Len(log) /\ current - 1 \in 0 .. Len(log)
  BY <1>1, <1>3
<1>5. Effective(Head(todo).id) = 1 .. (current - 1)
  <2>1. (1 .. current) \ {current} = 1 .. (current - 1)
    BY <1>4
  <2> QED
    BY <1>2, <1>3, <2>1 DEF Effective
<1>6. log[current] \in Commands
  BY <1>1, <1>3
<1> QED
  BY <1>2, <1>3, <1>4, <1>5, <1>6 DEF Step, Commands

(* The node at hand is done. *)
LEMMA NextInList ==
    ASSUME FedInv, todo # <<>>, todo' = Tail(todo), pending' = pending,
           UNCHANGED <<timeVars, fes, log, current>>, NEW a, a = Head(todo).id
    PROVE  /\ EventsInOrder' /\ CommandsInOrder' /\ CommandsSensible' /\ CommandUnderway'
           /\ Handled' = Handled
           /\ Effective(a)' = 1 .. current
           /\ \A id \in Ids : id # a => Effective(id)' = Effective(id)
           /\ Len(todo) \in Nat /\ Len(todo') = Len(todo) - 1
<1>1. todo \in Seq(Step)
  BY DEF FedInv, IInv, TypeOK
<1>2. /\ Len(todo) \in Nat /\ Len(todo') = Len(todo) - 1
      /\ 1 \in DOMAIN todo /\ a = todo[1].id
      /\ \A i \in DOMAIN todo' : i + 1 \in DOMAIN todo /\ todo'[i] = todo[i + 1] /\ i # 0
                                /\ i \in Nat
      /\ \A i \in DOMAIN todo : i # 1 => i - 1 \in DOMAIN todo' /\ todo'[i - 1] = todo[i]
  BY <1>1, TailEvents
<1>3. Handled' = Handled
  BY DEF Handled
<1>4. EventsInOrder' /\ CommandsInOrder'
  BY <1>3 DEF FedInv, EventsInOrder, CommandsInOrder, timeVars
<1>5. CommandsSensible'
  BY SameLog DEF FedInv, CommandsSensible
<1>6. /\ running /\ current \in DOMAIN log /\ Handled = 1 .. current
      /\ clock = log[current].time
      /\ \A i \in DOMAIN todo :
            todo[i].operation = log[current].operation /\ Names(current, todo[i].id)
      /\ \A i, j \in DOMAIN todo : todo[i].id = todo[j].id => i = j
      /\ Len(todo) <= Len(log[current].ids)
      /\ Len(log[current].ids) \in Nat
  BY AtHand DEF FedInv, CommandUnderway
<1>7. CommandUnderway'
  <2>1. \A i, j \in DOMAIN todo' : todo'[i].id = todo'[j].id => i = j
    <3> SUFFICES ASSUME NEW i \in DOMAIN todo', NEW j \in DOMAIN todo',
                        todo'[i].id = todo'[j].id
                 PROVE  i = j
      OBVIOUS
    <3>1. i + 1 = j + 1
      BY <1>2, <1>6
    <3> QED
      BY <1>2, <3>1
  <2>2. \A i \in DOMAIN todo' :
          todo'[i].operation = log[current].operation /\ Names(current, todo'[i].id)
    BY <1>2, <1>6
  <2>3. Len(todo') <= Len(log[current].ids)
    BY <1>2, <1>6
  <2> QED
    BY <1>3, <1>6, <2>1, <2>2, <2>3, SameLog DEF CommandUnderway, timeVars
<1>8. /\ \A i \in DOMAIN todo' : todo'[i].id # a
      /\ \A id : id # a => ((\E i \in DOMAIN todo' : todo'[i].id = id) <=>
                                 \E i \in DOMAIN todo : todo[i].id = id)
  <2>1. \A i \in DOMAIN todo' : todo'[i].id # a
    <3> SUFFICES ASSUME NEW i \in DOMAIN todo', todo'[i].id = a PROVE FALSE
      OBVIOUS
    <3>1. i + 1 = 1
      BY <1>2, <1>6
    <3> QED
      BY <1>2, <3>1
  <2> QED
    BY <1>2, <2>1
<1>9. /\ Effective(a)' = 1 .. current
      /\ \A id \in Ids : id # a => Effective(id)' = Effective(id)
  <2>2. Effective(a)' = 1 .. current
    BY <1>3, <1>6, <1>8 DEF Effective
  <2>3. ASSUME NEW id \in Ids, id # a PROVE Effective(id)' = Effective(id)
    BY <1>3, <1>8, <2>3 DEF Effective
  <2> QED
    BY <2>2, <2>3
<1> QED
  BY <1>2, <1>3, <1>4, <1>5, <1>7, <1>9

(* The node at hand is as its command has it; others are as before.        *)
LEMMA NextAsOrdered ==
    ASSUME FedInv, todo # <<>>, mode = "up", NEW a, a = Head(todo).id,
           log' = log, Effective(a)' = 1 .. current,
           \A id \in Ids : id # a => Effective(id)' = Effective(id),
           \A id \in Ids : id # a =>
              /\ id \in Mapped' <=> id \in Mapped
              /\ id \in Mapped => place'[nodes'[id].module] = place[nodes[id].module],
           \/ /\ log[current].operation \in Positioning
              /\ a \in Mapped' /\ place'[nodes'[a].module] = PlaceOf(current, a)
           \/ log[current].operation = "REMOVE_NODES" /\ a \notin Mapped'
    PROVE  NodesAsOrdered'
<1>1. /\ a \in Ids /\ current \in Nat /\ current # 0 /\ current \in DOMAIN log
      /\ Names(current, a) /\ Effective(a) = 1 .. (current - 1)
      /\ Head(todo).operation = log[current].operation
  BY AtHand
<1>2. log[current].operation = "MOVE_NODES" => a \in Present(1 .. (current - 1))
  <2>1. ASSUME log[current].operation = "MOVE_NODES"
        PROVE  \A i \in DOMAIN log[current].ids :
                  log[current].ids[i] \in Present(1 .. (current - 1))
    BY <1>1, <2>1 DEF FedInv, CommandsSensible
  <2> QED
    BY <1>1, <2>1 DEF Names, Range
<1>3. a \in Present(1 .. current) <=> a \in Mapped'
  <2>1. a \in Present(1 .. current) <=>
           IF log[current].operation \in Additions \cup {"REMOVE_NODES"}
           THEN log[current].operation \in Additions
           ELSE a \in Present(1 .. (current - 1))
    BY <1>1, PresentStep
  <2> QED
    BY <1>2, <2>1 DEF Additions, Positioning
<1>4. a \in Mapped' => Placed(PlaceOf(current, a), 1 .. current, a)
  <2>1. a \in Mapped' => log[current].operation \in Positioning
    OBVIOUS
  <2>2. a \in Mapped' => IsLast(current, 1 .. current, a, Positioning)
    BY <1>1, <2>1, LastStep
  <2>3. current \in 1 .. current
    BY <1>1
  <2> QED
    BY <2>2, <2>3 DEF Placed
<1>5. AsOrdered(a)'
  <2>1. a \in Mapped' <=> a \in Present(Effective(a))'
    BY <1>3, SameLog
  <2>2. a \in Mapped' => Placed(place[nodes[a].module], Effective(a), a)'
    <3>1. ASSUME a \in Mapped' PROVE place'[nodes'[a].module] = PlaceOf(current, a)
      BY <3>1
    <3> QED
      BY <1>4, <3>1, SameLog
  <2> QED
    BY <2>1, <2>2 DEF AsOrdered
<1>6. ASSUME NEW id \in Ids, id # a PROVE AsOrdered(id)'
  <2>1. AsOrdered(id)
    BY DEF FedInv, NodesAsOrdered
  <2> QED
    BY <1>6, <2>1, SameNode
<1> QED
  BY <1>5, <1>6 DEF NodesAsOrdered

LEMMA MoveInv == FedInv /\ Move => FedInv'
<1> SUFFICES ASSUME FedInv, Move PROVE FedInv'
  OBVIOUS
<1>a. PICK a : a = Head(todo).id
  OBVIOUS
<1>1. /\ MoveNode /\ todo # <<>> /\ mode = "up" /\ Head(todo).operation = "MOVE_NODES"
      /\ todo' = Tail(todo)
      /\ UNCHANGED <<mode, nodes, externalId, pending>>
      /\ UNCHANGED <<timeVars, fes, log, current, conf>>
      /\ place' = IF a \in Mapped
                  THEN [place EXCEPT ![nodes[a].module] = current] ELSE place
  BY <1>a DEF Move, MoveNode, Current, Done
<1>2. /\ a \in Ids /\ Names(current, a) /\ Effective(a) = 1 .. (current - 1)
      /\ current \in DOMAIN log /\ current \in Nat
      /\ log[current].operation = "MOVE_NODES"
  BY <1>a, <1>1, AtHand
<1> DEFINE b == nodes[a].module
<1>3. a \in Mapped
  <2>1. \A i \in DOMAIN log[current].ids :
                  log[current].ids[i] \in Present(1 .. (current - 1))
    BY <1>2 DEF FedInv, CommandsSensible
  <2>2. a \in Present(1 .. (current - 1))
    BY <1>2, <2>1 DEF Names, Range
  <2> QED
    BY <1>1, <1>2, <2>2 DEF FedInv, NodesAsOrdered, AsOrdered
<1>4. /\ place \in [DOMAIN externalId -> Nat] /\ b \in DOMAIN externalId
      /\ \A id \in Mapped : id # a => nodes[id].module # b
  BY <1>3 DEF FedInv, FederateTypeOK, IInv, GatesFollowNodes
<1> HIDE DEF b
<1>5. /\ place' \in [DOMAIN externalId -> Nat] /\ place'[b] = current
      /\ \A m \in DOMAIN externalId : m # b => place'[m] = place[m]
  BY <1>1, <1>2, <1>3, <1>4 DEF b
<1>6. /\ EventsInOrder' /\ CommandsInOrder' /\ CommandsSensible' /\ CommandUnderway'
      /\ Handled' = Handled
      /\ Effective(a)' = 1 .. current
      /\ \A id \in Ids : id # a => Effective(id)' = Effective(id)
  BY <1>a, <1>1, NextInList
<1>7. Mapped' = Mapped /\ Alive' = Alive
  BY <1>1 DEF Mapped, Alive
<1>8. NodesAsOrdered'
  <2>1. \A id \in Mapped : nodes[id].module \in DOMAIN externalId
    BY DEF FedInv, IInv, GatesFollowNodes
  <2>2. \A id \in Ids : id # a =>
              /\ id \in Mapped' <=> id \in Mapped
              /\ id \in Mapped => place'[nodes'[id].module] = place[nodes[id].module]
    BY <1>1, <1>4, <1>5, <1>7, <2>1
  <2>3. PlaceOf(current, a) = current
    BY <1>2 DEF PlaceOf, Additions
  <2>4. a \in Mapped' /\ place'[nodes'[a].module] = PlaceOf(current, a)
    BY <1>1, <1>3, <1>5, <1>7, <2>3 DEF b
  <2>5. log[current].operation \in Positioning
    BY <1>2 DEF Positioning
  <2> QED
    BY <1>1, <1>2, <1>6, <2>2, <2>4, <2>5, <1>a, NextAsOrdered
<1>9. MessagesQueued'
  BY <1>1, <1>6, <1>7, SameMessages
<1>10. RemovalsNow'
  BY <1>1, <1>6, <1>7, RemovalsStep DEF timeVars
<1>11. NodesAdded'
  <2>1. log[current].operation \notin Additions
    BY <1>2 DEF Additions
  <2> QED
    BY <1>1, <1>6, <2>1, SameLog DEF FedInv, NodesAdded
<1>12. FederateTypeOK'
  BY <1>1, <1>5 DEF FedInv, FederateTypeOK, timeVars
<1>13. IInv'
  BY <1>1, MoveIInv DEF FedInv
<1> QED
  BY <1>1, <1>6, <1>8, <1>9, <1>10, <1>11, <1>12, <1>13 DEF FedInv, NoError

LEMMA RemoveOneInv == FedInv /\ RemoveOne => FedInv'
<1> SUFFICES ASSUME FedInv, RemoveOne PROVE FedInv'
  OBVIOUS
<1>a. PICK a : a = Head(todo).id
  OBVIOUS
<1>1. /\ RemoveNode /\ todo # <<>> /\ mode = "up" /\ Head(todo).operation = "REMOVE_NODES"
      /\ UNCHANGED <<timeVars, fes, log, current, place, conf>>
  BY DEF RemoveOne, RemoveNode, Current, nodeVars
<1>2. /\ a \in Ids /\ Names(current, a) /\ Effective(a) = 1 .. (current - 1)
      /\ current \in DOMAIN log /\ current \in Nat /\ current # 0
      /\ Handled = 1 .. current /\ clock = log[current].time
      /\ log[current].operation = "REMOVE_NODES"
  BY <1>a, <1>1, AtHand
<1>3. a \in Mapped
  <2>1. \A i \in DOMAIN log[current].ids :
                  log[current].ids[i] \in Present(1 .. (current - 1))
    BY <1>2 DEF FedInv, CommandsSensible
  <2>2. a \in Present(1 .. (current - 1))
    BY <1>2, <2>1 DEF Names, Range
  <2> QED
    BY <1>1, <1>2, <2>2 DEF FedInv, NodesAsOrdered, AsOrdered
<1>4. /\ Remove({a}) /\ todo' = Tail(todo)
      /\ UNCHANGED <<mode, externalId, pending>>
  BY <1>a, <1>1, <1>3 DEF RemoveNode, Done
<1>5. Mapped' = Mapped \ {a} /\ \A id \in Mapped' : nodes'[id] = nodes[id]
  BY <1>4 DEF Remove, Restrict, Mapped
<1>6. /\ EventsInOrder' /\ CommandsInOrder' /\ CommandsSensible' /\ CommandUnderway'
      /\ Handled' = Handled
      /\ Effective(a)' = 1 .. current
      /\ \A id \in Ids : id # a => Effective(id)' = Effective(id)
  BY <1>a, <1>1, <1>4, NextInList
<1>7. NodesAsOrdered'
  <2>1. \A id \in Ids : id # a =>
              /\ id \in Mapped' <=> id \in Mapped
              /\ id \in Mapped => place'[nodes'[id].module] = place[nodes[id].module]
    BY <1>1, <1>5
  <2>2. a \notin Mapped'
    BY <1>5
  <2> QED
    BY <1>1, <1>2, <1>6, <2>1, <2>2, <1>a, NextAsOrdered
<1>8. Alive' \subseteq Alive
  BY <1>5 DEF Alive
<1>9. MessagesQueued'
  BY <1>1, <1>4, <1>6, <1>8, SameMessages
<1>10. RemovalsNow'
  <2>1. ASSUME NEW m \in Alive, m \notin Alive'
        PROVE  \E k \in Handled' : /\ log[k].operation = "REMOVE_NODES"
                                   /\ Names(k, externalId[m])
                                   /\ log[k].time = clock'
    <3>1. externalId[m] \in Mapped /\ nodes[externalId[m]].module = m
      BY Modules DEF FedInv
    <3>2. externalId[m] = a
      BY <1>5, <2>1, <3>1 DEF Alive
    <3>3. current \in Handled' /\ clock' = clock
      BY <1>1, <1>2, <1>6 DEF timeVars
    <3> QED
      BY <1>2, <3>2, <3>3
  <2>2. \A m \in Alive : m \in Alive' \/ \E k \in Handled' :
              /\ log[k].operation = "REMOVE_NODES"
              /\ Names(k, externalId[m])
              /\ log[k].time = clock'
    BY <2>1
  <2>3. clock' = clock
    BY <1>1 DEF timeVars
  <2> QED
    BY <1>1, <1>4, <1>6, <2>2, <2>3, RemovalsStep
<1>11. NodesAdded'
  <2>1. log[current].operation \notin Additions
    BY <1>2 DEF Additions
  <2> QED
    BY <1>1, <1>4, <1>6, <2>1, SameLog DEF FedInv, NodesAdded
<1>12. FederateTypeOK'
  BY <1>1, <1>4 DEF FedInv, FederateTypeOK, timeVars
<1>13. IInv'
  BY <1>1, RemoveIInv DEF FedInv
<1> QED
  BY <1>1, <1>4, <1>6, <1>7, <1>9, <1>10, <1>11, <1>12, <1>13 DEF FedInv, NoError

(* A new node that is absent and counted is created. *)
LEMMA Created ==
    ASSUME IInv, todo # <<>>, NEW kind \in Kinds, NEW id \in Ids, id \notin Mapped,
           id <= Len(externalId), Create(kind, id)
    PROVE  /\ Mapped' = Mapped \cup {id}
           /\ nodes'[id].module = Len(externalId) + 1
           /\ \A i \in Mapped : nodes'[i] = nodes[i]
           /\ externalId' = Append(externalId, id)
           /\ todo' = Tail(todo)
           /\ UNCHANGED <<mode, pending>>
<1>1. gateSize = Len(externalId) /\ gateSize \in Nat /\ DOMAIN wired = Mapped /\ id \in Nat
      /\ vecSize[kind] \in Nat
  BY DEF IInv, TypeOK, VectorsHoldNodes, GatesFollowNodes, Ids
<1> DEFINE module == Len(externalId) + 1
           size == GrownVector(kind, id)
<1>2. size > id /\ size \in Nat
  BY <1>1 DEF GrownVector
<1> HIDE DEF size
<1>3. /\ nodes' = [i \in Mapped \cup {id} |->
              IF i = id THEN [module |-> module, kind |-> kind] ELSE nodes[i]]
      /\ externalId' = Append(externalId, id)
      /\ todo' = Tail(todo)
      /\ UNCHANGED <<mode, pending>>
  BY <1>1, <1>2 DEF Create, GateIndex, Done, size
<1> HIDE DEF module
<1>4. Mapped' = Mapped \cup {id} /\ nodes'[id].module = module
      /\ \A i \in Mapped : nodes'[i] = nodes[i]
  BY <1>3 DEF Mapped
<1> QED
  BY <1>3, <1>4 DEF module

LEMMA AddInv == FedInv /\ Add => FedInv'
<1> SUFFICES ASSUME FedInv, Add PROVE FedInv'
  OBVIOUS
<1>a. PICK a : a = Head(todo).id
  OBVIOUS
<1>1. /\ todo # <<>> /\ mode = "up" /\ Head(todo).operation \in Additions
      /\ AddNode \/ AddRsuNode
      /\ \E kind \in Kinds : Create(kind, a)
      /\ UNCHANGED <<timeVars, fes, log, current>>
  BY <1>a DEF Add, AddNode, AddRsuNode, Current, Additions, Kinds
<1>2. /\ a \in Ids /\ Names(current, a) /\ Effective(a) = 1 .. (current - 1)
      /\ current \in DOMAIN log /\ current \in Nat /\ current # 0
      /\ current \in 0 .. Len(log) /\ current - 1 \in 0 .. Len(log)
      /\ Handled = 1 .. current
      /\ log[current].operation \in Additions
      /\ log[current].ids \in Seq(Ids)
  BY <1>1, <1>a, AtHand
<1>3. a \notin Present(1 .. (current - 1)) /\ a <= AddedBy(current - 1)
  <2>1. \A i \in DOMAIN log[current].ids :
           /\ log[current].ids[i] \notin Present(1 .. (current - 1))
           /\ log[current].ids[i] <= AddedBy(current - 1)
    BY <1>2 DEF FedInv, CommandsSensible
  <2> QED
    BY <1>2, <2>1 DEF Names, Range
<1>4. /\ Len(externalId) \in Nat /\ Len(todo) \in Nat /\ Len(log[current].ids) \in Nat
      /\ externalId \in Seq(Ids) /\ pending \in Seq(Pending) /\ a \in Nat
  BY <1>2 DEF FedInv, IInv, TypeOK, Ids
<1>5. AddedBy(current) = Len(externalId) + Len(todo)
  BY <1>1, <1>2 DEF FedInv, NodesAdded
<1>6. a \notin Mapped /\ a <= Len(externalId)
  <2>1. a \notin Mapped
    BY <1>1, <1>2, <1>3 DEF FedInv, NodesAsOrdered, AsOrdered
  <2>2. AddedBy(current) = AddedBy(current - 1) + Len(log[current].ids)
    BY <1>2 DEF FedInv, CommandsSensible, AddedBy
  <2>3. Len(todo) <= Len(log[current].ids)
    BY <1>1 DEF FedInv, CommandUnderway
  <2>4. AddedBy(current - 1) \in Nat
    <3>1. log \in Seq(Commands)
      BY DEF FedInv, FederateTypeOK
    <3>2. current - 1 # 0 => log[current - 1] \in Commands
      BY <1>2, <3>1
    <3> QED
      BY <3>2 DEF AddedBy, Commands
  <2> QED
    BY <1>3, <1>4, <1>5, <2>1, <2>2, <2>3, <2>4
<1> DEFINE z == Len(externalId) + 1
<1>7. /\ Mapped' = Mapped \cup {a}
      /\ nodes'[a].module = z
      /\ \A i \in Mapped : nodes'[i] = nodes[i]
      /\ externalId' = Append(externalId, a)
      /\ todo' = Tail(todo)
      /\ UNCHANGED <<mode, pending>>
  BY <1>1, <1>2, <1>6, Created DEF FedInv
<1>8. /\ z \in Nat /\ Len(externalId') = z
      /\ DOMAIN externalId' = DOMAIN externalId \cup {z}
      /\ z \notin DOMAIN externalId
      /\ \A m \in DOMAIN externalId : externalId'[m] = externalId[m]
      /\ externalId'[z] = a
  BY <1>2, <1>4, <1>7, AppendElements
<1>9. /\ place \in [DOMAIN externalId -> Nat] /\ conf \in [DOMAIN externalId -> Nat]
      /\ DOMAIN externalId = 1 .. Len(externalId)
  BY <1>4 DEF FedInv, FederateTypeOK
<1> DEFINE at == PlaceOf(current, a)
<1>10. /\ place' = Append(place, at) /\ conf' = Append(conf, None)
       /\ at \in Nat
  <2>1. externalId' # externalId
    BY <1>4, <1>8
  <2>2. SetInitialPosition(current, a) = at
    BY <1>2 DEF SetInitialPosition, PlaceOf
  <2>3. at \in Nat
    BY <1>2 DEF PlaceOf, Default
  <2> QED
    BY <1>a, <2>1, <2>2, <2>3 DEF Add
<1> HIDE DEF at
<1>11. /\ place \in Seq(Nat) /\ conf \in Seq(Nat)
       /\ Len(place) = Len(externalId) /\ Len(conf) = Len(externalId)
  <2>1. place \in [1 .. Len(externalId) -> Nat] /\ conf \in [1 .. Len(externalId) -> Nat]
    BY <1>9
  <2>2. place \in Seq(Nat) /\ Len(place) = Len(externalId)
    BY <1>4, <2>1, FunctionIsSeq
  <2>3. conf \in Seq(Nat) /\ Len(conf) = Len(externalId)
    BY <1>4, <2>1, FunctionIsSeq
  <2> QED
    BY <2>2, <2>3
<1>12. /\ place' \in [DOMAIN externalId' -> Nat] /\ conf' \in [DOMAIN externalId' -> Nat]
       /\ place'[z] = at /\ conf'[z] = None
       /\ \A m \in DOMAIN externalId : place'[m] = place[m] /\ conf'[m] = conf[m]
  <2>1. /\ DOMAIN place' = DOMAIN place \cup {z} /\ place' \in Seq(Nat)
        /\ place'[z] = at /\ \A m \in DOMAIN place : place'[m] = place[m]
    BY <1>2, <1>10, <1>11, AppendElements, SMTT(60)
  <2>2. /\ DOMAIN conf' = DOMAIN conf \cup {z} /\ conf' \in Seq(Nat)
        /\ conf'[z] = None /\ \A m \in DOMAIN conf : conf'[m] = conf[m]
    <3>1. None \in Nat
      BY DEF None
    <3> QED
      BY <1>10, <1>11, <3>1, AppendElements
  <2> QED
    BY <1>8, <1>9, <2>1, <2>2
<1>13. /\ EventsInOrder' /\ CommandsInOrder' /\ CommandsSensible' /\ CommandUnderway'
       /\ Handled' = Handled
       /\ Effective(a)' = 1 .. current
       /\ \A id \in Ids : id # a => Effective(id)' = Effective(id)
       /\ Len(todo') = Len(todo) - 1
  BY <1>1, <1>7, <1>a, NextInList
<1> HIDE DEF z
<1>14. IInv'
  <2>1. [Next]_vars
    BY <1>1 DEF Next, HandleMessage
  <2> QED
    BY <2>1, NextIInv DEF FedInv
<1>15. FederateTypeOK'
  BY <1>1, <1>12 DEF FedInv, FederateTypeOK, timeVars
<1>16. Alive' = Alive \cup {z}
  BY <1>6, <1>7 DEF Alive
<1>17. /\ \A m \in Alive : m \in DOMAIN externalId
       /\ \A i \in DOMAIN pending : pending[i].to # Manager =>
             pending[i].to \in DOMAIN externalId
       /\ z # Manager
  BY <1>4, Modules DEF FedInv, z, Manager
<1>18. NodesAdded'
  <2>1. SUFFICES ASSUME NEW n \in 0 .. Len(log), Handled = 1 .. n
                 PROVE  AddedBy(n) = Len(externalId')
                           + (IF todo' # <<>> THEN Len(todo') ELSE 0)
    BY <1>1, <1>2, <1>13, SameLog DEF NodesAdded
  <2>2. n = current
    BY <1>2, <2>1, Intervals
  <2>3. todo' \in Seq(Step) /\ Len(todo') \in Nat /\ (todo' = <<>> => Len(todo') = 0)
    BY <1>14 DEF IInv, TypeOK
  <2>4. (IF todo' # <<>> THEN Len(todo') ELSE 0) = Len(todo')
    BY <2>3
  <2>5. AddedBy(current) = z + Len(todo')
    BY <1>4, <1>5, <1>13, <2>3 DEF z
  <2> QED
    BY <1>8, <2>2, <2>4, <2>5
<1>19. NodesAsOrdered'
  <2>1. \A id \in Mapped : nodes[id].module \in DOMAIN externalId
    BY DEF FedInv, IInv, GatesFollowNodes
  <2>2. \A id \in Ids : id # a =>
              /\ id \in Mapped' <=> id \in Mapped
              /\ id \in Mapped => place'[nodes'[id].module] = place[nodes[id].module]
    BY <1>7, <1>12, <2>1
  <2>3. a \in Mapped' /\ place'[nodes'[a].module] = PlaceOf(current, a)
    BY <1>7, <1>12 DEF at
  <2>4. log[current].operation \in Positioning
    BY <1>2 DEF Positioning
  <2> QED
    BY <1>1, <1>2, <1>13, <2>2, <2>3, <2>4, <1>a, NextAsOrdered
<1>20. RemovalsNow'
  BY <1>1, <1>7, <1>8, <1>13, <1>16, RemovalsStep DEF timeVars
<1>21. MessagesQueued'
  <2>1. PICK q \in [DOMAIN pending -> 0 .. Len(log)] :
         Follows(fes, q) /\ Sources(q) /\ InOrderOfIssue(q)
    BY DEF FedInv, MessagesQueued
  <2>2. Follows(fes', q)
    BY <1>1, <2>1
  <2>3. Sources(q)'
    BY <1>1, <1>7, <1>13, <2>1, SameLog DEF Sources
  <2>4. ASSUME NEW m \in Alive, NEW n, NEW j, Configured(q, m, n, j)
        PROVE  Configured(q, m, n, j)'
    <3>1. \A k, ops : IsLast(k, 1 .. n, externalId[m], ops)'
                     <=> IsLast(k, 1 .. n, externalId[m], ops)
      BY <1>1, <1>8, <1>17, SameLog
    <3>2. conf'[m] = conf[m]
      BY <1>12, <1>17
    <3> QED
      BY <1>1, <1>7, <2>4, <3>1, <3>2 DEF Configured
  <2>5. ASSUME NEW n \in 0 .. Len(log), Handled = 1 .. n, NEW j, j = Len(pending) + 1,
               NEW m, m = z
        PROVE  Configured(q, m, n, j)'
    <3>1. n = current
      BY <1>2, <2>5, Intervals
    <3>2. IsLast(current, 1 .. current, a, Additions \cup {"CONF_RADIO"})
      BY <1>2, LastStep
    <3>3. IsLast(current, 1 .. n, externalId[m], Additions \cup {"CONF_RADIO"})'
      BY <1>1, <1>8, <2>5, <3>1, <3>2, SameLog
    <3>4. log[current].operation # "CONF_RADIO" /\ current \in 1 .. n
      BY <1>2, <3>1 DEF Additions
    <3>5. \A i \in 1 .. (j - 1) : pending[i].to # m
      BY <1>4, <1>8, <1>17, <2>5
    <3> QED
      BY <1>1, <1>7, <1>12, <2>5, <3>3, <3>4, <3>5 DEF Configured
  <2>6. ASSUME NEW i \in DOMAIN pending, NEW m, m = pending[i].to, m \in Alive'
        PROVE  Configured(q, m, q[i] - 1, i)'
    <3>1. m \in Alive
      BY <1>8, <1>16, <1>17, <2>6
    <3> QED
      BY <2>1, <2>4, <2>6, <3>1 DEF InOrderOfIssue
  <2>7. ASSUME NEW n \in 0 .. Len(log), Handled = 1 .. n, NEW m, m \in Alive',
               NEW j, j = Len(pending) + 1
        PROVE  Configured(q, m, n, j)'
    <3>1. CASE m = z
      BY <2>5, <2>7, <3>1
    <3>2. CASE m \in Alive
      BY <2>1, <2>4, <2>7, <3>2 DEF InOrderOfIssue
    <3> QED
      BY <1>16, <2>7, <3>1, <3>2
  <2>8. InOrderOfIssue(q)'
    <3>1. /\ \A i, j \in DOMAIN pending' :
             i < j /\ pending'[i].to # Manager /\ pending'[j].to # Manager => q[i] < q[j]
          /\ \A i \in DOMAIN pending' :
             pending'[i].to # Manager => conf'[pending'[i].to] < q[i]
      BY <1>7, <1>12, <1>17, <2>1 DEF InOrderOfIssue
    <3>2. \A i \in DOMAIN pending' :
          pending'[i].to \in Alive' => Configured(q, pending[i].to, q[i] - 1, i)'
      BY <1>7, <2>6
    <3>3. \A n \in 0 .. Len(log') : Handled' = 1 .. n =>
          \A m \in Alive' : Configured(q, m, n, Len(pending) + 1)'
      BY <1>1, <1>7, <1>13, <2>7
    <3> QED
      BY <3>1, <3>2, <3>3 DEF InOrderOfIssue
  <2>9. \A m \in DOMAIN conf' : conf'[m] \in {None} \cup Handled'
    <3>1. \A m \in DOMAIN conf : conf[m] \in {None} \cup Handled
      BY DEF FedInv, MessagesQueued
    <3> QED
      BY <1>8, <1>9, <1>12, <1>13, <3>1
  <2>10. q \in [DOMAIN pending' -> 0 .. Len(log')]
    BY <1>1, <1>7
  <2> QED
    BY <2>2, <2>3, <2>8, <2>9, <2>10 DEF MessagesQueued
<1> QED
  BY <1>1, <1>7, <1>13, <1>14, <1>15, <1>18, <1>19, <1>20, <1>21 DEF FedInv, NoError

-----------------------------------------------------------------------------
(* The ambassador's own steps *)

(* All commands are issued, and all grants made, for no earlier time than  *)
(* the latest.                                                             *)
LEMMA Latest ==
    ASSUME FedInv
    PROVE  /\ LatestTime \in Nat /\ grant \in Nat /\ grant <= LatestTime
           /\ \A k \in DOMAIN log : log[k].time \in Nat /\ log[k].time <= LatestTime
<1>1. /\ log \in Seq(Commands) /\ grant \in Nat
      /\ \A k, l \in DOMAIN log : k < l => log[k].time <= log[l].time
  BY DEF FedInv, FederateTypeOK, CommandsInOrder
<1>2. /\ Len(log) \in Nat /\ DOMAIN log = 1 .. Len(log)
      /\ \A k \in DOMAIN log : log[k].time \in Nat
  <2>1. \A k \in DOMAIN log : log[k] \in Commands
    BY <1>1
  <2> QED
    BY <1>1, <2>1 DEF Commands
<1>3. \A k \in DOMAIN log : Len(log) \in DOMAIN log /\ log[k].time <= log[Len(log)].time
  BY <1>1, <1>2
<1>4. log # <<>> => Len(log) \in DOMAIN log
  BY <1>1, <1>2
<1>5. (\E k \in DOMAIN log : TRUE) => log # <<>>
  BY <1>1, <1>2
<1> QED
  BY <1>1, <1>2, <1>3, <1>4, <1>5 DEF LatestTime

(* A step that only gives or takes a grant. *)
LEMMA GrantInv ==
    ASSUME FedInv, UNCHANGED <<managerVars, clock, fes, log, current, nodeVars>>,
           todo = <<>>, grant' \in Nat, grant <= grant', running' \in BOOLEAN,
           running' \/ pending = <<>>
    PROVE  FedInv'
<1>1. Handled' = Handled
  BY DEF Handled
<1>2. /\ mode' = mode /\ todo' = todo /\ nodes' = nodes /\ externalId' = externalId
      /\ pending' = pending /\ place' = place /\ conf' = conf /\ Mapped' = Mapped
      /\ Alive' = Alive
  BY DEF managerVars, vars, nodeVars, Mapped, Alive
<1>3. IInv'
  BY NextIInv DEF FedInv, managerVars
<1>4. FederateTypeOK' /\ NoError'
  BY <1>2 DEF FedInv, FederateTypeOK, NoError
<1>5. EventsInOrder'
  <2>1. clock \in Nat /\ grant \in Nat /\ clock <= grant
    BY DEF FedInv, FederateTypeOK, EventsInOrder
  <2> QED
    BY <1>2, <2>1 DEF FedInv, EventsInOrder
<1>6. CommandsInOrder'
  BY <1>1 DEF FedInv, CommandsInOrder
<1>7. CommandsSensible' /\ CommandUnderway' /\ NodesAdded'
  BY <1>1, <1>2, SameLog DEF FedInv, CommandsSensible, CommandUnderway, NodesAdded
<1>8. NodesAsOrdered'
  <2>1. \A id \in Ids : Effective(id)' = Effective(id)
    BY <1>1, <1>2 DEF Effective
  <2> QED
    BY <1>2, <2>1, SameNode DEF FedInv, NodesAsOrdered
<1>9. MessagesQueued'
  BY <1>1, <1>2, SameMessages
<1>10. RemovalsNow'
  BY <1>1, <1>2, SameLog DEF FedInv, RemovalsNow
<1> QED
  BY <1>3, <1>4, <1>5, <1>6, <1>7, <1>8, <1>9, <1>10 DEF FedInv

LEMMA AdvanceInv == FedInv /\ Advance => FedInv'
<1> SUFFICES ASSUME FedInv, Advance PROVE FedInv'
  OBVIOUS
<1>1. MaxTime \in Nat
  BY FederateAssumption
<1>2. grant' \in Nat /\ grant <= grant'
  BY <1>1, Latest DEF Advance
<1> QED
  BY <1>2, GrantInv DEF Advance, Idle

(* A grant is not given back while a message is under way: it is of the    *)
(* present time, so it is under the grant.                                 *)
LEMMA EndTimeAdvanceInv == FedInv /\ EndTimeAdvance => FedInv'
<1> SUFFICES ASSUME FedInv, EndTimeAdvance PROVE FedInv'
  OBVIOUS
<1>1. /\ InOrder(fes, clock, log) /\ clock \in Nat /\ grant \in Nat /\ clock <= grant
  BY DEF FedInv, EventsInOrder, FederateTypeOK
<1>2. pending = <<>>
  <2> SUFFICES ASSUME pending # <<>> PROVE FALSE
    OBVIOUS
  <2>1. PICK p \in DOMAIN fes : fes[p].time = clock
    BY PendingNow
  <2>2. fes # <<>>
    BY <1>1, <2>1 DEF InOrder
  <2>3. Head(fes) \in FesEvent /\ Head(fes).time <= clock
    BY <1>1, <2>1, <2>2, TailOrder
  <2>4. Head(fes).time > grant /\ Head(fes).time \in Nat
    BY <2>2, <2>3 DEF EndTimeAdvance, FesEvent
  <2> QED
    BY <1>1, <2>3, <2>4
<1>3. /\ UNCHANGED <<managerVars, clock, fes, log, current, nodeVars>>
      /\ todo = <<>> /\ grant' = grant /\ running' = FALSE
  BY DEF EndTimeAdvance, Idle
<1>4. grant' \in Nat /\ grant <= grant'
  BY <1>1, <1>3
<1>5. running' \in BOOLEAN
  BY <1>3
<1> QED
  BY <1>2, <1>3, <1>4, <1>5, GrantInv

LEMMA ShutDownInv == FedInv /\ ShutDown => FedInv'
<1> SUFFICES ASSUME FedInv, ShutDown PROVE FedInv'
  OBVIOUS
<1>1. /\ InOrder(fes, clock, log) /\ clock \in Nat /\ grant \in Nat /\ clock <= grant
      /\ log \in Seq(Commands)
  BY DEF FedInv, EventsInOrder, FederateTypeOK
<1>2. PICK e : e = Event(grant, "FINISH", 0)
  OBVIOUS
<1>3. e \in FesEvent /\ e.kind = "FINISH" /\ e.time = grant
  BY <1>1, <1>2 DEF FesEvent, Event, EventKinds
<1>4. /\ fes' \in Insert(fes, e) /\ running' = TRUE /\ todo = <<>> /\ mode = "up"
      /\ UNCHANGED <<managerVars, clock, grant, log, current, nodeVars>>
  BY <1>2 DEF ShutDown, Idle
<1>5. fes \in Seq(FesEvent)
  BY <1>1 DEF InOrder
<1>6. InOrder(fes', clock, log) /\ CommandsOf(fes') = CommandsOf(fes)
  BY <1>1, <1>3, <1>4, InsertOrder
<1>7. Handled' = Handled
  <2>1. Handled = DOMAIN log \ CommandsOf(fes)
    BY <1>1, <1>5, HandledIs
  <2>2. fes' \in Seq(FesEvent)
    BY <1>6 DEF InOrder
  <2>3. Handled' = DOMAIN log \ CommandsOf(fes')
    BY <1>1, <1>4, <2>2 DEF Handled, CommandsOf
  <2> QED
    BY <1>6, <2>1, <2>3
<1>8. /\ mode' = mode /\ todo' = todo /\ nodes' = nodes /\ externalId' = externalId
      /\ pending' = pending /\ place' = place /\ conf' = conf /\ Mapped' = Mapped
      /\ Alive' = Alive
  BY <1>4 DEF managerVars, vars, nodeVars, Mapped, Alive
<1>9. IInv'
  BY <1>4, NextIInv DEF FedInv, managerVars
<1>10. FederateTypeOK' /\ NoError'
  <2>1. fes' \in Seq([time : Nat, kind : EventKinds, of : Nat])
    BY <1>6 DEF InOrder, FesEvent
  <2> QED
    BY <1>4, <1>8, <2>1 DEF FedInv, FederateTypeOK, NoError
<1>11. EventsInOrder'
  BY <1>1, <1>4, <1>6 DEF EventsInOrder
<1>12. CommandsInOrder'
  BY <1>4, <1>7 DEF FedInv, CommandsInOrder
<1>13. CommandsSensible' /\ CommandUnderway' /\ NodesAdded' /\ NodesAsOrdered'
  BY <1>4, <1>7, <1>8, SameScenario
<1>14. MessagesQueued'
  <2>1. ASSUME NEW q \in Seq(Nat), Follows(fes, q) PROVE Follows(fes', q)
    BY <1>3, <1>4, <1>5, <2>1, InsertOther
  <2> QED
    BY <1>4, <1>7, <1>8, <2>1, SameMessages
<1>15. RemovalsNow'
  BY <1>4, <1>7, <1>8, SameLog DEF FedInv, RemovalsNow
<1> QED
  BY <1>9, <1>10, <1>11, <1>12, <1>13, <1>14, <1>15 DEF FedInv


(* A command is issued.  It makes sense after all before it, its event is  *)
(* behind theirs, and until it is handled it has no effect.                *)
LEMMA IssueInv == FedInv /\ Issue => FedInv'
<1> SUFFICES ASSUME FedInv, Issue PROVE FedInv'
  OBVIOUS
<1>1. PICK operation, t, ids, origin :
         /\ operation \in Operations \cup {"CONF_RADIO", "MSG_SEND"}
         /\ t \in LatestTime .. MaxTime
         /\ ids \in Lists(operation)
         /\ origin \in SUBSET IF operation \in Additions THEN Range(ids) ELSE {}
         /\ log' = Append(log, Command(operation, ids, origin, t))
         /\ fes' \in Insert(fes, Event(CommandTime(t), "COMMAND", Len(log')))
  BY DEF Issue
<1>2. /\ todo = <<>> /\ mode = "up" /\ running = FALSE
      /\ UNCHANGED <<managerVars, timeVars, current, nodeVars>>
  BY DEF Issue, Idle, FedInv, FederateTypeOK
<1>3. /\ mode' = mode /\ todo' = todo /\ nodes' = nodes /\ externalId' = externalId
      /\ pending' = pending /\ place' = place /\ conf' = conf /\ Mapped' = Mapped
      /\ Alive' = Alive /\ clock' = clock /\ grant' = grant /\ running' = running
      /\ current' = current
  BY <1>2 DEF managerVars, vars, timeVars, nodeVars, Mapped, Alive
<1>4. /\ log \in Seq(Commands) /\ Len(log) \in Nat /\ DOMAIN log = 1 .. Len(log)
      /\ InOrder(fes, clock, log) /\ clock \in Nat /\ grant \in Nat /\ clock <= grant
      /\ fes \in Seq(FesEvent)
  BY DEF FedInv, EventsInOrder, FederateTypeOK, InOrder
<1>5. MaxTime \in Nat /\ t \in Nat /\ LatestTime <= t /\ LatestTime \in Nat
  BY <1>1, FederateAssumption, Latest
<1>6. grant <= t /\ clock <= t /\ \A k \in DOMAIN log : log[k].time <= t
  <2>1. /\ grant <= LatestTime
        /\ \A k \in DOMAIN log : log[k].time \in Nat /\ log[k].time <= LatestTime
    BY Latest
  <2> QED
    BY <1>4, <1>5, <2>1
<1>7. AddedSoFar \in Nat
  <2>1. Len(log) # 0 => log[Len(log)] \in Commands
    BY <1>4
  <2> QED
    BY <2>1 DEF AddedSoFar, AddedBy, Commands
<1>8. /\ ids \in Seq(Ids) /\ Len(ids) \in Nat
      /\ operation \notin Operations => Len(ids) = 1
      /\ \A i \in DOMAIN ids : ids[i] \in Eligible(operation)
      /\ \A i, j \in DOMAIN ids : ids[i] = ids[j] => i = j
  <2>1. Eligible(operation) \subseteq Ids
    BY DEF Eligible, Present
  <2>2. CASE \E id \in Eligible(operation) : ids = <<id>>
    BY <2>1, <2>2
  <2>3. CASE /\ ids \in Eligible(operation) \X Eligible(operation)
             /\ operation \in Operations /\ ids[1] < ids[2]
    <3>1. PICK a \in Eligible(operation), b \in Eligible(operation) :
             a < b /\ ids = <<a, b>>
      BY <2>3
    <3>2. a \in Ids /\ b \in Ids /\ a # b
      BY <2>1, <3>1 DEF Ids
    <3>3. ids \in Seq(Ids) /\ Len(ids) = 2 /\ ids[1] = a /\ ids[2] = b
      BY <3>1, <3>2
    <3>4. DOMAIN ids = {1, 2}
      BY <3>3
    <3> QED
      BY <2>3, <3>2, <3>3, <3>4
  <2> QED
    BY <1>1, <2>2, <2>3 DEF Lists
<1>9. PICK c : c = Command(operation, ids, origin, t)
  OBVIOUS
<1>10. /\ c \in Commands /\ c.operation = operation /\ c.ids = ids /\ c.time = t
       /\ c.added = AddedSoFar + (IF operation \in Additions THEN Len(ids) ELSE 0)
  <2>1. AddedSoFar + (IF operation \in Additions THEN Len(ids) ELSE 0) \in Nat
    BY <1>7, <1>8
  <2>2. Range(ids) \subseteq Ids
    BY <1>8 DEF Range
  <2>3. origin \in SUBSET Ids
    BY <1>1, <2>2
  <2> QED
    BY <1>1, <1>5, <1>8, <1>9, <2>1, <2>3 DEF Command, Commands
<1>n. PICK N : N = Len(log) + 1
  OBVIOUS
<1>11. /\ log' \in Seq(Commands) /\ Len(log') = N
       /\ DOMAIN log' = DOMAIN log \cup {N} /\ N \notin DOMAIN log /\ N \in Nat
       /\ \A k \in DOMAIN log : log'[k] = log[k] /\ k < N
       /\ log'[N] = c
       /\ \A k \in DOMAIN log : \A id : Names(k, id)' <=> Names(k, id)
       /\ \A ks \in SUBSET DOMAIN log : \A k, id, ops :
             IsLast(k, ks, id, ops)' <=> IsLast(k, ks, id, ops)
       /\ \A ks \in SUBSET DOMAIN log : Present(ks)' = Present(ks)
       /\ \A n \in 0 .. Len(log) : AddedBy(n)' = AddedBy(n)
       /\ \A ks \in SUBSET DOMAIN log : \A at, id :
             Placed(at, ks, id)' <=> Placed(at', ks, id)
  <2>1. log' = Append(log, c)
    BY <1>1, <1>9
  <2> QED
    BY <1>n, <1>4, <1>10, <2>1, LongerLog
<1>12. \A k \in CommandsOf(fes) : k \in DOMAIN log
  BY <1>4 DEF InOrder, CommandsOf
<1>13. InOrder(fes, clock, log')
  BY <1>4, <1>11 DEF InOrder
<1>14. PICK e : e = Event(t, "COMMAND", N)
  OBVIOUS
<1>15. e \in FesEvent /\ e.kind = "COMMAND" /\ e.time = t /\ e.of = N
  BY <1>5, <1>11, <1>14 DEF Event, FesEvent, EventKinds
<1>16. fes' \in Insert(fes, e)
  BY <1>1, <1>11, <1>14 DEF CommandTime
<1>17. InOrder(fes', clock, log') /\ CommandsOf(fes') = CommandsOf(fes) \cup {N}
  <2>1. \A k \in CommandsOf(fes) : k < N /\ log'[k].time <= t
    BY <1>6, <1>11, <1>12
  <2>2. N \in DOMAIN log' /\ log'[N].time = t
    BY <1>10, <1>11
  <2> QED
    BY <1>4, <1>6, <1>13, <1>15, <1>16, <2>1, <2>2, InsertOrder
<1>18. Handled' = Handled
  <2>1. Handled = DOMAIN log \ CommandsOf(fes)
    BY <1>4, HandledIs
  <2>2. fes' \in Seq(FesEvent)
    BY <1>17 DEF InOrder
  <2>3. Handled' = DOMAIN log' \ CommandsOf(fes')
    BY <1>11, <2>2 DEF Handled, CommandsOf
  <2> QED
    BY <1>11, <1>12, <1>17, <2>1, <2>3
<1>19. PICK n \in 0 .. Len(log) : Handled = 1 .. n
  BY DEF FedInv, CommandsInOrder
<1>20. /\ Handled \subseteq DOMAIN log /\ n \in 0 .. Len(log') /\ n \in Nat
       /\ \A m \in 0 .. Len(log') : Handled = 1 .. m => m = n
  <2>1. Handled \subseteq DOMAIN log /\ n \in Nat /\ n \in 0 .. Len(log')
    BY <1>n, <1>4, <1>11, <1>19
  <2>2. ASSUME NEW m \in 0 .. Len(log'), Handled = 1 .. m PROVE m = n
    <3>1. m \in Nat
      BY <1>11
    <3> QED
      BY <1>19, <2>1, <2>2, <3>1, Intervals
  <2> QED
    BY <2>1, <2>2
<1>21. IInv' /\ NoError'
  BY <1>2, <1>3, NextIInv DEF FedInv, managerVars, NoError
<1>22. FederateTypeOK'
  <2>1. fes' \in Seq([time : Nat, kind : EventKinds, of : Nat])
    BY <1>17 DEF InOrder, FesEvent
  <2>2. current' \in 0 .. Len(log')
    BY <1>n, <1>3, <1>4, <1>11 DEF FedInv, FederateTypeOK
  <2>3. clock' \in Nat /\ grant' \in Nat /\ running' \in BOOLEAN
    BY <1>3, <1>4 DEF FedInv, FederateTypeOK
  <2> QED
    BY <1>3, <1>11, <2>1, <2>2, <2>3 DEF FedInv, FederateTypeOK
<1>23. EventsInOrder'
  BY <1>3, <1>4, <1>17 DEF FedInv, EventsInOrder
<1>24. CommandsInOrder'
  <2>1. ASSUME NEW k \in DOMAIN log', NEW l \in DOMAIN log', k < l
        PROVE  log'[k].time <= log'[l].time
    <3>1. CASE l = N
      <4>1. k \in DOMAIN log
        BY <1>11, <2>1, <3>1
      <4> QED
        BY <1>6, <1>10, <1>11, <3>1, <4>1
    <3>2. CASE l \in DOMAIN log
      <4>1. k \in DOMAIN log
        BY <1>4, <1>11, <2>1, <3>2
      <4> QED
        BY <1>11, <2>1, <3>2, <4>1 DEF FedInv, CommandsInOrder
    <3> QED
      BY <1>11, <3>1, <3>2
  <2> QED
    BY <1>18, <1>19, <1>20, <2>1 DEF CommandsInOrder
<1>25. CommandsSensible'
  <2>1. ASSUME NEW k \in DOMAIN log
        PROVE  /\ AddedBy(k - 1)' = AddedBy(k - 1) /\ log'[k] = log[k]
               /\ Present(1 .. (k - 1))' = Present(1 .. (k - 1))
    <3>1. k - 1 \in 0 .. Len(log) /\ 1 .. (k - 1) \subseteq DOMAIN log
      BY <1>4
    <3> QED
      BY <1>11, <3>1
  <2>2. AddedBy(N - 1)' = AddedSoFar /\ Present(1 .. (N - 1))' = Present(DOMAIN log)
    <3>1. N - 1 = Len(log) /\ 1 .. (N - 1) = DOMAIN log /\ Len(log) \in 0 .. Len(log)
      BY <1>n, <1>4
    <3>2. DOMAIN log \in SUBSET DOMAIN log
      OBVIOUS
    <3> QED
      BY <1>11, <3>1, <3>2 DEF AddedSoFar
  <2>3. /\ operation \in Additions => \A i \in DOMAIN ids :
              ids[i] \notin Present(DOMAIN log) /\ ids[i] <= AddedSoFar
        /\ operation \in {"MOVE_NODES", "REMOVE_NODES"} =>
              \A i \in DOMAIN ids : ids[i] \in Present(DOMAIN log)
    BY <1>8 DEF Eligible, Additions
  <2> DEFINE Sensible(x, added, present) ==
                /\ x.added = added + (IF x.operation \in Additions THEN Len(x.ids) ELSE 0)
                /\ \A i, j \in DOMAIN x.ids : x.ids[i] = x.ids[j] => i = j
                /\ x.operation \notin Operations => Len(x.ids) = 1
                /\ x.operation \in Additions => \A i \in DOMAIN x.ids :
                      x.ids[i] \notin present /\ x.ids[i] <= added
                /\ x.operation \in {"MOVE_NODES", "REMOVE_NODES"} =>
                      \A i \in DOMAIN x.ids : x.ids[i] \in present
  <2>4. Sensible(c, AddedSoFar, Present(DOMAIN log))
    BY <1>8, <1>10, <2>3
  <2>5. \A k \in DOMAIN log : Sensible(log[k], AddedBy(k - 1), Present(1 .. (k - 1)))
    BY DEF FedInv, CommandsSensible
  <2>6. CommandsSensible' <=>
        \A k \in DOMAIN log' :
           Sensible(log'[k], AddedBy(k - 1)', Present(1 .. (k - 1))')
    BY DEF CommandsSensible
  <2> HIDE DEF Sensible
  <2>7. \A k \in DOMAIN log' : Sensible(log'[k], AddedBy(k - 1)', Present(1 .. (k - 1))')
    BY <1>11, <2>1, <2>2, <2>4, <2>5
  <2> QED
    BY <2>6, <2>7
<1>26. CommandUnderway'
  BY <1>2, <1>3 DEF CommandUnderway
<1>27. NodesAdded'
  <2>1. \A m \in 0 .. Len(log') : Handled = 1 .. m => AddedBy(m)' = Len(externalId)
    BY <1>2, <1>11, <1>19, <1>20 DEF FedInv, NodesAdded
  <2> QED
    BY <1>2, <1>3, <1>18, <2>1 DEF NodesAdded
<1>28. NodesAsOrdered'
  <2>1. ASSUME NEW id \in Ids PROVE AsOrdered(id)'
    <3>1. Effective(id) = Handled /\ Effective(id)' = Handled
      BY <1>2, <1>3, <1>18 DEF Effective
    <3>2. AsOrdered(id)
      BY <1>2 DEF FedInv, NodesAsOrdered
    <3>3. /\ Present(Handled)' = Present(Handled)
          /\ \A at : Placed(at, Handled, id)' <=> Placed(at', Handled, id)
      BY <1>11, <1>18, <1>20
    <3> QED
      BY <1>3, <1>18, <3>1, <3>2, <3>3 DEF AsOrdered
  <2> QED
    BY <2>1 DEF NodesAsOrdered
<1>29. MessagesQueued'
  <2>1. PICK q \in [DOMAIN pending -> 0 .. Len(log)] :
         Follows(fes, q) /\ Sources(q) /\ InOrderOfIssue(q)
    BY DEF FedInv, MessagesQueued
  <2>2. Follows(fes', q)
    BY <1>4, <1>15, <1>16, <2>1, Numbers, InsertOther
  <2>3. Sources(q)'
    BY <1>3, <1>11, <1>18, <1>20, <2>1 DEF Sources
  <2>4. ASSUME NEW k \in 0 .. Len(log), NEW m, NEW j
        PROVE  Configured(q, m, k, j)' <=> Configured(q, m, k, j)
    <3>1. 1 .. k \subseteq DOMAIN log
      BY <1>4
    <3>2. \A l, ops : IsLast(l, 1 .. k, externalId[m], ops)'
                         <=> IsLast(l, 1 .. k, externalId[m], ops)
      BY <1>3, <1>11, <3>1
    <3> QED
      BY <1>3, <1>11, <3>1, <3>2 DEF Configured
  <2>5. ASSUME NEW i \in DOMAIN pending, pending[i].to \in Alive
        PROVE  q[i] - 1 \in 0 .. Len(log)
    <3>1. pending[i].to # Manager
      BY <2>5, Modules DEF FedInv
    <3>2. q[i] \in Handled
      BY <2>1, <3>1 DEF Sources
    <3> QED
      BY <1>4, <1>20, <3>2
  <2>6. InOrderOfIssue(q)'
    BY <1>3, <1>18, <1>19, <1>20, <2>1, <2>4, <2>5 DEF InOrderOfIssue
  <2>7. q \in [DOMAIN pending' -> 0 .. Len(log')]
    BY <1>n, <1>3, <1>4, <1>11, <2>1
  <2> QED
    BY <1>3, <1>18, <2>2, <2>3, <2>6, <2>7 DEF FedInv, MessagesQueued
<1>30. RemovalsNow'
  BY <1>3, <1>11, <1>18, <1>20 DEF FedInv, RemovalsNow
<1> QED
  BY <1>21, <1>22, <1>23, <1>24, <1>25, <1>26, <1>27, <1>28, <1>29, <1>30 DEF FedInv


LEMMA StutteringInv == FedInv /\ UNCHANGED allVars => FedInv'
<1> SUFFICES ASSUME FedInv, UNCHANGED allVars PROVE FedInv'
  OBVIOUS
<1>1. /\ UNCHANGED <<managerVars, fes, log, current, place, conf, clock, grant, running>>
      /\ UNCHANGED <<mode, todo, nodes, externalId, pending>>
      /\ Mapped' = Mapped /\ Alive' = Alive
  BY DEF allVars, managerVars, vars, timeVars, nodeVars, Mapped, Alive
<1>2. Handled' = Handled
  BY <1>1 DEF Handled
<1>3. IInv' /\ NoError'
  BY <1>1, NextIInv DEF FedInv, managerVars, NoError
<1>4. FederateTypeOK'
  BY <1>1 DEF FedInv, FederateTypeOK
<1>5. EventsInOrder' /\ CommandsInOrder'
  BY <1>1, <1>2 DEF FedInv, EventsInOrder, CommandsInOrder
<1>6. CommandsSensible' /\ CommandUnderway' /\ NodesAdded'
  BY <1>1, <1>2, SameLog DEF FedInv, CommandsSensible, CommandUnderway, NodesAdded
<1>7. NodesAsOrdered'
  <2>1. \A id \in Ids : Effective(id)' = Effective(id)
    BY <1>1, <1>2 DEF Effective
  <2> QED
    BY <1>1, <2>1, SameNode DEF FedInv, NodesAsOrdered
<1>8. MessagesQueued'
  BY <1>1, <1>2, SameMessages
<1>9. RemovalsNow'
  BY <1>1, <1>2, SameLog DEF FedInv, RemovalsNow
<1> QED
  BY <1>3, <1>4, <1>5, <1>6, <1>7, <1>8, <1>9 DEF FedInv

LEMMA NextFedInv == FedInv /\ [FederateNext]_allVars => FedInv'
  BY IssueInv, AdvanceInv, EndTimeAdvanceInv, ShutDownInv, HandleMobilityInv, AddInv,
     MoveInv, RemoveOneInv, PassOnInv, HandleFinishInv, DropMessageInv, HandleAtAppInv,
     ReceiveInv, ReportReceptionInv, StutteringInv
  DEF FederateNext

-----------------------------------------------------------------------------
(* The theorems *)

(* The kernel's events, the ambassador's commands, the manager's tables    *)
(* and the modules of the nodes keep to one another in every execution.    *)
THEOREM FederateInvariance == FederateSpec => []FedInv
  BY InitFedInv, NextFedInv, PTL DEF FederateSpec

(* No order in which the kernel hands out the commands of a sensible       *)
(* ambassador, of one time or of several, makes MosaicScenarioManager call *)
(* error(): additions and removals are handled as they were issued.        *)
THEOREM NoErrors == FederateSpec => []NoError
<1>1. FedInv => NoError
  BY DEF FedInv
<1> QED
  BY <1>1, FederateInvariance, PTL

(* addNode, moveNode and removeNode leave the nodes, and their places, as  *)
(* the commands handled so far order it, whether or not Coord::NIL is the  *)
(* origin.                                                                 *)
THEOREM Scenario == FederateSpec => []ScenarioAsOrdered
<1>1. FedInv => ScenarioAsOrdered
  <2> SUFFICES ASSUME FedInv, mode = "up", todo = <<>>
               PROVE  /\ Mapped = Present(Handled)
                      /\ \A id \in Mapped :
                            Placed(place[nodes[id].module], Handled, id)
    BY DEF ScenarioAsOrdered
  <2>1. Mapped \subseteq Ids /\ Present(Handled) \subseteq Ids
    BY DEF FedInv, IInv, TypeOK, Present
  <2>2. \A id \in Ids : Effective(id) = Handled
    BY DEF Effective
  <2>3. \A id \in Ids : AsOrdered(id)
    BY DEF FedInv, NodesAsOrdered
  <2> QED
    BY <2>1, <2>2, <2>3 DEF AsOrdered
<1> QED
  BY <1>1, FederateInvariance, PTL

(* The message of a packet finds its MosaicProxyApp with the configuration *)
(* that was ordered for the node before the packet, and with no other.     *)
THEOREM Configuration == FederateSpec => []ConfiguredAsOrdered
<1>1. FedInv => ConfiguredAsOrdered
  <2> DEFINE to == Head(pending).to
             relevant == Additions \cup {"CONF_RADIO"}
  <2> SUFFICES ASSUME FedInv, fes # <<>>, pending # <<>>, Head(fes).kind = "MESSAGE",
                      Head(pending).packet # NoPacket, to \in Alive
               PROVE  \E k \in 1 .. (Head(fes).of - 1) :
                         /\ IsLast(k, 1 .. (Head(fes).of - 1), externalId[to], relevant)
                         /\ conf[to] = IF log[k].operation = "CONF_RADIO" THEN k ELSE None
    BY DEF ConfiguredAsOrdered
  <2>1. PICK q \in [DOMAIN pending -> 0 .. Len(log)] :
         Follows(fes, q) /\ Sources(q) /\ InOrderOfIssue(q)
    BY DEF FedInv, MessagesQueued
  <2>2. fes \in Seq(FesEvent) /\ q \in Seq(Nat) /\ pending \in Seq(Pending)
    BY <2>1, Numbers DEF FedInv, EventsInOrder, InOrder
  <2>3. q[1] = Head(fes).of
    BY <2>1, <2>2, TailMessage
  <2>4. 1 \in DOMAIN pending /\ pending[1] = Head(pending)
    BY <2>2
  <2>5. Configured(q, to, q[1] - 1, 1)
    BY <2>1, <2>4 DEF InOrderOfIssue
  <2>6. 1 .. (1 - 1) = {}
    OBVIOUS
  <2>7. PICK k \in 1 .. (q[1] - 1) :
           /\ IsLast(k, 1 .. (q[1] - 1), externalId[to], relevant)
           /\ IF log[k].operation = "CONF_RADIO" THEN conf[to] = k ELSE conf[to] = None
    BY <2>5, <2>6 DEF Configured
  <2> QED
    BY <2>3, <2>7
<1> QED
  BY <1>1, FederateInvariance, PTL

(* send() between manager and apps makes one event per message, and the    *)
(* kernel gets to it before it moves on in time.                           *)
THEOREM AtOnce == FederateSpec => []DeliveredAtOnce
<1>1. FedInv => DeliveredAtOnce
  <2> SUFFICES ASSUME FedInv PROVE DeliveredAtOnce
    OBVIOUS
  <2> DEFINE messages == {i \in DOMAIN fes : fes[i].kind = "MESSAGE"}
  <2>1. PICK q \in [DOMAIN pending -> 0 .. Len(log)] : Follows(fes, q)
    BY DEF FedInv, MessagesQueued
  <2>2. DOMAIN q = 1 .. Len(pending) /\ Len(pending) \in Nat
    BY <2>1, Numbers
  <2>3. PICK g \in [DOMAIN q -> DOMAIN fes] :
         /\ \A i, j \in DOMAIN q : i < j => g[i] < g[j]
         /\ \A p \in DOMAIN fes : fes[p].kind = "MESSAGE" <=> \E i \in DOMAIN q : g[i] = p
    BY <2>1 DEF Follows
  <2>4. fes \in Seq(FesEvent) /\ DOMAIN fes \subseteq Nat
    BY DEF FedInv, EventsInOrder, InOrder
  <2>5. Cardinality(messages) = Len(pending)
    <3>1. g \in [1 .. Len(pending) -> messages]
      BY <2>2, <2>3
    <3>2. \A i, j \in 1 .. Len(pending) : g[i] = g[j] => i = j
      <4> SUFFICES ASSUME NEW i \in 1 .. Len(pending), NEW j \in 1 .. Len(pending), i < j
                   PROVE  g[i] # g[j]
        BY <2>2
      <4>1. g[i] \in Nat /\ g[j] \in Nat /\ g[i] < g[j]
        BY <2>2, <2>3, <2>4
      <4> QED
        BY <4>1
    <3>3. \A p \in messages : \E i \in 1 .. Len(pending) : g[i] = p
      BY <2>2, <2>3
    <3> HIDE DEF messages
    <3>4. ExistsBijection(1 .. Len(pending), messages)
      BY <3>1, <3>2, <3>3
      DEF ExistsBijection, Bijection, Injection, Surjection, IsInjective
    <3> QED
      BY <2>2, <3>4, FS_CountingElements
  <2>6. \A e \in Range(fes) : e.kind = "MESSAGE" => e.time = clock
    BY <2>4 DEF FedInv, EventsInOrder, InOrder, Range
  <2> QED
    BY <2>5, <2>6 DEF DeliveredAtOnce, FedInv, EventsInOrder
<1> QED
  BY <1>1, FederateInvariance, PTL

(* takeNextEvent drops a message, and the manager reports a reception, of  *)
(* a module that is gone only at the time at which a command removed it.   *)
THEOREM Timeliness == FederateSpec => []TimelyMessages
<1>1. FedInv => TimelyMessages
  <2> DEFINE m == AppOf(Head(pending))
  <2> SUFFICES ASSUME FedInv, mode = "up", fes # <<>>, pending # <<>>,
                      Head(fes).kind = "MESSAGE", m \notin Alive
               PROVE  \E k \in Handled :
                         /\ log[k].operation = "REMOVE_NODES"
                         /\ Names(k, externalId[m])
                         /\ log[k].time = Head(fes).time
    BY DEF TimelyMessages, AppOf
  <2>1. 1 \in DOMAIN pending /\ pending[1] = Head(pending)
    BY DEF FedInv, IInv, TypeOK
  <2>2. PICK k \in Handled :
           /\ log[k].operation = "REMOVE_NODES"
           /\ Names(k, externalId[m])
           /\ log[k].time = clock
    BY <2>1 DEF FedInv, RemovalsNow
  <2>3. fes \in Seq(FesEvent) /\ 1 \in DOMAIN fes /\ Head(fes) = fes[1]
    BY TailEvents DEF FedInv, EventsInOrder, InOrder
  <2>4. Head(fes).time = clock
    BY <2>3 DEF FedInv, EventsInOrder, InOrder
  <2> QED
    BY <2>2, <2>4
<1> QED
  BY <1>1, FederateInvariance, PTL

(* Every step of the federate is one of TimeAdvance, or stutters there.    *)
LEMMA FederateRefines == FedInv /\ [FederateNext]_allVars => [TA!Next]_TA!vars
<1> SUFFICES ASSUME FedInv, [FederateNext]_allVars PROVE [TA!Next]_TA!vars
  OBVIOUS
<1>1. clock \in Nat /\ grant \in Nat /\ clock <= grant /\ InOrder(fes, clock, log)
  BY DEF FedInv, EventsInOrder, FederateTypeOK
<1>2. ASSUME NEW kind, Take(kind) PROVE TA!Run
  <2>1. Head(fes) \in FesEvent /\ clock <= Head(fes).time
    BY <1>1, <1>2, TailOrder DEF Take
  <2> QED
    BY <1>2, <2>1 DEF Take, TA!Run, FesEvent
<1>3. CASE Advance
  <2>1. grant' \in Nat /\ grant <= grant'
    BY <1>3, Latest, FederateAssumption DEF Advance
  <2> QED
    BY <1>1, <1>3, <2>1 DEF Advance, TA!Next, TA!Grant
<1>4. CASE ShutDown
  BY <1>1, <1>4 DEF ShutDown, TA!Next, TA!Grant
<1>5. CASE EndTimeAdvance
  BY <1>5 DEF EndTimeAdvance, TA!Next, TA!Yield
<1>6. CASE Issue \/ Add \/ Move \/ RemoveOne \/ UNCHANGED allVars
  BY <1>6 DEF Issue, Add, Move, RemoveOne, allVars, timeVars, TA!vars
<1>7. CASE HandleMobility \/ PassOn
  BY <1>2, <1>7 DEF HandleMobility, PassOn, TakeCommand, TA!Next
<1>8. CASE HandleFinish \/ DropMessage \/ HandleAtApp \/ Receive \/ ReportReception
  BY <1>2, <1>8 DEF HandleFinish, DropMessage, HandleAtApp, Receive, ReportReception,
                    TA!Next
<1> QED
  BY <1>3, <1>4, <1>5, <1>6, <1>7, <1>8 DEF FederateNext

(* The federate as a whole, ambassador, kernel, manager and apps, keeps    *)
(* its promise to the federation: simulation time never runs back and      *)
(* never beyond the grant.                                                 *)
THEOREM FederateImplementation == FederateSpec => FederateImplementsTimeAdvance
<1>1. FederateInit => TA!Init
  BY FederateAssumption DEF FederateInit, TA!Init
<1> QED
  BY <1>1, FederateRefines, FederateInvariance, PTL
  DEF FederateSpec, FederateImplementsTimeAdvance, TA!Spec

=============================================================================
