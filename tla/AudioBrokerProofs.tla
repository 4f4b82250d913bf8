------------------------ MODULE AudioBrokerProofs ------------------------
(***************************************************************************)
(* The socket path, the brokers and their clients, for every set of users  *)
(* and of broker processes and any number of starts.                       *)
(***************************************************************************)
EXTENDS AudioBroker, SequenceTheorems, TLAPS

\* A broker process runs: between its start and its end.
Up(b) == pc[b] # "down"

(***************************************************************************)
(* The starts.  A start is numbered once, whatever is numbered is a start  *)
(* that happened, and the lock is with the one process that runs and is    *)
(* not being killed.                                                       *)
(***************************************************************************)
StartsAreUnique ==
    \A b, c \in Brokers : start[b] = start[c] /\ start[b] > 0 => b = c

StartsAreCounted ==
    /\ \A b \in Brokers : start[b] <= starts /\ (Up(b) => start[b] > 0)
    /\ path <= starts
    /\ \A u \in Users : link[u] <= starts /\ buf[u] <= starts

LockIsHeld == \A b \in Brokers : lock = b <=> Up(b) /\ b \notin doomed

(***************************************************************************)
(* The path.  A process about to be killed only cleans up or goes on       *)
(* serving; any other process past bind finds the path leading to itself.  *)
(***************************************************************************)
DoomedOnlyEnd ==
    \A b \in doomed : pc[b] \in Listening \union {"remove", "unlock", "down"}

OwnersPath ==
    \A b \in Brokers \ doomed :
        pc[b] \in Listening \union {"listen"} => path = start[b]

(***************************************************************************)
(* The clients.  Who stands in a queue waits for that start; who holds the *)
(* buffer of a start that still listens is the client of that start, which *)
(* serves it and leaves it only once another user was at the console.      *)
(***************************************************************************)
BacklogWaits ==
    \A b \in Brokers, u \in Users :
        Contains(backlog[b], u) => app[u] = "waiting" /\ link[u] = start[b]

\* The app was given a buffer and has not closed its connection.
Holds(u) == app[u] \in {"greeted", "open"}

HolderIsServed ==
    \A u \in Users, b \in Brokers :
        Holds(u) /\ link[u] = buf[u] /\ start[b] = buf[u]
        => pc[b] \in {"serve", "leave"} /\ client[b] = u

ClientStayed ==
    \A b \in Brokers :
        client[b] # Nobody /\ ~left[client[b]] => console = client[b]

LeavesForCause ==
    \A b \in Brokers :
        pc[b] = "leave" /\ Holds(client[b]) /\ link[client[b]] = start[b]
        => left[client[b]]

IInv == /\ TypeOK /\ StartsAreUnique /\ StartsAreCounted /\ LockIsHeld /\ DoomedOnlyEnd /\ OwnersPath
        /\ BacklogWaits /\ HolderIsServed /\ ClientStayed /\ LeavesForCause

-----------------------------------------------------------------------------
(***************************************************************************)
(* The queues of connections: taking one out, at the front or anywhere,    *)
(* and putting one in, of a queue in which nobody stands twice.            *)
(***************************************************************************)
\* The one who hangs up is taken out, wherever it stands.
LEMMA RemoveFirstRemoves ==
    ASSUME NEW S, NEW q \in Seq(S), IsInjective(q), NEW u
    PROVE  /\ RemoveFirst(q, u) \in Seq(S) /\ IsInjective(RemoveFirst(q, u))
           /\ \A v : Contains(RemoveFirst(q, u), v) <=> Contains(q, v) /\ v # u
           /\ RemoveFirst(q, u) # <<>> => q # <<>>
<1> DEFINE I == {i \in 1..Len(q) : q[i] = u}
<1>1. CASE \A i \in 1..Len(q) : q[i] # u
  BY <1>1 DEF RemoveFirst, Contains
<1>2. CASE \E i \in 1..Len(q) : q[i] = u
  <2>1. PICK i \in 1..Len(q) : q[i] = u
    BY <1>2
  <2>2. I = {i}
    BY <2>1 DEF IsInjective
  <2>3. SelectInSeq(q, LAMBDA v : v = u) = i
    BY <2>1, <2>2 DEF SelectInSeq, Min
  <2> DEFINE p == SubSeq(q, 1, i - 1)
             t == SubSeq(q, i + 1, Len(q))
             r == p \o t
  <2>4. RemoveFirst(q, u) = r
    BY <1>2, <2>3, Zenon DEF RemoveFirst, RemoveAt
  <2>5. /\ p \in Seq(S) /\ Len(p) = i - 1
        /\ \A k \in 1..(i - 1) : p[k] = q[k]
    BY SubSeqProperties
  <2>6. /\ t \in Seq(S) /\ Len(t) = Len(q) - i
        /\ \A k \in 1..(Len(q) - i) : t[k] = q[k + i]
    BY SubSeqProperties
  <2> HIDE DEF p, t
  <2>7. /\ r \in Seq(S) /\ Len(r) = Len(q) - 1
        /\ \A k \in 1..Len(r) : r[k] = IF k < i THEN q[k] ELSE q[k + 1]
    <3>1. /\ r \in Seq(S) /\ Len(r) = (i - 1) + (Len(q) - i)
          /\ \A k \in 1..(i - 1) + (Len(q) - i) :
                r[k] = IF k <= i - 1 THEN p[k] ELSE t[k - (i - 1)]
      <4>1. /\ r \in Seq(S) /\ Len(r) = Len(p) + Len(t)
            /\ \A k \in 1..Len(p) + Len(t) :
                  r[k] = IF k <= Len(p) THEN p[k] ELSE t[k - Len(p)]
        BY <2>5, <2>6, ConcatProperties, Zenon DEF r
      <4> QED BY <4>1, <2>5, <2>6, Zenon
    <3> HIDE DEF r
    <3>2. ASSUME NEW k \in 1..Len(r) PROVE r[k] = IF k < i THEN q[k] ELSE q[k + 1]
      <4>1. CASE k < i
        BY <3>1, <4>1, <2>5
      <4>2. CASE k >= i
        <5>1. r[k] = t[k - (i - 1)] /\ k - (i - 1) \in 1..(Len(q) - i)
          BY <3>1, <4>2
        <5>2. (k - (i - 1)) + i = k + 1
          OBVIOUS
        <5> QED BY <5>1, <5>2, <4>2, <2>6
      <4> QED BY <4>1, <4>2
    <3> QED BY <3>1, <3>2
  <2> HIDE DEF r
  <2>8. IsInjective(r)
    <3> SUFFICES ASSUME NEW j \in 1..Len(r), NEW k \in 1..Len(r), r[j] = r[k]
                 PROVE  j = k
      BY <2>7 DEF IsInjective
    <3> DEFINE At(x) == IF x < i THEN x ELSE x + 1
    <3>1. At(j) \in 1..Len(q) /\ At(k) \in 1..Len(q) /\ q[At(j)] = q[At(k)]
      BY <2>7
    <3>2. At(j) = At(k)
      BY <3>1 DEF IsInjective
    <3> QED BY <3>2
  <2>9. ASSUME NEW v PROVE Contains(r, v) <=> Contains(q, v) /\ v # u
    <3>1. ASSUME NEW k \in 1..Len(r), r[k] = v PROVE Contains(q, v) /\ v # u
      <4> DEFINE j == IF k < i THEN k ELSE k + 1
      <4>1. j \in 1..Len(q) /\ q[j] = v /\ j # i
        BY <3>1, <2>7
      <4> QED BY <4>1, <2>1 DEF IsInjective, Contains
    <3>2. ASSUME NEW k \in 1..Len(q), q[k] = v, v # u PROVE Contains(r, v)
      <4>1. CASE k < i
        BY <3>2, <4>1, <2>7 DEF Contains
      <4>2. CASE k > i
        <5>1. k - 1 \in 1..Len(r) /\ r[k - 1] = v
          BY <3>2, <4>2, <2>7
        <5> QED BY <5>1 DEF Contains
      <4> QED BY <4>1, <4>2, <3>2, <2>1
    <3> QED BY <3>1, <3>2 DEF Contains
  <2>10. q # <<>>
    BY <2>1
  <2> QED BY <2>4, <2>7, <2>8, <2>9, <2>10
<1> QED BY <1>1, <1>2

\* The first is taken out.
LEMMA TailInjective ==
    ASSUME NEW S, NEW q \in Seq(S), q # <<>>, IsInjective(q)
    PROVE  /\ Tail(q) \in Seq(S) /\ IsInjective(Tail(q))
           /\ \A v : Contains(Tail(q), v) <=> Contains(q, v) /\ v # Head(q)
<1> DEFINE t == Tail(q)
<1>1. /\ t \in Seq(S) /\ Len(t) = Len(q) - 1 /\ Len(q) > 0 /\ Head(q) = q[1]
      /\ \A i \in 1..Len(t) : t[i] = q[i + 1]
  BY HeadTailProperties
<1> HIDE DEF t
<1>2. IsInjective(t)
  <2> SUFFICES ASSUME NEW i \in 1..Len(t), NEW j \in 1..Len(t), t[i] = t[j]
               PROVE  i = j
    BY <1>1 DEF IsInjective
  <2>1. i + 1 \in 1..Len(q) /\ j + 1 \in 1..Len(q) /\ q[i + 1] = q[j + 1]
    BY <1>1
  <2>2. i + 1 = j + 1
    BY <2>1 DEF IsInjective
  <2> QED BY <2>2
<1>3. ASSUME NEW v PROVE Contains(t, v) <=> Contains(q, v) /\ v # Head(q)
  <2>1. ASSUME NEW i \in 1..Len(t), t[i] = v PROVE Contains(q, v) /\ v # Head(q)
    <3>1. i + 1 \in 1..Len(q) /\ 1 \in 1..Len(q) /\ q[i + 1] = v /\ i + 1 # 1
      BY <2>1, <1>1
    <3>2. q[i + 1] # q[1]
      BY <3>1 DEF IsInjective
    <3> QED BY <3>1, <3>2, <1>1 DEF Contains
  <2>2. ASSUME NEW i \in 1..Len(q), q[i] = v, v # Head(q) PROVE Contains(t, v)
    <3>1. i - 1 \in 1..Len(t) /\ t[i - 1] = v
      BY <2>2, <1>1
    <3> QED BY <3>1 DEF Contains
  <2> QED BY <2>1, <2>2 DEF Contains
<1> QED BY <1>1, <1>2, <1>3 DEF t

\* One more is put in, at the end.
LEMMA AppendedOnce ==
    ASSUME NEW S, NEW q \in Seq(S), IsInjective(q), NEW u \in S, ~Contains(q, u)
    PROVE  /\ Append(q, u) \in Seq(S) /\ IsInjective(Append(q, u))
           /\ \A v : Contains(Append(q, u), v) <=> Contains(q, v) \/ v = u
<1> DEFINE a == Append(q, u)
<1>1. /\ a \in Seq(S) /\ Len(a) = Len(q) + 1 /\ a[Len(q) + 1] = u
      /\ \A i \in 1..Len(q) : a[i] = q[i]
  BY AppendProperties
<1> HIDE DEF a
<1>2. IsInjective(a)
  BY <1>1 DEF IsInjective, Contains
<1>3. ASSUME NEW v PROVE Contains(a, v) <=> Contains(q, v) \/ v = u
  BY <1>1 DEF Contains
<1> QED BY <1>1, <1>2, <1>3 DEF a

\* A user is taken out of every queue.
LEMMA HungUpBacklog ==
    ASSUME NEW q \in [Brokers -> Seq(Users)], \A b \in Brokers : IsInjective(q[b]),
           NEW u, NEW r, r = [b \in Brokers |-> RemoveFirst(q[b], u)]
    PROVE  /\ r \in [Brokers -> Seq(Users)]
           /\ \A b \in Brokers : IsInjective(r[b])
           /\ \A b \in Brokers : r[b] # <<>> => q[b] # <<>>
           /\ \A b \in Brokers, v \in Users : Contains(r[b], v) <=> Contains(q[b], v) /\ v # u
<1>1. \A b \in Brokers : q[b] \in Seq(Users)
  OBVIOUS
<1>2. ASSUME NEW b \in Brokers
      PROVE  /\ r[b] = RemoveFirst(q[b], u) /\ r[b] \in Seq(Users) /\ IsInjective(r[b])
             /\ r[b] # <<>> => q[b] # <<>>
             /\ \A v : Contains(r[b], v) <=> Contains(q[b], v) /\ v # u
  BY <1>1, RemoveFirstRemoves, Zenon
<1>3. r \in [Brokers -> Seq(Users)]
  BY <1>2
<1> QED BY <1>2, <1>3

-----------------------------------------------------------------------------
(***************************************************************************)
(* The initial state, and the types in parts.                              *)
(***************************************************************************)
LEMMA InitIInv == Init => IInv
<1> SUFFICES ASSUME Init PROVE IInv
  OBVIOUS
<1> USE BrokerAssumption DEF Init
<1>1. TypeOK
  BY EmptySeq DEF TypeOK, Starts, Listening, IsInjective
<1>2. StartsAreUnique /\ StartsAreCounted /\ LockIsHeld /\ DoomedOnlyEnd /\ OwnersPath
  BY DEF StartsAreUnique, StartsAreCounted, LockIsHeld, DoomedOnlyEnd, OwnersPath, Up, Listening
<1>3. BacklogWaits /\ HolderIsServed /\ ClientStayed /\ LeavesForCause
  BY DEF BacklogWaits, HolderIsServed, ClientStayed, LeavesForCause, Holds, Contains
<1> QED BY <1>1, <1>2, <1>3 DEF IInv

\* The client of a broker that serves it, and the number of a start.
LEMMA ServesAUser ==
    ASSUME IInv, NEW b \in Brokers
    PROVE  /\ pc[b] \in {"greet", "serve", "leave"} => client[b] \in Users
           /\ Up(b) => start[b] \in 1..MaxStarts
           /\ backlog[b] # <<>> => Head(backlog[b]) \in Users /\ Tail(backlog[b]) \in Seq(Users)
BY DEF IInv, TypeOK, StartsAreCounted, Starts, Up

FileTypes ==
    /\ console \in Users \union {Nobody}
    /\ path \in Starts /\ lock \in Brokers \union {Nobody} /\ starts \in Starts

ProcessTypes ==
    /\ pc \in [Brokers -> Listening \union {"down", "probe", "unlink", "bind",
                                            "listen", "remove", "unlock"}]
    /\ start \in [Brokers -> Starts] /\ seen \in [Brokers -> Starts]
    /\ doomed \subseteq Brokers
    /\ client \in [Brokers -> Users \union {Nobody}]

BacklogTypes ==
    /\ backlog \in [Brokers -> Seq(Users)]
    /\ \A b \in Brokers : IsInjective(backlog[b])

PlacesFit ==
    \A b \in Brokers :
        /\ client[b] = Nobody <=> pc[b] \notin {"greet", "serve", "leave"}
        /\ backlog[b] # <<>> => pc[b] \in Listening

AppTypes ==
    /\ app \in [Users -> {"closed", "waiting", "greeted", "open"}]
    /\ link \in [Users -> Starts] /\ buf \in [Users -> Starts]
    /\ \A u \in Users : buf[u] > 0 <=> app[u] \in {"greeted", "open"}
    /\ live \in [Starts -> BOOLEAN]
    /\ left \in [Users -> BOOLEAN]

\* The parts are the type invariant.
LEMMA TypeParts ==
    /\ TypeOK <=> FileTypes /\ ProcessTypes /\ BacklogTypes /\ PlacesFit /\ AppTypes
    /\ TypeOK' <=> FileTypes' /\ ProcessTypes' /\ BacklogTypes' /\ PlacesFit' /\ AppTypes'
BY DEF TypeOK, FileTypes, ProcessTypes, BacklogTypes, PlacesFit, AppTypes

-----------------------------------------------------------------------------
(***************************************************************************)
(* The types are kept, by a broker's steps, by an app's, and by the others. *)
(***************************************************************************)
LEMMA StartsAreNat == 0 \in Starts /\ Starts \subseteq Nat
BY BrokerAssumption DEF Starts

LEMMA BrokerTypeOK ==
    ASSUME IInv, NEW b \in Brokers, Broker(b)
    PROVE  TypeOK'
<1>1. FileTypes /\ ProcessTypes /\ BacklogTypes /\ PlacesFit /\ AppTypes
  BY TypeParts DEF IInv
<1> SUFFICES FileTypes' /\ ProcessTypes' /\ BacklogTypes' /\ PlacesFit' /\ AppTypes'
  BY TypeParts
<1> USE BrokerAssumption, StartsAreNat DEF Goto, files, process, worker, apps, Listening
<1>2. CASE Start(b)
  <2>1. FileTypes' /\ ProcessTypes'
    BY <1>1, <1>2 DEF Start, FileTypes, ProcessTypes, Starts
  <2>2. BacklogTypes' /\ AppTypes'
    BY <1>1, <1>2 DEF Start, BacklogTypes, AppTypes
  <2>3. PlacesFit'
    BY <1>1, <1>2 DEF Start, PlacesFit, ProcessTypes
  <2> QED BY <2>1, <2>2, <2>3
<1>3. CASE Probe(b)
  <2>1. FileTypes' /\ ProcessTypes'
    BY <1>1, <1>3 DEF Probe, FileTypes, ProcessTypes
  <2>2. BacklogTypes' /\ AppTypes'
    BY <1>1, <1>3 DEF Probe, BacklogTypes, AppTypes
  <2>3. PlacesFit'
    BY <1>1, <1>3 DEF Probe, PlacesFit, ProcessTypes
  <2> QED BY <2>1, <2>2, <2>3
<1>4. CASE Unlink(b) \/ Bind(b)
  <2>1. FileTypes' /\ ProcessTypes'
    BY <1>1, <1>4 DEF Unlink, Bind, FileTypes, ProcessTypes, Starts
  <2>2. BacklogTypes' /\ AppTypes'
    BY <1>1, <1>4 DEF Unlink, Bind, BacklogTypes, AppTypes
  <2>3. PlacesFit'
    BY <1>1, <1>4 DEF Unlink, Bind, PlacesFit, ProcessTypes
  <2> QED BY <2>1, <2>2, <2>3
<1>5. CASE Listen(b) \/ Poll(b)
  <2>1. FileTypes' /\ ProcessTypes'
    BY <1>1, <1>5 DEF Listen, Poll, FileTypes, ProcessTypes
  <2>2. BacklogTypes' /\ AppTypes'
    BY <1>1, <1>5 DEF Listen, Poll, BacklogTypes, AppTypes
  <2>3. PlacesFit'
    BY <1>1, <1>5 DEF Listen, Poll, PlacesFit, ProcessTypes
  <2> QED BY <2>1, <2>2, <2>3
<1>6. CASE Accept(b)
  <2> DEFINE u == Head(backlog[b])
  <2>1. u \in Users /\ Tail(backlog[b]) \in Seq(Users) /\ IsInjective(Tail(backlog[b]))
    BY <1>1, <1>6, TailInjective, ServesAUser DEF Accept, BacklogTypes
  <2>2. BacklogTypes' /\ \A c \in Brokers : backlog'[c] # <<>> => backlog[c] # <<>>
    BY <1>1, <1>6, <2>1 DEF Accept, BacklogTypes
  <2>3. UNCHANGED <<console, files, process, app, buf>>
    BY <1>6 DEF Accept
  <2>4. FileTypes'
    BY <1>1, <2>3 DEF FileTypes, files
  <2>5. AppTypes'
    <3>1. live' \in [Starts -> BOOLEAN] /\ left' \in [Users -> BOOLEAN]
      BY <1>1, <1>6, <2>1 DEF Accept, AppTypes, Silence
    <3>2. 0 \in Starts
      BY BrokerAssumption DEF Starts
    <3>3. link' \in [Users -> Starts]
      BY <1>1, <1>6, <2>1, <3>2 DEF Accept, AppTypes
    <3> QED BY <1>1, <2>3, <3>1, <3>3 DEF AppTypes
  <2>6. ProcessTypes'
    BY <1>1, <1>6, <2>1, <2>3 DEF Accept, ProcessTypes, process, Listening
  <2>7. PlacesFit'
    <3>1. client[b] = Nobody /\ pc[b] = "accept"
      BY <1>1, <1>6 DEF Accept, PlacesFit
    <3>2. \/ UNCHANGED <<pc, client>>
          \/ pc' = [pc EXCEPT ![b] = "greet"] /\ client' = [client EXCEPT ![b] = u]
      BY <1>6 DEF Accept
    <3>3. u # Nobody
      BY <2>1, BrokerAssumption
    <3> QED BY <1>1, <2>1, <2>2, <3>1, <3>2, <3>3 DEF ProcessTypes, PlacesFit, Listening
  <2> QED BY <2>2, <2>4, <2>5, <2>6, <2>7
<1>7. CASE SendBufferDescriptor(b)
  <2>1. client[b] \in Users /\ start[b] \in 1..MaxStarts
    BY <1>7, ServesAUser DEF SendBufferDescriptor, Up
  <2>2. FileTypes' /\ BacklogTypes'
    BY <1>1, <1>7 DEF SendBufferDescriptor, FileTypes, BacklogTypes
  <2>3. ProcessTypes' /\ PlacesFit'
    BY <1>1, <1>7, <2>1 DEF SendBufferDescriptor, ProcessTypes, PlacesFit
  <2>4. AppTypes'
    <3>1. live' \in [Starts -> BOOLEAN]
      BY <1>1, <1>7 DEF SendBufferDescriptor, AppTypes, ProcessTypes, Silence
    <3>2. start[b] \in Starts /\ start[b] > 0
      BY <1>1, <2>1 DEF ProcessTypes
    <3> QED BY <1>1, <1>7, <2>1, <3>1, <3>2 DEF SendBufferDescriptor, AppTypes
  <2> QED BY <2>2, <2>3, <2>4
<1>8. CASE Leave(b)
  <2>1. FileTypes' /\ BacklogTypes' /\ ProcessTypes'
    BY <1>1, <1>8 DEF Leave, FileTypes, BacklogTypes, ProcessTypes
  <2>2. PlacesFit'
    BY <1>1, <1>8 DEF Leave, PlacesFit, ProcessTypes
  <2>3. AppTypes'
    BY <1>1, <1>8 DEF Leave, AppTypes, ProcessTypes, Silence
  <2> QED BY <2>1, <2>2, <2>3
<1>9. CASE StopServing(b) \/ Crash(b)
  <2>1. /\ backlog' = [backlog EXCEPT ![b] = <<>>] /\ client' = [client EXCEPT ![b] = Nobody]
        /\ pc' = [pc EXCEPT ![b] = "remove"] \/ pc' = [pc EXCEPT ![b] = "down"]
    BY <1>9 DEF StopServing, Crash, SocketsClose
  <2>2. <<>> \in Seq(Users) /\ IsInjective(<<>>)
    BY EmptySeq DEF IsInjective
  <2>3. BacklogTypes'
    BY <1>1, <2>1, <2>2 DEF BacklogTypes
  <2>4. PlacesFit'
    BY <1>1, <2>1 DEF PlacesFit, ProcessTypes, BacklogTypes
  <2>5. FileTypes' /\ ProcessTypes'
    BY <1>1, <1>9, <2>1 DEF StopServing, Crash, FileTypes, ProcessTypes
  <2>6. AppTypes'
    <3>1. /\ live' \in [Starts -> BOOLEAN]
          /\ UNCHANGED <<app, buf, left>>
          /\ link' = [u \in Users |-> IF link[u] = start[b] THEN 0 ELSE link[u]]
      BY <1>1, <1>9 DEF StopServing, Crash, SocketsClose, AppTypes, Silence
    <3>2. 0 \in Starts
      BY BrokerAssumption DEF Starts
    <3>3. link' \in [Users -> Starts]
      BY <1>1, <3>1, <3>2 DEF AppTypes
    <3> QED BY <1>1, <3>1, <3>3 DEF AppTypes
  <2> QED BY <2>3, <2>4, <2>5, <2>6
<1>10. CASE RemoveOwnedSocket(b) \/ Unlock(b)
  <2>1. FileTypes' /\ ProcessTypes'
    BY <1>1, <1>10 DEF RemoveOwnedSocket, Unlock, FileTypes, ProcessTypes, Starts
  <2>2. BacklogTypes' /\ AppTypes'
    BY <1>1, <1>10 DEF RemoveOwnedSocket, Unlock, BacklogTypes, AppTypes
  <2>3. PlacesFit'
    BY <1>1, <1>10 DEF RemoveOwnedSocket, Unlock, PlacesFit, ProcessTypes
  <2> QED BY <2>1, <2>2, <2>3
<1> QED
  BY <1>2, <1>3, <1>4, <1>5, <1>6, <1>7, <1>8, <1>9, <1>10 DEF Broker, Serve

LEMMA AppTypeOK ==
    ASSUME IInv, NEW u \in Users, App(u)
    PROVE  TypeOK'
<1>1. FileTypes /\ ProcessTypes /\ BacklogTypes /\ PlacesFit /\ AppTypes
  BY TypeParts DEF IInv
<1> SUFFICES FileTypes' /\ ProcessTypes' /\ BacklogTypes' /\ PlacesFit' /\ AppTypes'
  BY TypeParts
<1> USE BrokerAssumption, StartsAreNat DEF files, process, worker, apps
<1>2. CASE Connect(u)
  <2>1. PICK b \in Brokers : /\ pc[b] \in Listening /\ start[b] = path
                             /\ backlog' = [backlog EXCEPT ![b] = Append(@, u)]
    BY <1>2 DEF Connect
  <2>2. ~Contains(backlog[b], u)
    BY <1>2 DEF Connect, BacklogWaits, IInv
  <2>3. Append(backlog[b], u) \in Seq(Users) /\ IsInjective(Append(backlog[b], u))
    BY <1>1, <2>2, AppendedOnce DEF BacklogTypes
  <2>4. BacklogTypes'
    BY <1>1, <2>1, <2>3 DEF BacklogTypes
  <2>5. PlacesFit'
    BY <1>1, <1>2, <2>1 DEF Connect, PlacesFit, BacklogTypes
  <2>6. FileTypes' /\ ProcessTypes'
    BY <1>1, <1>2 DEF Connect, FileTypes, ProcessTypes
  <2>7. AppTypes'
    <3>1. live' \in [Starts -> BOOLEAN]
      BY <1>1, <1>2 DEF Connect, Closes, Silence, AppTypes
    <3> QED BY <1>1, <1>2, <3>1 DEF Connect, AppTypes, FileTypes
  <2> QED BY <2>4, <2>5, <2>6, <2>7
<1>3. CASE ConnectFails(u) \/ Refused(u) \/ MapBuffer(u) \/ Write(u) \/ Stop(u)
  <2>1. UNCHANGED <<console, files, pc, process, worker>>
    BY <1>3 DEF ConnectFails, Refused, MapBuffer, Write, Stop
  <2>2. FileTypes' /\ ProcessTypes' /\ BacklogTypes' /\ PlacesFit'
    BY <1>1, <2>1 DEF FileTypes, ProcessTypes, BacklogTypes, PlacesFit
  <2>3. CASE ConnectFails(u)
    <3>1. live' \in [Starts -> BOOLEAN]
      BY <1>1, <2>3 DEF ConnectFails, Closes, Silence, AppTypes
    <3>2. AppTypes'
      BY <1>1, <2>3, <3>1 DEF ConnectFails, AppTypes
    <3> QED BY <2>2, <3>2
  <2>4. CASE Refused(u) \/ MapBuffer(u)
    BY <1>1, <2>2, <2>4 DEF Refused, MapBuffer, Silence, AppTypes
  <2>5. CASE Write(u) \/ Stop(u)
    BY <1>1, <2>2, <2>5 DEF Write, Stop, Silence, AppTypes
  <2> QED BY <1>3, <2>3, <2>4, <2>5
<1>4. CASE AppEnds(u)
  <2>1. /\ backlog' = [c \in Brokers |-> RemoveFirst(backlog[c], u)]
        /\ pc' = pc /\ client' = client
    BY <1>4 DEF AppEnds, HangUp
  <2>2. /\ backlog' \in [Brokers -> Seq(Users)]
        /\ \A c \in Brokers : IsInjective(backlog'[c])
        /\ \A c \in Brokers : backlog'[c] # <<>> => backlog[c] # <<>>
    BY <1>1, <2>1, HungUpBacklog DEF BacklogTypes
  <2>3. BacklogTypes' /\ PlacesFit'
    BY <1>1, <2>1, <2>2 DEF BacklogTypes, PlacesFit
  <2>4. FileTypes' /\ ProcessTypes'
    BY <1>1, <1>4 DEF AppEnds, FileTypes, ProcessTypes
  <2>5. AppTypes'
    BY <1>1, <1>4 DEF AppEnds, AppTypes
  <2> QED BY <2>3, <2>4, <2>5
<1> QED BY <1>2, <1>3, <1>4 DEF App

LEMMA NextTypeOK ==
    ASSUME IInv, [Next]_vars
    PROVE  TypeOK'
<1>1. FileTypes /\ ProcessTypes /\ BacklogTypes /\ PlacesFit /\ AppTypes
  BY TypeParts DEF IInv
<1> USE DEF files, process, worker, apps, FileTypes, ProcessTypes, BacklogTypes, PlacesFit, AppTypes
<1>2. CASE InstallerRemovesFiles
  BY <1>1, <1>2, BrokerAssumption, TypeParts DEF InstallerRemovesFiles, Starts
<1>3. ASSUME NEW u \in Users \union {Nobody}, SwitchUser(u) PROVE TypeOK'
  BY <1>1, <1>3, TypeParts DEF SwitchUser
<1>4. ASSUME NEW i \in Starts, LeaseExpires(i) PROVE TypeOK'
  BY <1>1, <1>4, TypeParts DEF LeaseExpires, Silence
<1>5. CASE UNCHANGED vars
  BY <1>1, <1>5, TypeParts DEF vars
<1> QED BY <1>2, <1>3, <1>4, <1>5, BrokerTypeOK, AppTypeOK DEF Next

-----------------------------------------------------------------------------
(***************************************************************************)
(* The starts, the lock and the path: only a broker and the installer touch *)
(* them.  An app's step, a lease that ends and a switch of users leave     *)
(* these five alone.                                                       *)
(***************************************************************************)
FilesInv == StartsAreUnique /\ StartsAreCounted /\ LockIsHeld /\ DoomedOnlyEnd /\ OwnersPath

\* A step that moves a broker among places that are equally far from the files.
LEMMA FilesFrame ==
    ASSUME FileTypes, ProcessTypes, AppTypes, FilesInv,
           FileTypes', ProcessTypes', AppTypes',
           UNCHANGED <<path, lock, starts, start, doomed>>,
           \A b \in Brokers : pc'[b] = pc[b] \/ (pc[b] \in Listening /\ pc'[b] \in Listening),
           \A u \in Users : /\ link'[u] \in {0, path, link[u]}
                            /\ buf'[u] \in {0, buf[u]} \/ \E b \in Brokers : buf'[u] = start[b]
    PROVE  FilesInv'
<1> USE StartsAreNat DEF FilesInv, FileTypes, ProcessTypes, AppTypes
<1>1. StartsAreUnique'
  BY DEF StartsAreUnique
<1>2. StartsAreCounted'
  BY DEF StartsAreCounted, Up, Listening
<1>3. LockIsHeld'
  BY DEF LockIsHeld, Up, Listening
<1>4. DoomedOnlyEnd' /\ OwnersPath'
  BY DEF DoomedOnlyEnd, OwnersPath
<1> QED BY <1>1, <1>2, <1>3, <1>4

LEMMA FilesStep ==
    ASSUME IInv, [Next]_vars
    PROVE  FilesInv'
<1>1. FileTypes /\ ProcessTypes /\ AppTypes /\ FilesInv
  BY TypeParts DEF IInv, FilesInv
<1>2. FileTypes' /\ ProcessTypes' /\ AppTypes'
  BY NextTypeOK, TypeParts
<1> USE StartsAreNat, <1>1, <1>2
<1> USE DEF Goto, files, process, worker, apps, FileTypes, ProcessTypes, AppTypes
<1>3. ASSUME NEW b \in Brokers, Start(b) PROVE FilesInv'
  <2>1. /\ pc[b] = "down" /\ starts' = starts + 1 /\ lock = Nobody /\ lock' = b
        /\ start' = [start EXCEPT ![b] = starts'] /\ doomed' = doomed \ {b}
        /\ pc' = [pc EXCEPT ![b] = "probe"] /\ UNCHANGED <<path, link, buf>>
    BY <1>3 DEF Start
  <2>2. StartsAreUnique' /\ StartsAreCounted'
    <3>1. /\ starts \in Nat /\ path \in Nat
          /\ \A c \in Brokers : start[c] \in Nat /\ start[c] <= starts
          /\ \A u \in Users : link[u] \in Nat /\ buf[u] \in Nat
      BY DEF FilesInv, StartsAreCounted
    <3>2. \A c \in Brokers : start'[c] = IF c = b THEN starts + 1 ELSE start[c]
      BY <2>1
    <3>3. StartsAreUnique'
      BY <3>1, <3>2 DEF FilesInv, StartsAreUnique
    <3>4. StartsAreCounted'
      <4>1. \A c \in Brokers : start'[c] <= starts' /\ (Up(c)' => start'[c] > 0)
        BY <2>1, <3>1, <3>2 DEF FilesInv, StartsAreCounted, Up
      <4>2. path' <= starts' /\ \A u \in Users : link'[u] <= starts' /\ buf'[u] <= starts'
        BY <2>1, <3>1 DEF FilesInv, StartsAreCounted
      <4> QED BY <4>1, <4>2 DEF StartsAreCounted
    <3> QED BY <3>3, <3>4
  <2>3. LockIsHeld'
    BY <2>1, BrokerAssumption DEF FilesInv, LockIsHeld, Up
  <2>4. DoomedOnlyEnd'
    BY <2>1 DEF FilesInv, DoomedOnlyEnd
  <2>5. OwnersPath'
    BY <2>1 DEF FilesInv, OwnersPath, Listening
  <2> QED BY <2>2, <2>3, <2>4, <2>5 DEF FilesInv
<1>4. ASSUME NEW b \in Brokers, Probe(b) \/ Unlink(b) \/ Bind(b) PROVE FilesInv'
  <2>1. /\ pc[b] \in {"probe", "unlink", "bind"} /\ path' \in {0, path, start[b]}
        /\ \/ path' = path /\ pc' = [pc EXCEPT ![b] = "bind"]
           \/ path' = path /\ pc' = [pc EXCEPT ![b] = "unlink"]
           \/ path' = path /\ pc' = [pc EXCEPT ![b] = "unlock"]
           \/ path' = 0 /\ pc' = [pc EXCEPT ![b] = "bind"]
           \/ path' = start[b] /\ pc' = [pc EXCEPT ![b] = "listen"]
        /\ UNCHANGED <<lock, starts, start, doomed, link, buf>>
    BY <1>4 DEF Probe, Unlink, Bind
  <2>2. b \notin doomed /\ lock = b
    BY <2>1 DEF FilesInv, DoomedOnlyEnd, LockIsHeld, Up, Listening
  <2>3. StartsAreUnique' /\ StartsAreCounted'
    BY <2>1 DEF FilesInv, StartsAreUnique, StartsAreCounted, Up
  <2>4. LockIsHeld'
    BY <2>1 DEF FilesInv, LockIsHeld, Up
  <2>5. DoomedOnlyEnd'
    BY <2>1, <2>2 DEF FilesInv, DoomedOnlyEnd
  <2>6. OwnersPath'
    BY <2>1, <2>2 DEF FilesInv, OwnersPath, LockIsHeld, Up, Listening
  <2> QED BY <2>3, <2>4, <2>5, <2>6 DEF FilesInv
<1>5. ASSUME NEW b \in Brokers, Listen(b) PROVE FilesInv'
  <2>1. /\ pc[b] = "listen" /\ pc' = [pc EXCEPT ![b] = "accept"]
        /\ UNCHANGED <<path, lock, starts, start, doomed, link, buf>>
    BY <1>5 DEF Listen
  <2>2. StartsAreUnique' /\ StartsAreCounted' /\ LockIsHeld'
    BY <2>1 DEF FilesInv, StartsAreUnique, StartsAreCounted, LockIsHeld, Up
  <2>3. DoomedOnlyEnd' /\ OwnersPath'
    BY <2>1 DEF FilesInv, DoomedOnlyEnd, OwnersPath, Listening
  <2> QED BY <2>2, <2>3 DEF FilesInv
<1>6. ASSUME NEW b \in Brokers, Serve(b) PROVE FilesInv'
  <2>1. /\ UNCHANGED <<path, lock, starts, start, doomed>>
        /\ \A c \in Brokers : pc'[c] = pc[c] \/ (pc[c] \in Listening /\ pc'[c] \in Listening)
        /\ \A u \in Users : link'[u] \in {0, link[u]} /\ buf'[u] \in {start[b], buf[u]}
    BY <1>6 DEF Serve, Accept, SendBufferDescriptor, Poll, Leave, Listening
  <2> QED BY <2>1, FilesFrame
<1>7. ASSUME NEW b \in Brokers, StopServing(b) \/ RemoveOwnedSocket(b) \/ Unlock(b) \/ Crash(b)
      PROVE  FilesInv'
  <2>1. /\ UNCHANGED <<starts, start, doomed, buf>>
        /\ \A u \in Users : link'[u] \in {0, link[u]}
        /\ pc[b] # "down"
        /\ \/ pc[b] \in Listening /\ pc' = [pc EXCEPT ![b] = "remove"] /\ UNCHANGED <<path, lock>>
           \/ pc[b] = "remove" /\ pc' = [pc EXCEPT ![b] = "unlock"] /\ UNCHANGED lock
              /\ path' = IF path = start[b] THEN 0 ELSE path
           \/ pc' = [pc EXCEPT ![b] = "down"] /\ UNCHANGED path
              /\ lock' = IF lock = b THEN Nobody ELSE lock
    BY <1>7 DEF StopServing, RemoveOwnedSocket, Unlock, Crash, SocketsClose, Listening
  <2>2. StartsAreUnique' /\ StartsAreCounted'
    BY <2>1 DEF FilesInv, StartsAreUnique, StartsAreCounted, Up
  <2>3. LockIsHeld'
    BY <2>1, BrokerAssumption DEF FilesInv, LockIsHeld, Up, Listening
  <2>4. DoomedOnlyEnd'
    BY <2>1 DEF FilesInv, DoomedOnlyEnd
  <2>5. OwnersPath'
    BY <2>1 DEF FilesInv, OwnersPath, StartsAreUnique, StartsAreCounted, Up, Listening
  <2> QED BY <2>2, <2>3, <2>4, <2>5 DEF FilesInv
<1>8. CASE InstallerRemovesFiles
  <2>1. /\ path' = 0 /\ lock' = Nobody /\ doomed' = {b \in Brokers : pc[b] # "down"}
        /\ \A b \in Brokers : pc[b] \in Listening \union {"down"}
        /\ UNCHANGED <<starts, pc, start, link, buf>>
    BY <1>8 DEF InstallerRemovesFiles
  <2>2. StartsAreUnique' /\ StartsAreCounted'
    <3>1. 0 <= starts
      BY StartsAreNat
    <3>2. \A b \in Brokers : Up(b)' => Up(b)
      BY <2>1 DEF Up
    <3> QED BY <2>1, <3>1, <3>2 DEF FilesInv, StartsAreUnique, StartsAreCounted
  <2>3. LockIsHeld'
    BY <2>1, BrokerAssumption DEF LockIsHeld, Up
  <2>4. DoomedOnlyEnd' /\ OwnersPath'
    BY <2>1 DEF DoomedOnlyEnd, OwnersPath, Listening
  <2> QED BY <2>2, <2>3, <2>4 DEF FilesInv
<1>9. ASSUME NEW u \in Users, App(u) PROVE FilesInv'
  <2>1. /\ UNCHANGED <<path, lock, starts, start, doomed, pc>>
        /\ \A v \in Users : link'[v] \in {0, path, link[v]} /\ buf'[v] \in {0, buf[v]}
    BY <1>9 DEF App, Connect, ConnectFails, Refused, MapBuffer, Write, Stop, AppEnds
  <2> QED BY <2>1, FilesFrame
<1>10. ASSUME NEW u \in Users \union {Nobody}, SwitchUser(u) PROVE FilesInv'
  BY <1>10, FilesFrame DEF SwitchUser
<1>11. ASSUME NEW i \in Starts, LeaseExpires(i) PROVE FilesInv'
  BY <1>11, FilesFrame DEF LeaseExpires
<1>12. CASE UNCHANGED vars
  BY <1>12, FilesFrame DEF vars
<1> QED
  BY <1>3, <1>4, <1>5, <1>6, <1>7, <1>8, <1>9, <1>10, <1>11, <1>12 DEF Next, Broker

-----------------------------------------------------------------------------
(***************************************************************************)
(* The clients and their queues.                                           *)
(***************************************************************************)
ServiceInv == BacklogWaits /\ HolderIsServed /\ ClientStayed /\ LeavesForCause

\* What the numbers of the starts tell apart.
LEMMA StartFacts ==
    ASSUME IInv
    PROVE  /\ \A b \in Brokers : Up(b) => start[b] \in Nat /\ start[b] > 0
           /\ \A b, c \in Brokers : Up(b) /\ start[b] = start[c] => b = c
           /\ \A b \in Brokers : backlog[b] # <<>> => Up(b)
           /\ \A b \in Brokers : client[b] # Nobody => Up(b)
           /\ \A b \in Brokers, u \in Users : Contains(backlog[b], u) => backlog[b] # <<>>
           /\ \A u \in Users : /\ link[u] \in Nat /\ buf[u] \in Nat
                               /\ Holds(u) => buf[u] > 0
<1>1. ProcessTypes /\ PlacesFit /\ AppTypes /\ StartsAreCounted /\ StartsAreUnique
  BY TypeParts DEF IInv
<1>2. \A b \in Brokers : Up(b) => start[b] \in Nat /\ start[b] > 0
  BY <1>1, StartsAreNat DEF ProcessTypes, StartsAreCounted
<1>3. \A b \in Brokers : (backlog[b] # <<>> => Up(b)) /\ (client[b] # Nobody => Up(b))
  BY <1>1 DEF PlacesFit, Up, Listening
<1>4. \A b \in Brokers, u \in Users : Contains(backlog[b], u) => backlog[b] # <<>>
  BY DEF Contains
<1>5. \A u \in Users : link[u] \in Nat /\ buf[u] \in Nat /\ (Holds(u) => buf[u] > 0)
  BY <1>1, StartsAreNat DEF AppTypes, Holds
<1> QED BY <1>1, <1>2, <1>3, <1>4, <1>5 DEF StartsAreUnique

\* A step that leaves processes, clients and apps where they are.
LEMMA ServiceFrame ==
    ASSUME ServiceInv, UNCHANGED <<console, start, client, backlog, app, link, buf, left>>,
           \A b \in Brokers : \/ pc'[b] = pc[b]
                              \/ pc[b] \notin {"serve", "leave"} /\ pc'[b] \notin {"serve", "leave"}
    PROVE  ServiceInv'
BY DEF ServiceInv, BacklogWaits, HolderIsServed, ClientStayed, LeavesForCause, Holds

\* A broker's steps keep the four.
LEMMA BrokerService ==
    ASSUME IInv, NEW b \in Brokers, Broker(b)
    PROVE  ServiceInv'
<1>1. FileTypes /\ ProcessTypes /\ BacklogTypes /\ PlacesFit /\ AppTypes /\ ServiceInv
  BY TypeParts DEF IInv, ServiceInv
<1> USE StartsAreNat, StartFacts, BrokerAssumption
<1> USE DEF Goto, files, process, worker, apps, ServiceInv
<1>2. CASE Start(b)
  <2>1. /\ pc[b] = "down" /\ pc' = [pc EXCEPT ![b] = "probe"]
        /\ start' = [start EXCEPT ![b] = starts + 1]
        /\ UNCHANGED <<console, client, backlog, app, link, buf, left>>
    BY <1>2 DEF Start
  <2>2. backlog[b] = <<>> /\ client[b] = Nobody
    BY <1>1, <2>1 DEF PlacesFit, Listening
  <2>3. BacklogWaits'
    BY <1>1, <2>1, <2>2 DEF BacklogWaits, ProcessTypes
  <2>4. starts \in Nat /\ \A u \in Users : buf[u] <= starts
    BY <1>1 DEF FileTypes, IInv, StartsAreCounted
  <2>5. HolderIsServed'
    BY <1>1, <2>1, <2>4 DEF HolderIsServed, ProcessTypes, Holds
  <2>6. ClientStayed' /\ LeavesForCause'
    BY <1>1, <2>1 DEF ClientStayed, LeavesForCause, ProcessTypes, Holds
  <2> QED BY <2>3, <2>5, <2>6
<1>3. CASE Probe(b) \/ Unlink(b) \/ Bind(b) \/ Listen(b) \/ RemoveOwnedSocket(b) \/ Unlock(b)
  <2>1. UNCHANGED <<console, start, client, backlog, app, link, buf, left>>
    BY <1>3 DEF Probe, Unlink, Bind, Listen, RemoveOwnedSocket, Unlock
  <2>2. \A c \in Brokers : \/ pc'[c] = pc[c]
                           \/ pc[c] \notin {"serve", "leave"} /\ pc'[c] \notin {"serve", "leave"}
    BY <1>1, <1>3 DEF Probe, Unlink, Bind, Listen, RemoveOwnedSocket, Unlock, ProcessTypes
  <2> QED BY <1>1, <2>1, <2>2, ServiceFrame
<1>4. CASE Accept(b)
  <2> DEFINE u == Head(backlog[b])
             t == Tail(backlog[b])
  <2>1. u \in Users /\ pc[b] = "accept" /\ Up(b) /\ client[b] = Nobody
    BY <1>1, <1>4, ServesAUser DEF Accept, Up, PlacesFit
  <2>2. /\ \A v : Contains(t, v) <=> Contains(backlog[b], v) /\ v # u
        /\ Contains(backlog[b], u)
    <3>1. backlog[b] \in Seq(Users) /\ IsInjective(backlog[b]) /\ backlog[b] # <<>>
      BY <1>1, <1>4 DEF Accept, BacklogTypes
    <3>2. 1 \in 1..Len(backlog[b]) /\ u = backlog[b][1]
      BY <3>1
    <3> QED BY <3>1, <3>2, TailInjective DEF Contains
  <2>3. app[u] = "waiting" /\ link[u] = start[b]
    BY <1>1, <2>1, <2>2 DEF BacklogWaits
  <2>4. backlog' = [backlog EXCEPT ![b] = t] /\ UNCHANGED <<console, start, app, buf>>
    BY <1>4 DEF Accept
  <2>5. CASE IsAuthorized(u)
    <3>1. /\ client' = [client EXCEPT ![b] = u] /\ pc' = [pc EXCEPT ![b] = "greet"]
          /\ left' = [left EXCEPT ![u] = FALSE] /\ link' = link /\ console = u
      BY <1>4, <2>5 DEF Accept, IsAuthorized, ConsoleUserUID
    <3>2. BacklogWaits'
      BY <1>1, <2>2, <2>4, <3>1 DEF BacklogWaits, BacklogTypes
    <3>3. HolderIsServed'
      BY <1>1, <2>1, <2>4, <3>1 DEF HolderIsServed, ProcessTypes, Holds
    <3>4. ClientStayed'
      BY <1>1, <2>1, <2>4, <3>1 DEF ClientStayed, ProcessTypes, AppTypes
    <3>5. LeavesForCause'
      BY <1>1, <2>1, <2>3, <2>4, <3>1 DEF LeavesForCause, ProcessTypes, AppTypes, PlacesFit, Holds
    <3> QED BY <3>2, <3>3, <3>4, <3>5
  <2>6. CASE ~IsAuthorized(u)
    <3>1. link' = [link EXCEPT ![u] = 0] /\ UNCHANGED <<pc, client, left>>
      BY <1>4, <2>6 DEF Accept
    <3>2. BacklogWaits'
      BY <1>1, <2>1, <2>2, <2>3, <2>4, <3>1 DEF BacklogWaits, BacklogTypes, AppTypes
    <3>3. HolderIsServed'
      BY <1>1, <2>1, <2>3, <2>4, <3>1 DEF HolderIsServed, AppTypes, Holds
    <3>4. ClientStayed'
      BY <1>1, <2>4, <3>1 DEF ClientStayed
    <3>5. LeavesForCause'
      BY <1>1, <2>1, <2>3, <2>4, <3>1 DEF LeavesForCause, AppTypes, ProcessTypes, PlacesFit, Holds
    <3> QED BY <3>2, <3>3, <3>4, <3>5
  <2> QED BY <2>5, <2>6
<1>5. CASE SendBufferDescriptor(b)
  <2> DEFINE v == client[b]
  <2>1. v \in Users /\ pc[b] = "greet" /\ Up(b)
    BY <1>5, ServesAUser DEF SendBufferDescriptor, Up
  <2>2. UNCHANGED <<console, start, backlog, link, left>>
    BY <1>5 DEF SendBufferDescriptor
  <2>3. CASE Connected(b)
    <3>1. /\ pc' = [pc EXCEPT ![b] = "serve"] /\ app' = [app EXCEPT ![v] = "greeted"]
          /\ buf' = [buf EXCEPT ![v] = start[b]] /\ client' = client
      BY <1>5, <2>3 DEF SendBufferDescriptor
    <3>2. link[v] = start[b] /\ ~Contains(backlog[b], v)
      BY <2>3 DEF Connected
    <3>3. BacklogWaits'
      <4>1. ASSUME NEW c \in Brokers PROVE ~Contains(backlog[c], v)
        BY <1>1, <2>1, <3>2 DEF BacklogWaits
      <4> QED BY <1>1, <2>2, <3>1, <4>1 DEF BacklogWaits, AppTypes
    <3>4. HolderIsServed'
      <4> SUFFICES ASSUME NEW u \in Users, NEW c \in Brokers,
                          Holds(u)', link[u] = buf'[u], start[c] = buf'[u]
                   PROVE  pc'[c] \in {"serve", "leave"} /\ client[c] = u
        BY <2>2, <3>1 DEF HolderIsServed
      <4>1. CASE u = v
        BY <1>1, <2>1, <3>1, <4>1 DEF AppTypes, ProcessTypes
      <4>2. CASE u # v
        BY <1>1, <2>1, <3>1, <4>2 DEF AppTypes, ProcessTypes, HolderIsServed, Holds
      <4> QED BY <4>1, <4>2
    <3>5. ClientStayed'
      BY <1>1, <2>2, <3>1 DEF ClientStayed
    <3>6. LeavesForCause'
      BY <1>1, <2>1, <2>2, <3>1, <3>2 DEF LeavesForCause, AppTypes, ProcessTypes, PlacesFit, Holds
    <3> QED BY <3>3, <3>4, <3>5, <3>6
  <2>4. CASE ~Connected(b)
    <3>1. /\ pc' = [pc EXCEPT ![b] = "accept"] /\ client' = [client EXCEPT ![b] = Nobody]
          /\ UNCHANGED <<app, buf>>
      BY <1>5, <2>4 DEF SendBufferDescriptor
    <3>2. BacklogWaits' /\ ClientStayed'
      BY <1>1, <2>2, <3>1 DEF BacklogWaits, ClientStayed, ProcessTypes
    <3>3. HolderIsServed' /\ LeavesForCause'
      BY <1>1, <2>1, <2>2, <3>1 DEF HolderIsServed, LeavesForCause, ProcessTypes, Holds
    <3> QED BY <3>2, <3>3
  <2> QED BY <2>3, <2>4
<1>6. CASE Poll(b)
  <2> DEFINE v == client[b]
  <2>1. v \in Users /\ pc[b] = "serve" /\ pc' = [pc EXCEPT ![b] = "leave"]
    BY <1>6, ServesAUser DEF Poll
  <2>2. UNCHANGED <<console, start, client, backlog, app, link, buf, left>>
    BY <1>6 DEF Poll
  <2>3. BacklogWaits' /\ HolderIsServed' /\ ClientStayed'
    BY <1>1, <2>1, <2>2 DEF BacklogWaits, HolderIsServed, ClientStayed, ProcessTypes, Holds
  <2>4. Holds(v) /\ link[v] = start[b] => left[v]
    BY <1>1, <1>6, <2>1
       DEF Poll, Connected, BacklogWaits, Holds, IsAuthorized, ConsoleUserUID, ClientStayed
  <2>5. LeavesForCause'
    BY <1>1, <2>1, <2>2, <2>4 DEF LeavesForCause, ProcessTypes, Holds
  <2> QED BY <2>3, <2>5
<1>7. CASE Leave(b)
  <2> DEFINE v == client[b]
  <2>1. v \in Users /\ pc[b] = "leave" /\ Up(b) /\ pc' = [pc EXCEPT ![b] = "accept"]
    BY <1>7, ServesAUser DEF Leave, Up
  <2>2. /\ link' = IF Connected(b) THEN [link EXCEPT ![v] = 0] ELSE link
        /\ client' = [client EXCEPT ![b] = Nobody]
        /\ UNCHANGED <<console, start, backlog, app, buf, left>>
    BY <1>7 DEF Leave
  <2>3. BacklogWaits'
    BY <1>1, <2>1, <2>2 DEF BacklogWaits, AppTypes, Connected
  <2>4. HolderIsServed'
    <3> SUFFICES ASSUME NEW u \in Users, NEW c \in Brokers,
                        Holds(u), link'[u] = buf[u], start[c] = buf[u]
                 PROVE  pc'[c] \in {"serve", "leave"} /\ client'[c] = u
      BY <2>2 DEF HolderIsServed, Holds
    <3>1. link[u] = buf[u]
      BY <1>1, <2>1, <2>2 DEF AppTypes
    <3>2. pc[c] \in {"serve", "leave"} /\ client[c] = u
      BY <1>1, <3>1 DEF HolderIsServed
    <3>3. c # b
      <4> SUFFICES ASSUME c = b PROVE FALSE
        OBVIOUS
      <4>1. u = v /\ link[v] = start[b] /\ ~Contains(backlog[b], v)
        BY <1>1, <3>1, <3>2 DEF BacklogWaits, Holds
      <4>2. link'[u] = 0
        BY <1>1, <2>1, <2>2, <4>1 DEF Connected, AppTypes
      <4>3. buf[u] > 0
        BY StartFacts
      <4> QED BY <4>2, <4>3
    <3> QED BY <1>1, <2>1, <2>2, <3>2, <3>3 DEF ProcessTypes
  <2>5. ClientStayed'
    BY <1>1, <2>2 DEF ClientStayed, ProcessTypes
  <2>6. LeavesForCause'
    BY <1>1, <2>1, <2>2 DEF LeavesForCause, ProcessTypes, PlacesFit, AppTypes, Holds
  <2> QED BY <2>3, <2>4, <2>5, <2>6
<1>8. CASE StopServing(b) \/ Crash(b)
  <2>1. /\ backlog' = [backlog EXCEPT ![b] = <<>>] /\ client' = [client EXCEPT ![b] = Nobody]
        /\ \A u \in Users : link'[u] = IF link[u] = start[b] THEN 0 ELSE link[u]
        /\ \E place \in {"remove", "down"} : pc' = [pc EXCEPT ![b] = place]
        /\ UNCHANGED <<console, start, app, buf, left>>
    BY <1>8 DEF StopServing, Crash, SocketsClose
  <2>2. Up(b)
    BY <1>8 DEF StopServing, Crash, Up, Listening
  <2>3. ~\E u \in Users : Contains(<<>>, u)
    BY DEF Contains
  <2>4. BacklogWaits'
    BY <1>1, <2>1, <2>2, <2>3 DEF BacklogWaits, BacklogTypes
  <2>5. HolderIsServed'
    BY <1>1, <2>1, <2>2 DEF HolderIsServed, ProcessTypes, Holds
  <2>6. ClientStayed' /\ LeavesForCause'
    BY <1>1, <2>1, <2>2 DEF ClientStayed, LeavesForCause, ProcessTypes, PlacesFit, Holds
  <2> QED BY <2>4, <2>5, <2>6
<1> QED BY <1>2, <1>3, <1>4, <1>5, <1>6, <1>7, <1>8 DEF Broker, Serve

\* Who hangs up waits nowhere.
LEMMA NobodyWaitsTwice ==
    ASSUME BacklogTypes, NEW u, HangUp(u)
    PROVE  \A b \in Brokers, v \in Users :
              Contains(backlog'[b], v) <=> Contains(backlog[b], v) /\ v # u
<1>1. backlog' = [b \in Brokers |-> RemoveFirst(backlog[b], u)]
  BY DEF HangUp
<1>2. /\ backlog \in [Brokers -> Seq(Users)]
      /\ \A b \in Brokers : IsInjective(backlog[b])
  BY DEF BacklogTypes
<1>3. \A q \in [Brokers -> Seq(Users)] : (\A b \in Brokers : IsInjective(q[b])) =>
        \A b \in Brokers, v \in Users :
            Contains([c \in Brokers |-> RemoveFirst(q[c], u)][b], v)
              <=> Contains(q[b], v) /\ v # u
  BY HungUpBacklog
<1>4. \A b \in Brokers, v \in Users :
            Contains([c \in Brokers |-> RemoveFirst(backlog[c], u)][b], v)
              <=> Contains(backlog[b], v) /\ v # u
  BY <1>2, <1>3
<1> QED BY <1>1, <1>4

\* An app's steps keep the four.
LEMMA AppService ==
    ASSUME IInv, NEW u \in Users, App(u)
    PROVE  ServiceInv'
<1>1. ProcessTypes /\ BacklogTypes /\ PlacesFit /\ AppTypes /\ ServiceInv
  BY TypeParts DEF IInv, ServiceInv
<1> USE StartsAreNat, StartFacts
<1> USE DEF files, process, worker, apps, ServiceInv
<1>2. CASE Connect(u)
  <2>1. PICK b \in Brokers : /\ pc[b] \in Listening /\ start[b] = path
                             /\ backlog' = [backlog EXCEPT ![b] = Append(@, u)]
    BY <1>2 DEF Connect
  <2>2. /\ app[u] \in {"closed", "open"} /\ app' = [app EXCEPT ![u] = "waiting"]
        /\ link' = [link EXCEPT ![u] = path] /\ buf' = [buf EXCEPT ![u] = 0]
        /\ UNCHANGED <<console, pc, start, client, left>>
    BY <1>2 DEF Connect
  <2>3. \A c \in Brokers : ~Contains(backlog[c], u)
    BY <1>1, <2>2 DEF BacklogWaits
  <2>4. \A v : Contains(Append(backlog[b], u), v) <=> Contains(backlog[b], v) \/ v = u
    BY <1>1, <2>3, AppendedOnce DEF BacklogTypes
  <2>5. BacklogWaits'
    BY <1>1, <2>1, <2>2, <2>3, <2>4 DEF BacklogWaits, BacklogTypes, AppTypes
  <2>6. HolderIsServed'
    BY <1>1, <2>2 DEF HolderIsServed, AppTypes, Holds
  <2>7. ClientStayed' /\ LeavesForCause'
    BY <1>1, <2>2 DEF ClientStayed, LeavesForCause, AppTypes, ProcessTypes, PlacesFit, Holds
  <2> QED BY <2>5, <2>6, <2>7
<1>3. CASE ConnectFails(u) \/ Refused(u)
  <2>1. /\ app' = [app EXCEPT ![u] = "closed"]
        /\ app[u] = "open" \/ (app[u] = "waiting" /\ link[u] = 0)
        /\ \A v \in Users \ {u} : link'[v] = link[v] /\ buf'[v] = buf[v]
        /\ UNCHANGED <<console, pc, start, client, backlog, left>>
    BY <1>1, <1>3 DEF ConnectFails, Refused, AppTypes
  <2>2. \A c \in Brokers : ~Contains(backlog[c], u)
    BY <1>1, <2>1 DEF BacklogWaits
  <2>3. BacklogWaits'
    BY <1>1, <2>1, <2>2 DEF BacklogWaits, AppTypes
  <2>4. HolderIsServed'
    BY <1>1, <2>1 DEF HolderIsServed, AppTypes, Holds
  <2>5. ClientStayed' /\ LeavesForCause'
    BY <1>1, <2>1 DEF ClientStayed, LeavesForCause, AppTypes, ProcessTypes, PlacesFit, Holds
  <2> QED BY <2>3, <2>4, <2>5
<1>4. CASE MapBuffer(u)
  <2>1. /\ app[u] = "greeted" /\ app' = [app EXCEPT ![u] = "open"]
        /\ UNCHANGED <<console, pc, start, client, backlog, link, buf, left>>
    BY <1>4 DEF MapBuffer
  <2>2. \A v \in Users : Holds(v)' <=> Holds(v)
    BY <1>1, <2>1 DEF Holds, AppTypes
  <2>3. BacklogWaits' /\ HolderIsServed' /\ ClientStayed'
    BY <1>1, <2>1, <2>2 DEF BacklogWaits, HolderIsServed, ClientStayed, AppTypes
  <2>4. LeavesForCause'
    BY <1>1, <2>1, <2>2 DEF LeavesForCause, ProcessTypes, PlacesFit, Holds
  <2> QED BY <2>3, <2>4
<1>5. CASE Write(u) \/ Stop(u)
  BY <1>1, <1>5, ServiceFrame DEF Write, Stop
<1>6. CASE AppEnds(u)
  <2>1. /\ app' = [app EXCEPT ![u] = "closed"] /\ link' = [link EXCEPT ![u] = 0]
        /\ buf' = [buf EXCEPT ![u] = 0] /\ UNCHANGED <<console, pc, start, client, left>>
    BY <1>6 DEF AppEnds
  <2>2. \A b \in Brokers, v \in Users :
            Contains(backlog'[b], v) <=> Contains(backlog[b], v) /\ v # u
    BY <1>1, <1>6, NobodyWaitsTwice DEF AppEnds
  <2>3. BacklogWaits'
    BY <1>1, <2>1, <2>2 DEF BacklogWaits, AppTypes
  <2>4. HolderIsServed'
    BY <1>1, <2>1 DEF HolderIsServed, AppTypes, Holds
  <2>5. ClientStayed' /\ LeavesForCause'
    BY <1>1, <2>1 DEF ClientStayed, LeavesForCause, AppTypes, ProcessTypes, PlacesFit, Holds
  <2> QED BY <2>3, <2>4, <2>5
<1> QED BY <1>2, <1>3, <1>4, <1>5, <1>6 DEF App

LEMMA NextIInv ==
    ASSUME IInv, [Next]_vars
    PROVE  IInv'
<1>1. ProcessTypes /\ AppTypes /\ PlacesFit /\ ServiceInv
  BY TypeParts DEF IInv, ServiceInv
<1>2. ServiceInv'
  <2> USE DEF files, process, worker, apps
  <2>1. CASE InstallerRemovesFiles
    BY <1>1, <2>1, ServiceFrame DEF InstallerRemovesFiles
  <2>2. ASSUME NEW u \in Users \union {Nobody}, SwitchUser(u) PROVE ServiceInv'
    <3>1. /\ console' = u /\ \A v \in Users : left'[v] = (left[v] \/ v # u)
          /\ UNCHANGED <<pc, start, client, backlog, app, link, buf>>
      BY <2>2 DEF SwitchUser
    <3>2. BacklogWaits' /\ HolderIsServed'
      BY <1>1, <3>1 DEF ServiceInv, BacklogWaits, HolderIsServed, Holds
    <3>3. ClientStayed' /\ LeavesForCause'
      BY <1>1, <3>1 DEF ServiceInv, ClientStayed, LeavesForCause, ProcessTypes, PlacesFit, Holds
    <3> QED BY <3>2, <3>3 DEF ServiceInv
  <2>3. ASSUME NEW i \in Starts, LeaseExpires(i) PROVE ServiceInv'
    BY <1>1, <2>3, ServiceFrame DEF LeaseExpires
  <2>4. CASE UNCHANGED vars
    BY <1>1, <2>4, ServiceFrame DEF vars
  <2> QED BY <2>1, <2>2, <2>3, <2>4, BrokerService, AppService DEF Next
<1> QED BY <1>2, NextTypeOK, FilesStep DEF IInv, FilesInv, ServiceInv

-----------------------------------------------------------------------------
(***************************************************************************)
(* The theorems.                                                           *)
(***************************************************************************)
LEMMA Invariance == Spec => []IInv
BY InitIInv, NextIInv, PTL DEF Spec

\* Whatever crashes, overlapping starts, late clean-ups and installers there
\* are, a broker that serves is the one the path leads to unless it is about
\* to be killed, and a broker has a client exactly where it serves one.
THEOREM ServerHoldsPath == Spec => []BrokerInvariant
<1>1. IInv => BrokerInvariant
  BY DEF IInv, BrokerInvariant, PathLeadsToServer, OwnersPath, TypeOK
<1> QED BY Invariance, <1>1, PTL

\* A broker that runs never silences the buffer of an app that it serves and
\* whose user has stayed at the console: not by accepting another app, not by
\* closing another's connection, not by leaving a client too early.
THEOREM ServedAppIsHeard == Spec => ServedAppIsNotSilenced
<1>1. ASSUME IInv, [Next]_vars,
             NEW u \in Users, NEW b \in Brokers,
             LiveAtConsole(u), start[b] = buf[u], pc'[b] # pc[b], pc'[b] \in Listening
      PROVE  live'[buf[u]]
  <2>1. ProcessTypes /\ AppTypes /\ PlacesFit /\ HolderIsServed /\ LeavesForCause
    BY <1>1, TypeParts DEF IInv
  <2>2. app[u] = "open" /\ link[u] = buf[u] /\ ~left[u] /\ live[buf[u]]
    BY <1>1 DEF LiveAtConsole
  <2>3. pc[b] = "serve"
    BY <1>1, <2>1, <2>2 DEF HolderIsServed, LeavesForCause, Holds
  <2> USE DEF Goto, files, process, worker, apps
  <2>4. ASSUME NEW c \in Brokers, Broker(c) PROVE c = b
    BY <1>1, <2>1, <2>4
       DEF Broker, Start, Probe, Unlink, Bind, Listen, Serve, Accept, SendBufferDescriptor,
           Poll, Leave, StopServing, RemoveOwnedSocket, Unlock, Crash, ProcessTypes
  <2>5. Broker(b)
    BY <1>1, <2>4 DEF Next, vars, InstallerRemovesFiles, App, Connect, ConnectFails, Refused,
                      MapBuffer, Write, Stop, AppEnds, SwitchUser, LeaseExpires
  <2>6. Poll(b)
    BY <1>1, <2>1, <2>3, <2>5
       DEF Broker, Start, Probe, Unlink, Bind, Listen, Serve, Accept, SendBufferDescriptor,
           Leave, StopServing, RemoveOwnedSocket, Unlock, Crash, ProcessTypes, Listening
  <2> QED BY <2>2, <2>6 DEF Poll
<1>2. IInv /\ [Next]_vars =>
        [\A u \in Users, b \in Brokers :
            /\ LiveAtConsole(u) /\ start[b] = buf[u]
            /\ pc'[b] # pc[b] /\ pc'[b] \in Listening
            => live'[buf[u]]]_vars
  BY <1>1
<1> QED BY Invariance, <1>2, PTL DEF Spec, ServedAppIsNotSilenced
=============================================================================
