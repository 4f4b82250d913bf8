----------------------------- MODULE AudioBroker -----------------------------
(***************************************************************************)
(* How an app gets hold of the audio driver's shared buffer.  The driver's *)
(* broker (FDBrokerServer) listens on a socket at a fixed path and hands   *)
(* the buffer to the app of the user at the console, one app at a time.    *)
(* Driver processes come and go: they crash, are restarted, may overlap,   *)
(* and an installer removes their socket and lock files before it kills    *)
(* them.  The apps of several users run side by side after a fast user     *)
(* switch, and an app keeps the buffer it has mapped until it closes it.   *)
(*                                                                         *)
(* One step of a broker is one access to the file system or one turn of    *)
(* its worker thread; of an app, one call of Producer.  Of a buffer there  *)
(* is only whether a recorder hears it: producer_active is set and the     *)
(* lease is ahead.  SharedAudioRing has what is inside the buffer, at the  *)
(* grain of single stores.                                                 *)
(***************************************************************************)
EXTENDS Integers, Sequences, SequencesExt

CONSTANTS
    Users,      \* the users whose apps run on the Mac
    Nobody,     \* at the console: the login window; at a broker: no client
    Brokers,    \* driver processes
    MaxStarts   \* bounds the number of times a broker starts

ASSUME BrokerAssumption ==
    /\ Nobody \notin Users /\ Nobody \notin Brokers
    /\ MaxStarts \in Nat

VARIABLES
    console,    \* the owner of /dev/console
    path,       \* the socket file: which start bound it, 0 if there is none
    lock,       \* the process that holds the lock on the lock file
    starts,     \* how many starts there have been
    pc,         \* what a broker does next
    start,      \* its start: names its buffer and its socket
    seen,       \* the socket file it probed
    doomed,     \* the processes the installer is about to kill
    client,     \* client_descriptor_: whose connection it serves
    backlog,    \* the connections not yet accepted
    app,        \* an app's producer
    link,       \* the start its connection leads to, 0 if it has ended
    buf,        \* the buffer it was sent and maps, 0 if none
    live,       \* of each buffer: producer_active, and the lease is ahead
    left        \* history: the user left the console since the connection

files   == <<path, lock, starts>>
process == <<start, seen, doomed>>
worker  == <<client, backlog>>
apps    == <<app, link, buf, left>>
vars == <<console, path, lock, starts, pc, start, seen, doomed, client,
          backlog, app, link, buf, live, left>>

\* 0 stands for no buffer and no socket.
Starts == 0..MaxStarts

Listening == {"accept", "greet", "serve", "leave"}

TypeOK ==
    /\ console \in Users \union {Nobody}
    /\ path \in Starts /\ lock \in Brokers \union {Nobody} /\ starts \in Starts
    /\ pc \in [Brokers -> Listening \union {"down", "probe", "unlink", "bind",
                                            "listen", "remove", "unlock"}]
    /\ start \in [Brokers -> Starts] /\ seen \in [Brokers -> Starts]
    /\ doomed \subseteq Brokers
    /\ client \in [Brokers -> Users \union {Nobody}]
    /\ backlog \in [Brokers -> Seq(Users)]
    /\ \A b \in Brokers :
        /\ IsInjective(backlog[b])
        /\ client[b] = Nobody <=> pc[b] \notin {"greet", "serve", "leave"}
        /\ backlog[b] # <<>> => pc[b] \in Listening
    /\ app \in [Users -> {"closed", "waiting", "greeted", "open"}]
    /\ link \in [Users -> Starts] /\ buf \in [Users -> Starts]
    /\ \A u \in Users : buf[u] > 0 <=> app[u] \in {"greeted", "open"}
    /\ live \in [Starts -> BOOLEAN]
    /\ left \in [Users -> BOOLEAN]

Init ==
    /\ console = Nobody
    /\ path = 0 /\ lock = Nobody /\ starts = 0
    /\ pc = [b \in Brokers |-> "down"]
    /\ start = [b \in Brokers |-> 0] /\ seen = [b \in Brokers |-> 0]
    /\ doomed = {}
    /\ client = [b \in Brokers |-> Nobody]
    /\ backlog = [b \in Brokers |-> <<>>]
    /\ app = [u \in Users |-> "closed"]
    /\ link = [u \in Users |-> 0] /\ buf = [u \in Users |-> 0]
    /\ live = [i \in Starts |-> FALSE]
    /\ left = [u \in Users |-> FALSE]

Goto(b, from, to) == pc[b] = from /\ pc' = [pc EXCEPT ![b] = to]

\* Deactivate, and Producer::Stop, of buffer i.
Silence(i) == live' = [live EXCEPT ![i] = FALSE]

-----------------------------------------------------------------------------
(***************************************************************************)
(* FDBrokerServer::Start.  On a failure it calls Stop, which has no socket *)
(* to remove yet and releases the lock.                                    *)
(***************************************************************************)

\* A mutation: two processes may hold the lock.
StartShared(b) ==
    /\ Goto(b, "down", "probe")
    /\ starts < MaxStarts
    /\ starts' = starts + 1 /\ start' = [start EXCEPT ![b] = starts']
    /\ lock' = b /\ doomed' = doomed \ {b}
    /\ UNCHANGED <<console, path, seen, worker, apps, live>>

\* AcquireOwnershipLock does not wait, and Start with it: a process that
\* cannot have the lock has no broker.  The one that has it gets a buffer of
\* its own, silent.
Start(b) ==
    /\ Goto(b, "down", "probe")
    /\ starts < MaxStarts /\ lock = Nobody
    /\ starts' = starts + 1 /\ start' = [start EXCEPT ![b] = starts']
    /\ lock' = b /\ doomed' = doomed \ {b}
    /\ UNCHANGED <<console, path, seen, worker, apps, live>>

\* A connection to socket i would be accepted.
Answers(i) == \E b \in Brokers : start[b] = i /\ pc[b] \in Listening

\* RemoveStaleOwnedSocket connects to the socket it finds: one that answers
\* is in use.
Probe(b) ==
    /\ pc[b] = "probe"
    /\ pc' = [pc EXCEPT ![b] = IF path = 0 THEN "bind"
                               ELSE IF Answers(path) THEN "unlock"
                               ELSE "unlink"]
    /\ seen' = [seen EXCEPT ![b] = path]
    /\ UNCHANGED <<console, files, start, doomed, worker, apps, live>>

\* It removes the file only if it is still the one it probed.
Unlink(b) ==
    /\ pc[b] = "unlink"
    /\ IF path = seen[b]
       THEN path' = 0 /\ pc' = [pc EXCEPT ![b] = "bind"]
       ELSE path' = path /\ pc' = [pc EXCEPT ![b] = "unlock"]
    /\ UNCHANGED <<console, lock, starts, process, worker, apps, live>>

\* bind fails if there is a file again.
Bind(b) ==
    /\ pc[b] = "bind"
    /\ IF path = 0
       THEN path' = start[b] /\ pc' = [pc EXCEPT ![b] = "listen"]
       ELSE path' = path /\ pc' = [pc EXCEPT ![b] = "unlock"]
    /\ UNCHANGED <<console, lock, starts, process, worker, apps, live>>

\* listen, and the worker thread starts.
Listen(b) ==
    /\ Goto(b, "listen", "accept")
    /\ UNCHANGED <<console, files, process, worker, apps, live>>

-----------------------------------------------------------------------------
(***************************************************************************)
(* FDBrokerServer::Serve.                                                  *)
(***************************************************************************)

\* The login window's accounts are nobody.
ConsoleUserUID == {console} \ {Nobody}

IsAuthorized(u) == u \in ConsoleUserUID

\* The connection that b serves is still open at the app's end: an app that
\* is in the backlog has given up the one it had.
Connected(b) == /\ link[client[b]] = start[b]
                /\ ~Contains(backlog[b], client[b])

\* A connection of an app that is not the console user's is closed at once.
Accept(b) ==
    /\ pc[b] = "accept" /\ backlog[b] # <<>>
    /\ LET u == Head(backlog[b]) IN
        IF IsAuthorized(u)
        THEN /\ client' = [client EXCEPT ![b] = u]
             /\ pc' = [pc EXCEPT ![b] = "greet"]
             /\ Silence(start[b])
             /\ left' = [left EXCEPT ![u] = FALSE]
             /\ UNCHANGED link
        ELSE /\ link' = [link EXCEPT ![u] = 0]
             /\ UNCHANGED <<pc, client, live, left>>
    /\ backlog' = [backlog EXCEPT ![b] = Tail(@)]
    /\ UNCHANGED <<console, files, process, app, buf>>

\* SendBufferDescriptor; it fails if the app is gone.
SendBufferDescriptor(b) ==
    /\ pc[b] = "greet"
    /\ IF Connected(b)
       THEN /\ pc' = [pc EXCEPT ![b] = "serve"]
            /\ app' = [app EXCEPT ![client[b]] = "greeted"]
            /\ buf' = [buf EXCEPT ![client[b]] = start[b]]
            /\ UNCHANGED <<client, live>>
       ELSE /\ pc' = [pc EXCEPT ![b] = "accept"]
            /\ client' = [client EXCEPT ![b] = Nobody]
            /\ Silence(start[b])
            /\ UNCHANGED <<app, buf>>
    /\ UNCHANGED <<console, files, process, backlog, link, left>>

\* A mutation: the user at the console is only looked at on accept.
PollUntilClosed(b) ==
    /\ Goto(b, "serve", "leave")
    /\ ~Connected(b)
    /\ UNCHANGED <<console, files, process, worker, apps, live>>

\* A mutation: a poll interval without data ends the connection.
PollOnce(b) ==
    /\ Goto(b, "serve", "leave")
    /\ UNCHANGED <<console, files, process, worker, apps, live>>

\* The loop ends when the app closes the connection, or within one poll
\* interval of its user's leaving the console.
Poll(b) ==
    /\ Goto(b, "serve", "leave")
    /\ ~IsAuthorized(client[b]) \/ ~Connected(b)
    /\ UNCHANGED <<console, files, process, worker, apps, live>>

Leave(b) ==
    /\ Goto(b, "leave", "accept")
    /\ Silence(start[b])
    /\ link' = IF Connected(b) THEN [link EXCEPT ![client[b]] = 0] ELSE link
    /\ client' = [client EXCEPT ![b] = Nobody]
    /\ UNCHANGED <<console, files, process, backlog, app, buf, left>>

Serve(b) == Accept(b) \/ SendBufferDescriptor(b) \/ Poll(b) \/ Leave(b)

-----------------------------------------------------------------------------
(***************************************************************************)
(* The end of a broker.                                                    *)
(***************************************************************************)

\* The sockets of b are closed, those in the backlog with them.
SocketsClose(b) ==
    /\ link' = [u \in Users |-> IF link[u] = start[b] THEN 0 ELSE link[u]]
    /\ client' = [client EXCEPT ![b] = Nobody]
    /\ backlog' = [backlog EXCEPT ![b] = <<>>]

\* Stop: the sockets are closed, the worker ends, the buffer is silenced.
StopServing(b) ==
    /\ pc[b] \in Listening /\ pc' = [pc EXCEPT ![b] = "remove"]
    /\ SocketsClose(b) /\ Silence(start[b])
    /\ UNCHANGED <<console, files, process, app, buf, left>>

\* RemoveOwnedSocket: the file is removed if it is the one b bound.
RemoveOwnedSocket(b) ==
    /\ Goto(b, "remove", "unlock")
    /\ path' = IF path = start[b] THEN 0 ELSE path
    /\ UNCHANGED <<console, lock, starts, process, worker, apps, live>>

\* The installer may have removed the file that b has locked.
Unlock(b) ==
    /\ Goto(b, "unlock", "down")
    /\ lock' = IF lock = b THEN Nobody ELSE lock
    /\ UNCHANGED <<console, path, starts, process, worker, apps, live>>

\* A process that dies leaves its socket file; the lock goes with it.
Crash(b) ==
    /\ pc[b] # "down" /\ pc' = [pc EXCEPT ![b] = "down"]
    /\ SocketsClose(b)
    /\ lock' = IF lock = b THEN Nobody ELSE lock
    /\ UNCHANGED <<console, path, starts, process, app, buf, live, left>>

\* The installer removes the socket and the lock file, then kills the
\* processes; it does not run while a driver is just starting or ending.
InstallerRemovesFiles ==
    /\ \A b \in Brokers : pc[b] \in Listening \union {"down"}
    /\ path' = 0 /\ lock' = Nobody
    /\ doomed' = {b \in Brokers : pc[b] # "down"}
    /\ UNCHANGED <<console, starts, pc, start, seen, worker, apps, live>>

Broker(b) ==
    \/ Start(b) \/ Probe(b) \/ Unlink(b) \/ Bind(b) \/ Listen(b) \/ Serve(b)
    \/ StopServing(b) \/ RemoveOwnedSocket(b) \/ Unlock(b) \/ Crash(b)

-----------------------------------------------------------------------------
(***************************************************************************)
(* The apps.  All calls of an app's producer are made on one queue, and    *)
(* the receipt of the buffer blocks it.                                    *)
(***************************************************************************)

\* The app's end of its connection is gone, one in a backlog with it: the
\* worker would accept it, and find it closed.
HangUp(u) ==
    backlog' = [b \in Brokers |-> RemoveFirst(backlog[b], u)]

\* Producer::Close and what the end of the process does.
Closes(u) ==
    IF buf[u] > 0 THEN Silence(buf[u]) ELSE UNCHANGED live

\* OpenBroker closes what is open and connects.
Connect(u) ==
    /\ app[u] \in {"closed", "open"} /\ Closes(u)
    /\ app' = [app EXCEPT ![u] = "waiting"]
    /\ buf' = [buf EXCEPT ![u] = 0]
    /\ link' = [link EXCEPT ![u] = path]
    /\ \E b \in Brokers :
        /\ pc[b] \in Listening /\ start[b] = path
        /\ backlog' = [backlog EXCEPT ![b] = Append(@, u)]
    /\ UNCHANGED <<console, files, pc, process, client, left>>

\* There is no socket or nobody listens: what was open is closed all the same.
ConnectFails(u) ==
    /\ app[u] = "open" /\ ~Answers(path) /\ Closes(u)
    /\ app' = [app EXCEPT ![u] = "closed"]
    /\ buf' = [buf EXCEPT ![u] = 0] /\ link' = [link EXCEPT ![u] = 0]
    /\ UNCHANGED <<console, files, pc, process, worker, left>>

\* The connection ended before the buffer was sent.
Refused(u) ==
    /\ app[u] = "waiting" /\ link[u] = 0
    /\ app' = [app EXCEPT ![u] = "closed"]
    /\ UNCHANGED <<console, files, pc, process, worker, link, buf, live, left>>

\* The broker that sent the buffer may be gone when the app maps it.
MapBuffer(u) ==
    /\ app[u] = "greeted" /\ app' = [app EXCEPT ![u] = "open"]
    /\ Silence(buf[u])
    /\ UNCHANGED <<console, files, pc, process, worker, link, buf, left>>

\* A write renews the lease and sets the active flag.  Nothing tells the app
\* that its connection has ended.
Write(u) ==
    /\ app[u] = "open" /\ live' = [live EXCEPT ![buf[u]] = TRUE]
    /\ UNCHANGED <<console, files, pc, process, worker, apps>>

Stop(u) ==
    /\ app[u] = "open" /\ Silence(buf[u])
    /\ UNCHANGED <<console, files, pc, process, worker, apps>>

\* The app dies, or quits.
AppEnds(u) ==
    /\ app[u] # "closed" /\ app' = [app EXCEPT ![u] = "closed"]
    /\ buf' = [buf EXCEPT ![u] = 0] /\ link' = [link EXCEPT ![u] = 0]
    /\ HangUp(u)
    /\ UNCHANGED <<console, files, pc, process, client, live, left>>

App(u) ==
    \/ Connect(u) \/ ConnectFails(u) \/ Refused(u) \/ MapBuffer(u)
    \/ Write(u) \/ Stop(u) \/ AppEnds(u)
-----------------------------------------------------------------------------
\* Login, logout or a fast user switch.
SwitchUser(u) ==
    /\ console # u /\ console' = u
    /\ left' = [v \in Users |-> left[v] \/ v # u]
    /\ UNCHANGED <<files, pc, process, worker, app, link, buf, live>>

LeaseExpires(i) ==
    /\ live[i] /\ Silence(i)
    /\ UNCHANGED <<console, files, pc, process, worker, apps>>

Next ==
    \/ \E b \in Brokers : Broker(b)
    \/ InstallerRemovesFiles
    \/ \E u \in Users : App(u)
    \/ \E u \in Users \union {Nobody} : SwitchUser(u)
    \/ \E i \in Starts : LeaseExpires(i)

Spec == Init /\ [][Next]_vars

\* A worker thread keeps running: its poll returns at the latest after
\* 250 ms.  An app's blocked receipt returns when there is something to
\* receive or the connection ends.
FairSpec ==
    /\ Spec
    /\ \A b \in Brokers : WF_vars(Serve(b))
    /\ \A u \in Users : WF_vars(MapBuffer(u)) /\ WF_vars(Refused(u))

-----------------------------------------------------------------------------
(***************************************************************************)
(* Properties.                                                             *)
(***************************************************************************)

\* The lock, the probe, and the check of what is removed: whatever crashes,
\* overlapping starts and late clean-ups there are, a broker that serves is
\* the one the path leads to, unless the installer is about to kill it.
PathLeadsToServer ==
    \A b \in Brokers \ doomed : pc[b] \in Listening => path = start[b]

\* The brokers' places, sockets and buffers fit together; the types.
BrokerInvariant == TypeOK /\ PathLeadsToServer

\* An app that waits for the buffer has its queue blocked, its audio with
\* it: the app of the user who stays at the console does not wait for ever,
\* not behind a silent app of an earlier user either.
ConsoleUserIsAnswered ==
    \A u \in Users : ~<>[](app[u] = "waiting" /\ console = u)

\* u writes to the buffer of the broker that serves it, and has been at the
\* console since it was accepted.
LiveAtConsole(u) ==
    /\ app[u] = "open" /\ link[u] = buf[u] /\ ~left[u]
    /\ live[buf[u]]

\* The broker silences its buffer when a connection comes and when one goes,
\* and looks at the console on its own time.  While it runs it never silences
\* an app that it serves, of a user who has stayed at the console.
ServedAppIsNotSilenced ==
    [][\A u \in Users, b \in Brokers :
        /\ LiveAtConsole(u) /\ start[b] = buf[u]
        /\ pc'[b] # pc[b] /\ pc'[b] \in Listening
        => live'[buf[u]]]_vars

\* "Revoked connection must be muted": without a client the buffer is silent.
RevokedIsMuted ==
    \A b \in Brokers : pc[b] = "accept" => ~live[start[b]]
=============================================================================
