----------------------------- MODULE BridgeLink -----------------------------
(***************************************************************************)
(* The named pipe between the application and Navisworks: on one side      *)
(* main/bridgeClient.ts (one connection for each call, a timeout, an       *)
(* abort), on the other BridgeServer.cs, BridgeFrameProtocol.cs,           *)
(* UiDispatcher.cs, BridgeEndpointRegistry.cs and NavisworksMcpPlugin.cs.  *)
(*                                                                         *)
(* One loop accepts connections, at most MaxPipes at once; each is handled *)
(* by a worker, and every call runs on the user interface thread of        *)
(* Navisworks, which takes what is posted to it in order.  Nothing takes a *)
(* posted call back: a call whose client has left runs all the same.  A    *)
(* connection is named by its call.                                        *)
(***************************************************************************)
EXTENDS Naturals, Sequences, FiniteSets

CONSTANTS Call, MaxPipes   \* instances of the pipe the server may have

VARIABLES
  client,   \* NamedPipeBridgeTransport.exchange
  conn,     \* the worker of a connection
  reply,    \* what the worker answers
  acceptor, \* RunAsync: "creating", "waiting", "delayed" or "stopped"
  server,   \* "starting", "up", "disposing", "down"
  posted,   \* what waits for the user interface thread
  ran,      \* auxiliary: calls that ran there
  endpoint  \* the endpoint file is there

linkVars == <<client, conn, reply, acceptor, server, posted, ran, endpoint>>

Busy == {"open", "posted", "answering"}
Workers == {c \in Call : conn[c] \in Busy}
Ended == {"answered", "refused", "unsent", "unsure", "aborted"}

LinkInit ==
  /\ client = [c \in Call |-> "idle"] /\ conn = [c \in Call |-> "none"]
  /\ reply = [c \in Call |-> "none"]
  /\ acceptor = "creating" /\ server = "starting"
  /\ posted = <<>> /\ ran = {} /\ endpoint = FALSE

Cancelled == server \in {"disposing", "down"}

----------------------------------------------------------------------------
(* The client *)

ClientIs(c, state) == client' = [client EXCEPT ![c] = state]

CallStarts(c) ==
  /\ client[c] = "idle" /\ endpoint /\ ClientIs(c, "connecting")
  /\ UNCHANGED <<conn, reply, acceptor, server, posted, ran, endpoint>>

\* The event connect: the frame is given to the socket.
Connected(c) ==
  /\ client[c] = "connecting" /\ conn[c] = "open" /\ ClientIs(c, "writing")
  /\ UNCHANGED <<conn, reply, acceptor, server, posted, ran, endpoint>>

\* The socket took the frame.
Flushed(c) ==
  /\ client[c] = "writing" /\ ClientIs(c, "waiting")
  /\ UNCHANGED <<conn, reply, acceptor, server, posted, ran, endpoint>>

\* Slip: the call counts as sent once it is written whole.
DoubtOnceFlushed(c) == client[c] = "waiting"

\* requestMayHaveBeenSent
Doubt(c) == client[c] \in {"writing", "waiting"}

\* The timeout, an error of the socket, the end of the connection: the error
\* says whether the call may have run.
Gives(c) ==
  /\ client[c] \in {"connecting", "writing", "waiting"}
  /\ ClientIs(c, IF Doubt(c) THEN "unsure" ELSE "unsent")
  /\ UNCHANGED <<conn, reply, acceptor, server, posted, ran, endpoint>>

AbortCall(c) ==
  /\ client[c] \in {"connecting", "writing", "waiting"} /\ ClientIs(c, "aborted")
  /\ UNCHANGED <<conn, reply, acceptor, server, posted, ran, endpoint>>

----------------------------------------------------------------------------
(* The server *)

\* RunAsync: a new instance of the pipe, or a delay when there are too many.
CreatePipe ==
  /\ acceptor = "creating"
  /\ acceptor' = IF Cancelled THEN "stopped"
                 ELSE IF Cardinality(Workers) < MaxPipes THEN "waiting" ELSE "delayed"
  /\ UNCHANGED <<client, conn, reply, server, posted, ran, endpoint>>

Delayed ==
  /\ acceptor = "delayed" /\ acceptor' = IF Cancelled THEN "stopped" ELSE "creating"
  /\ UNCHANGED <<client, conn, reply, server, posted, ran, endpoint>>

\* WaitForConnectionAsync returns: a worker gets the connection.
Accept(c) ==
  /\ acceptor = "waiting" /\ client[c] = "connecting" /\ conn[c] = "none"
  /\ ~Cancelled /\ conn' = [conn EXCEPT ![c] = "open"] /\ acceptor' = "creating"
  /\ UNCHANGED <<client, reply, server, posted, ran, endpoint>>

\* The wait for a connection is cancelled with the server.
AcceptCancelled ==
  /\ acceptor = "waiting" /\ Cancelled /\ acceptor' = "stopped"
  /\ UNCHANGED <<client, conn, reply, server, posted, ran, endpoint>>

\* ReadJsonAsync and ProcessRequestAsync: a whole frame is posted.  What the
\* client gave to the socket may arrive although the client has left.
Read(c) ==
  /\ conn[c] = "open" /\ reply[c] = "none"
  /\ client[c] \in {"writing", "waiting", "unsure", "aborted"} /\ ~Cancelled
  /\ conn' = [conn EXCEPT ![c] = "posted"] /\ posted' = Append(posted, c)
  /\ UNCHANGED <<client, reply, acceptor, server, ran, endpoint>>

\* ValidateRequest, or no tool of that name: answered without the thread.
Refuses(c) ==
  /\ conn[c] = "open" /\ reply[c] = "none" /\ client[c] \in {"writing", "waiting"} /\ ~Cancelled
  /\ conn' = [conn EXCEPT ![c] = "answering"] /\ reply' = [reply EXCEPT ![c] = "failure"]
  /\ UNCHANGED <<client, acceptor, server, posted, ran, endpoint>>

WorkerGone(c) == conn' = [conn EXCEPT ![c] = "closed"]

\* No (further) frame comes, or the pipe was disposed: the worker closes it.
Hangup(c) ==
  /\ conn[c] = "open" /\ (client[c] \in Ended \/ Cancelled) /\ WorkerGone(c)
  /\ UNCHANGED <<client, reply, acceptor, server, posted, ran, endpoint>>

\* A posted call runs, unless Dispose keeps the thread.
Runs(what) ==
  /\ posted # <<>> /\ server # "disposing"
  /\ posted' = Tail(posted) /\ ran' = ran \cup {Head(posted)}
  /\ reply' = [reply EXCEPT ![Head(posted)] = what]
  /\ conn' = [conn EXCEPT ![Head(posted)] = "answering"]
  /\ UNCHANGED <<client, acceptor, server, endpoint>>

\* WriteJsonAsync refuses a frame over the limit; BuildDegradedFailure takes
\* its place.
Frame(c) == IF reply[c] = "result" THEN "answered" ELSE "refused"

\* Slip: the worker of a client that left keeps its instance of the pipe.
WriteLeavingPipe(c) ==
  /\ conn[c] = "answering"
  /\ IF client[c] \in {"writing", "waiting"} /\ ~Cancelled
     THEN /\ ClientIs(c, Frame(c))
          /\ conn' = [conn EXCEPT ![c] = "open"]
     ELSE UNCHANGED <<client, conn>>
  /\ UNCHANGED <<reply, acceptor, server, posted, ran, endpoint>>

\* WriteJsonAsync.  A result too large for a frame is replaced by a failure;
\* without a client the second write fails too and the worker ends.
Write(c) ==
  /\ conn[c] = "answering"
  /\ IF client[c] \in {"writing", "waiting"} /\ ~Cancelled
     THEN /\ ClientIs(c, Frame(c))
          /\ conn' = [conn EXCEPT ![c] = "open"]
     ELSE WorkerGone(c) /\ UNCHANGED client
  /\ UNCHANGED <<reply, acceptor, server, posted, ran, endpoint>>

\* Start: the endpoint is announced once the first instance waits.
Started ==
  /\ server = "starting" /\ acceptor # "creating"
  /\ server' = "up" /\ endpoint' = TRUE
  /\ UNCHANGED <<client, conn, reply, acceptor, posted, ran>>

\* Dispose, on the user interface thread: what is open is closed, and what
\* does not end within a few seconds is left to itself.
Dispose ==
  /\ server \in {"starting", "up"} /\ server' = "disposing"
  /\ UNCHANGED <<client, conn, reply, acceptor, posted, ran, endpoint>>

Disposed ==
  /\ server = "disposing" /\ server' = "down" /\ endpoint' = FALSE
  /\ UNCHANGED <<client, conn, reply, acceptor, posted, ran>>

----------------------------------------------------------------------------

CallStep(c) == Connected(c) \/ Flushed(c) \/ Gives(c)
WorkerStep(c) == Read(c) \/ Refuses(c) \/ Hangup(c) \/ Write(c)
AcceptorStep == CreatePipe \/ Delayed \/ AcceptCancelled \/ Started \/ \E c \in Call : Accept(c)
ThreadStep == \E what \in {"result", "failure", "too large"} : Runs(what)

LinkNext ==
  \/ \E c \in Call : CallStarts(c) \/ AbortCall(c) \/ CallStep(c) \/ WorkerStep(c)
  \/ AcceptorStep \/ ThreadStep \/ Dispose \/ Disposed

LinkSpec == LinkInit /\ [][LinkNext]_linkVars

----------------------------------------------------------------------------
(* Properties *)

\* An error without doubt is true: that call has not run and never will.  The
\* ledger writes such a call off, so one that ran would be run again.
NoDoubtNoRun ==
  \A c \in Call : client[c] = "unsent" => c \notin ran /\ conn[c] # "posted"

\* An answer is true: a result is that of a call which ran, and an error response
\* is not given to one whose result could be written.
AnswersAreTrue ==
  \A c \in Call :
    /\ client[c] = "answered" => c \in ran /\ reply[c] = "result"
    /\ client[c] = "refused" => reply[c] \in {"failure", "too large"}

\* No call runs twice, and none that has run waits to run again.
RunsOnce ==
  \A i \in 1 .. Len(posted) :
    posted[i] \notin ran /\ \A j \in 1 .. Len(posted) : posted[j] = posted[i] => j = i

\* What the caller is told is what happened in Navisworks, once at most.
RunAsReported == NoDoubtNoRun /\ AnswersAreTrue /\ RunsOnce

\* What the server comes back to, however many clients leave, and what it may
\* not do for ever after Dispose: keep a worker, its loop or the endpoint.
Listens == acceptor = "waiting" \/ Cancelled
Lingers == Cancelled /\ (Workers # {} \/ acceptor # "stopped" \/ endpoint)

\* The inductive invariant behind NoDoubtNoRun: while nothing of a call has been
\* given to the socket, no worker holds a request of it, and none waits or ran
\* on the thread of Navisworks.
Quiet(c) == client[c] \in {"idle", "connecting", "unsent"}

Untouched(c) ==
  /\ conn[c] \in {"none", "open", "closed"} /\ c \notin ran
  /\ \A i \in 1 .. Len(posted) : posted[i] # c

LinkInv ==
  /\ DOMAIN client = Call /\ DOMAIN conn = Call /\ posted \in Seq(Call)
  /\ \A c \in Call : Quiet(c) => Untouched(c)

\* The inductive invariant behind the rest of RunAsReported: what waits for the
\* thread is what the workers have posted, each once and not yet answered, and
\* what ran has an answer, so that no second frame of it is read.
OnceInv ==
  /\ reply \in [Call -> {"none", "result", "failure", "too large"}]
  /\ \A i \in 1 .. Len(posted) : conn[posted[i]] = "posted"
  /\ \A i, j \in 1 .. Len(posted) : posted[i] = posted[j] => i = j
  /\ \A c \in Call :
       /\ conn[c] = "posted" => reply[c] = "none"
       /\ conn[c] = "answering" => reply[c] # "none"
       /\ c \in ran => reply[c] # "none"
       /\ reply[c] \in {"result", "too large"} => c \in ran
  /\ AnswersAreTrue
=============================================================================
