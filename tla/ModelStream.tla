---------------------------- MODULE ModelStream ----------------------------
(***************************************************************************)
(* One request to a model backend: main/model/openaiProvider.ts,           *)
(* ollamaProvider.ts, providerUtils.ts and usage.ts.                       *)
(*                                                                         *)
(* The answer is a stream of lines that the network cuts anywhere.  A line *)
(* is three pieces: a head that is no JSON yet, the rest of its text and   *)
(* its newline.  The arguments of a call are the sequence of their parts;  *)
(* only the whole sequence is JSON.                                        *)
(***************************************************************************)
EXTENDS Integers, Sequences

CONSTANT Body \* [wire, lines]: what the server would send

VARIABLES
  asked,      \* "chat", "list" (listModels), "title" (summarizeTitle) or "test"
  body,       \* the body of this request
  arrived,    \* pieces of it the client has read
  answer,     \* [content, calls, usage]: what the lines handled so far make
  aborted,    \* who aborted the linked signal
  completing, \* "headers", "errorBody", "text", "stream", "cancelling", "ended"
  thrown,     \* the error being unwound
  outcome

streamVars == <<asked, body, arrived, answer, aborted, completing, thrown, outcome>>

Call == {1, 2}
Whole(c) == <<<<c, 1>>, <<c, 2>>>>
NoAnswer == [content |-> <<>>, calls |-> <<>>, usage |-> 0]
Invalid == "MODEL_INVALID_RESPONSE"

StreamInit ==
  /\ asked \in {"chat", "list", "title", "test"}
  /\ body \in Body
  /\ arrived = 0 /\ answer = NoAnswer /\ aborted = {}
  /\ completing = "headers" /\ thrown = "none" /\ outcome = "none"

----------------------------------------------------------------------------
(* Lines *)

\* Slip: a fragment is added to the last call there is.
MergeLast(calls, l) ==
  IF calls = <<>> THEN <<[index |-> l.index, id |-> l.id, args |-> l.parts]>>
  ELSE IF \E i \in DOMAIN calls : calls[i].index = l.index
  THEN [calls EXCEPT ![Len(calls)].id = IF l.id = 0 THEN @ ELSE l.id,
                     ![Len(calls)].args = @ \o l.parts]
  ELSE Append(calls, [index |-> l.index, id |-> l.id, args |-> l.parts])

\* mergedCalls: fragments of one index are one call.
Merge(calls, l) ==
  IF \E i \in DOMAIN calls : calls[i].index = l.index
  THEN [i \in DOMAIN calls |->
         IF calls[i].index = l.index
         THEN [calls[i] EXCEPT !.id = IF l.id = 0 THEN @ ELSE l.id, !.args = @ \o l.parts]
         ELSE calls[i]]
  ELSE Append(calls, [index |-> l.index, id |-> l.id, args |-> l.parts])

\* Ollama sends each call in one piece.
Calls(wire, a, l) ==
  IF wire = "openai" THEN Merge(a.calls, l)
  ELSE Append(a.calls, [index |-> l.index, id |-> l.id, args |-> l.parts])

\* A line that is no data, [DONE], and a chunk that carries an error, add nothing.
Handle(wire, a, l) ==
  CASE l.is \in {"text", "thinking"} -> [a EXCEPT !.content = Append(@, l)]
    [] l.is = "call" -> [a EXCEPT !.calls = Calls(wire, a, l)]
    [] l.is = "usage" -> [a EXCEPT !.usage = l.usage]
    [] OTHER -> a

HandleAll(wire, a, lines) ==
  LET after[n \in 0..Len(lines)] == IF n = 0 THEN a ELSE Handle(wire, after[n - 1], lines[n])
  IN after[Len(lines)]

\* parseToolArguments: nothing is {}, and the JSON of any call is JSON.
Parses(args) == args \in {<<>>} \cup {Whole(c) : c \in Call}

\* What a line throws: JSON.parse and, for Ollama, the arguments.
Unreadable(l) ==
  \/ l.is = "junk"
  \/ body.wire = "ollama" /\ l.is = "call" /\ ~Parses(l.parts)

----------------------------------------------------------------------------
(* Ends *)

\* normalizeFetchError
Normalized(e) == IF "user" \in aborted THEN "AbortError"
                 ELSE IF "timer" \in aborted THEN "MODEL_TIMEOUT" ELSE e

\* testConnection reports every other error as a message.
Reported(e) == IF asked = "test" /\ Normalized(e) # "AbortError" THEN "unreachable" ELSE Normalized(e)

Settles(o) == /\ completing' = "ended" /\ outcome' = o
              /\ UNCHANGED <<asked, body, arrived, answer, aborted, thrown>>

Throws(e) == Settles(Reported(e))

\* An error while the stream is read: an aborted reader is cancelled first.
Unwinds(e) ==
  IF aborted = {} THEN Throws(e)
  ELSE /\ completing' = "cancelling" /\ thrown' = e
       /\ UNCHANGED <<asked, body, arrived, answer, aborted, outcome>>

Cancelled == completing = "cancelling" /\ Throws(thrown)

\* linkAbortSignals: the run's signal and the timeout of the whole request.
UserAborts == /\ completing # "ended" /\ "user" \notin aborted
              /\ aborted' = aborted \cup {"user"}
              /\ UNCHANGED <<asked, body, arrived, answer, completing, thrown, outcome>>
TimerFires == /\ completing # "ended" /\ "timer" \notin aborted
              /\ aborted' = aborted \cup {"timer"}
              /\ UNCHANGED <<asked, body, arrived, answer, completing, thrown, outcome>>

\* fetch, text and readStreamChunk reject as soon as the linked signal aborts.
Rejects == /\ aborted # {} /\ completing \in {"headers", "errorBody", "text", "stream"}
           /\ IF completing = "stream" THEN Unwinds("AbortError") ELSE Throws("AbortError")

----------------------------------------------------------------------------
(* The exchange *)

Goes(c) == /\ completing' = c
           /\ UNCHANGED <<asked, body, arrived, answer, aborted, thrown, outcome>>

\* complete: a good status with a body, a bad status, a good one without a body.
ChatHeaders == Goes("stream") \/ Goes("errorBody") \/ Throws(Invalid)

Headers ==
  /\ completing = "headers" /\ aborted = {}
  /\ IF asked = "chat" THEN ChatHeaders ELSE Goes("text")

\* testConnection: the list may lack the model.
Tested == Settles("ok") \/ Settles("unreachable")

\* listModels: a body of another form is no list.
Listed == Throws(Invalid) \/ (asked = "test" /\ Tested) \/ (asked = "list" /\ Settles("ok"))

\* summarizeTitle: a body without a message, or an empty title.
Titled == Throws(Invalid) \/ Settles("ok")

\* requestJson: the whole body, then the status and the JSON of it.
Text ==
  /\ completing = "text" /\ aborted = {}
  /\ \/ Throws("MODEL_HTTP_ERROR") \/ Throws(Invalid)
     \/ IF asked = "title" THEN Titled ELSE Listed

ErrorBody == completing = "errorBody" /\ aborted = {} /\ Throws("MODEL_HTTP_ERROR")

NetworkFails ==
  /\ aborted = {} /\ completing \in {"headers", "errorBody", "text", "stream"}
  /\ Throws("MODEL_IO")

Reading == completing = "stream" /\ aborted = {}

\* The next k pieces arrive; the lines they complete are handled.
Chunk(k) ==
  LET new == SubSeq(body.lines, arrived \div 3 + 1, (arrived + k) \div 3) IN
  /\ Reading /\ arrived + k <= 3 * Len(body.lines)
  /\ IF \E i \in DOMAIN new : Unreadable(new[i])
     THEN Throws(Invalid)
     ELSE /\ arrived' = arrived + k /\ answer' = HandleAll(body.wire, answer, new)
          /\ UNCHANGED <<asked, body, aborted, completing, thrown, outcome>>

\* What is left in the buffer when the stream ends: nothing, a head, a line
\* that lacks its newline.
Rest == IF arrived % 3 = 2 THEN <<body.lines[arrived \div 3 + 1]>> ELSE <<>>

HeadIsNoData == arrived % 3 = 1 /\ body.wire = "openai" \* the cut is in `data:`

\* The server ends the stream, or the connection is closed: the reader cannot tell.
StreamEnds ==
  /\ Reading
  /\ LET a == HandleAll(body.wire, answer, Rest) IN
     \/ /\ arrived % 3 = 1 \/ (\E i \in DOMAIN Rest : Unreadable(Rest[i]))
                           \/ (\E i \in DOMAIN a.calls : ~Parses(a.calls[i].args))
        /\ Throws(Invalid)
     \/ /\ arrived % 3 # 1 \/ HeadIsNoData
        /\ \A i \in DOMAIN Rest : ~Unreadable(Rest[i])
        /\ \A i \in DOMAIN a.calls : Parses(a.calls[i].args)
        /\ answer' = a /\ completing' = "ended" /\ outcome' = "ok"
        /\ UNCHANGED <<asked, body, arrived, aborted, thrown>>

StreamNext ==
  \/ UserAborts \/ TimerFires \/ Rejects \/ Cancelled
  \/ Headers \/ Text \/ ErrorBody \/ NetworkFails \/ StreamEnds
  \/ \E k \in 1..(3 * Len(body.lines)) : Chunk(k)

StreamSpec == StreamInit /\ [][StreamNext]_streamVars

----------------------------------------------------------------------------

\* What the caller gets is what the arrived text says, wherever the network cut it.
AnswerIsWhatArrived ==
  outcome = "ok" /\ asked = "chat" =>
    answer = HandleAll(body.wire, NoAnswer, SubSeq(body.lines, 1, (arrived + 1) \div 3))

\* A tool is called with the arguments the model wrote for that call, or, when
\* the stream broke off before the first of them, with none; never with a part
\* of them or with those of another call.
ArgumentsAreTheCalls ==
  outcome = "ok" => \A i \in DOMAIN answer.calls :
                      answer.calls[i].args \in {<<>>, Whole(answer.calls[i].id)}

\* A request the user has aborted ends as aborted: not as a timeout, not as a
\* failure of the model and not as an answer.
AbortIsAbort == outcome # "none" /\ "user" \in aborted => outcome = "AbortError"

AnswerIsTheBody == AnswerIsWhatArrived /\ ArgumentsAreTheCalls /\ AbortIsAbort

\* What a backend that keeps to its protocol sends: the fragments of one index
\* are of one call, which its first fragment names, and Ollama names every call.
IsCall(b, i) == b.lines[i].is = "call"
Indexes(b) == {b.lines[i].index : i \in {j \in DOMAIN b.lines : IsCall(b, j)}}
PartsOf(c) == {c} \X {1, 2}

CallsInOrder(b) ==
  \E owner \in [Indexes(b) -> Call] : \A i \in DOMAIN b.lines : IsCall(b, i) =>
    LET l == b.lines[i] IN
    /\ l.id \in {0, owner[l.index]} /\ l.parts \in Seq(PartsOf(owner[l.index]))
    /\ l.id = 0 => /\ b.wire = "openai"
                   /\ \E j \in 1..(i - 1) : IsCall(b, j) /\ b.lines[j].index = l.index

WellFormed(b) == b.lines \in Seq({b.lines[i] : i \in DOMAIN b.lines}) /\ CallsInOrder(b)

\* The inductive invariant behind AnswerIsTheBody.  Only a chat reads a stream; it
\* has handled the lines that have arrived whole, and once it ends well the one
\* that lacked its newline, and then every call had arguments that parse.
AfterLines(n) == HandleAll(body.wire, NoAnswer, SubSeq(body.lines, 1, n))
EndsWell == outcome = "ok" /\ asked = "chat"

StreamInv ==
  /\ body \in Body /\ arrived \in 0..(3 * Len(body.lines))
  /\ completing # "ended" => outcome = "none"
  /\ asked = "chat" => completing # "text"
  /\ asked # "chat" => completing \notin {"stream", "cancelling"} /\ answer = NoAnswer
  /\ completing = "cancelling" => thrown # "ok"
  /\ asked = "chat" => answer = AfterLines((IF EndsWell THEN arrived + 1 ELSE arrived) \div 3)
  /\ EndsWell => \A i \in DOMAIN answer.calls : Parses(answer.calls[i].args)
  /\ AbortIsAbort

\* What every request comes to, however silent the server is.
RequestOver == completing = "ended"
============================================================================
