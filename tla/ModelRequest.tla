---------------------------- MODULE ModelRequest ----------------------------
(***************************************************************************)
(* What a run sends to the model: main/agent/contextManager.ts,            *)
(* contextFrames.ts, tokenBudget.ts, toolResultDelivery.ts,                *)
(* internalToolExecutor.ts, main/toolOutputStore.ts and the rounds,        *)
(* #deliverToolResult and #compactMessages of main/agentRuntime.ts.        *)
(*                                                                         *)
(* One run.  A frame has a size and the set of the moments it stands for,  *)
(* in the order they happened: a moment is a message of the history, the   *)
(* turn of the user, or a round of tool calls.  A result is a sequence of  *)
(* items of size 1.  Budget is what the system prompt, the blocks that     *)
(* stay and the tools leave of the window; the block that tells of the     *)
(* task changes its size.                                                  *)
(***************************************************************************)
EXTENDS Naturals, Sequences, FiniteSets, SequencesExt, Functions

CONSTANTS
  Budget, Trigger, \* the budget, and the estimate that makes a run compact
  Keep, MinFrames, \* keepRecentFrames, COMPACT_MIN_COMPRESSIBLE_FRAMES
  Inline,          \* TOOL_OUTPUT_MAX_INLINE_BYTES, and the limit of a page
  MaxRounds,       \* maxToolRounds
  MaxHistory, Lengths, SummarySizes, Blocks, \* bounds: what may be how long
  MaxCalls(_),     \* the calls of a round
  CallIds(_, _)    \* the ids the provider may give to call c of round n

VARIABLES
  frames, protectedStart, \* ContextManager; protectedStart frames are history
  blocks,                 \* the size of the task's block
  spent, round,           \* passes through the loop, and those that called tools
  running,                \* "compact", "assemble", "model", "tools" or "over"
  request,                \* the frames the model is asked with
  calls, results,         \* of this round: the ids, the results so far
  outputs,                \* the store: by ref, a result and whether it is a list
  proactiveRefs,          \* ref of each call id
  read, toldAll,          \* auxiliary: what the model has read from the start of each
                          \* result on, and of which it was told that there is no more
  last                    \* auxiliary: what the request grew by last, beside history

requestVars == <<frames, protectedStart, blocks, spent, round, running, request, calls, results,
                 outputs, proactiveRefs, read, toldAll, last>>

store == <<outputs, proactiveRefs, read, toldAll>>

\* The sizes of the first n of fs together.
Sums(fs) ==
  LET sum[n \in 0..Len(fs)] == IF n = 0 THEN 0 ELSE sum[n - 1] + fs[n].size
  IN sum
SizeOf(fs) == Sums(fs)[Len(fs)]
Protected == SubSeq(frames, protectedStart + 1, Len(frames))
Turn == MaxHistory + 1 \* the moment of the user's turn

RequestInit ==
  /\ \E h \in 0..MaxHistory, n \in Lengths :
       /\ frames = [i \in 1..(h + 1) |-> [size |-> IF i > h THEN n ELSE 1,
                                          holds |-> {MaxHistory - h + i}]]
       /\ protectedStart = h
  /\ blocks \in Blocks /\ last = "turn"
  /\ spent = 0 /\ round = 0 /\ running = "compact"
  /\ request = <<>> /\ calls = <<>> /\ results = <<>>
  /\ outputs = <<>> /\ proactiveRefs = <<>> /\ read = <<>> /\ toldAll = {}

----------------------------------------------------------------------------
(* Compaction: tryCompact *)

\* Rounds of this run if there are enough of them, else the history.
InFlight == Len(frames) - protectedStart - 1 - Keep >= MinFrames
From == IF InFlight THEN protectedStart + 1 ELSE 0
Count == (IF InFlight THEN Len(frames) - protectedStart - 1 ELSE protectedStart) - Keep

\* Slip: the compacted history does not move the start of the turn.
StartUnmoved == protectedStart

StartAfter == IF From = 0 THEN protectedStart - (Count - 1) ELSE protectedStart

\* What the summarizer answers may be longer than what it was given.
Summary(old, n) == [size |-> n, holds |-> UNION {old[i].holds : i \in DOMAIN old}]

Compacts(n) ==
  LET old == SubSeq(frames, From + 1, From + Count) IN
  /\ Count >= MinFrames
  /\ frames' = SubSeq(frames, 1, From)
                 \o <<Summary(old, n)>>
                 \o SubSeq(frames, From + Count + 1, Len(frames))
  /\ protectedStart' = StartAfter
  /\ last' = IF InFlight /\ n > SizeOf(old) THEN "summary" ELSE last

\* The first check estimates; the provider may report whatever usage it likes.
Pressed == spent > 0 \/ blocks + SizeOf(frames) >= Trigger

\* Nothing to compact, no pressure, or a summarizer that fails or says nothing.
Compact ==
  /\ running = "compact" /\ running' = "assemble"
  /\ \/ Pressed /\ \E n \in SummarySizes : Compacts(n)
     \/ UNCHANGED <<frames, protectedStart, last>>
  /\ UNCHANGED <<blocks, spent, round, request, calls, results, store>>

----------------------------------------------------------------------------
(* The request *)

\* assembleBudgetedFrames drops history from its old end until the rest fits.
Fits(fs) == blocks + SizeOf(fs) <= Budget
Dropped == CHOOSE d \in 0..protectedStart :
             /\ d = protectedStart \/ Fits(SubSeq(frames, d + 1, Len(frames)))
             /\ \A e \in 0..(d - 1) : ~Fits(SubSeq(frames, e + 1, Len(frames)))

Assemble ==
  /\ running = "assemble" /\ running' = "model"
  /\ request' = SubSeq(frames, Dropped + 1, Len(frames))
  /\ UNCHANGED <<frames, protectedStart, blocks, spent, round, calls, results, store, last>>

Ends == /\ running' = "over" /\ request' = <<>> /\ calls' = <<>> /\ results' = <<>>
        /\ UNCHANGED <<frames, protectedStart, blocks, spent, round, store, last>>

\* refreshTaskContext: the task's block is written anew.
Refreshes(b) == blocks' = b /\ last' = IF b > blocks THEN "block" ELSE last

\* The next pass through the loop, if one is left.
LoopsOn == /\ spent' = spent + 1
           /\ running' = IF spent' = MaxRounds THEN "over" ELSE "compact"

\* Text ends the run, and so does an answer without any (MODEL_EMPTY_RESPONSE).
Answers == running = "model" /\ Ends

\* Text the completion gate does not take for the end of the task: the model is
\* asked again, with the task's new state.
GoesOn(b) ==
  /\ running = "model" /\ LoopsOn /\ Refreshes(b) /\ request' = <<>>
  /\ UNCHANGED <<frames, protectedStart, round, calls, results, store>>

\* Calls open a round, maybe of a task that was just made or taken up again.
Calls(b, ids) ==
  /\ running = "model" /\ running' = "tools"
  /\ round' = round + 1 /\ Refreshes(b)
  /\ calls' = ids /\ request' = <<>>
  /\ UNCHANGED <<frames, protectedStart, spent, results, store>>

\* An abort, or an error of the provider.
Fails == running \in {"compact", "model", "tools"} /\ Ends

----------------------------------------------------------------------------
(* Delivery of a result: #deliverToolResult *)

Call == calls[Len(results) + 1]
InTools == running = "tools" /\ Len(results) < Len(calls)

\* fitsProjectedToolExchange: the turn, its rounds, this round so far and the result.
Floor(r) == blocks + SizeOf(Protected) + 1 + SizeOf(results) + Len(r)
FitsInline(r) == Floor(r) <= Budget

\* A result in the exchange: what the model gets of the tool's result, or a note
\* of the program in its place.
Full(r) == [id |-> Call, kind |-> "full", of |-> r, ref |-> 0, size |-> Len(r)]
Paged(r, ref) == [id |-> Call, kind |-> "pointer", of |-> r, ref |-> ref, size |-> 1]
Told(kind, n) == [id |-> Call, kind |-> kind, of |-> <<>>, ref |-> 0, size |-> n]

RefOf == IF Call \in DOMAIN proactiveRefs THEN proactiveRefs[Call] ELSE 0

Stores(r, list) ==
  /\ outputs' = Append(outputs, [items |-> r, list |-> list])
  /\ read' = Append(read, <<>>) /\ UNCHANGED toldAll
  /\ proactiveRefs' = [i \in DOMAIN proactiveRefs \cup {Call} |->
                        IF i = Call THEN Len(outputs) + 1 ELSE proactiveRefs[i]]

Result(x) == /\ results' = Append(results, x) /\ last' = x.kind
             /\ UNCHANGED <<frames, protectedStart, blocks, spent, round, running,
                            request, calls>>

\* It fits: a large one is stored besides, if that works.
DeliversInline(r, list) ==
  /\ FitsInline(r) /\ Result(Full(r))
  /\ (RefOf = 0 /\ Len(r) > Inline /\ Stores(r, list)) \/ UNCHANGED store

DeliversPaged(r, list) ==
  /\ ~FitsInline(r)
  /\ \/ RefOf # 0 /\ UNCHANGED store /\ Result(Paged(r, RefOf))
     \/ RefOf = 0 /\ Stores(r, list) /\ Result(Paged(r, Len(outputs) + 1))

\* The store throws, and so does the run.
StoreFails(r) == ~FitsInline(r) /\ RefOf = 0 /\ Ends

Fresh(n) == [i \in 1..n |-> <<round, Len(results) + 1, i>>]

Tool(n, list) ==
  InTools /\ (DeliversInline(Fresh(n), list) \/ DeliversPaged(Fresh(n), list)
              \/ StoreFails(Fresh(n)))

\* What the program itself answers a call with is not held against the budget: a
\* tool that failed, a call the guard refuses, a question, a skill, a failed read.
Notes(kind, n) == InTools /\ Result(Told(kind, n)) /\ UNCHANGED store

----------------------------------------------------------------------------
(* read_tool_result *)

\* The items from offset on, limit of them at most; what is no list comes whole.
Page(ref, offset, limit) ==
  LET items == outputs[ref].items IN
  IF ~outputs[ref].list THEN items
  ELSE SubSeq(items, offset + 1,
              IF offset + limit < Len(items) THEN offset + limit ELSE Len(items))

\* Slip: the last page ends one element too early.
HasMoreThanOne(ref, offset, limit) ==
  outputs[ref].list /\ offset + Len(Page(ref, offset, limit)) + 1 < Len(outputs[ref].items)

HasMore(ref, offset, limit) ==
  outputs[ref].list /\ offset + Len(Page(ref, offset, limit)) < Len(outputs[ref].items)

\* The page that continues what the model has read.
GoesOnFrom(ref, offset) == ~outputs[ref].list \/ offset = Len(read[ref])

\* The page is put in full, whatever its size (InternalToolExecutor).
Read(ref, offset, limit) ==
  /\ InTools
  /\ LET page == Page(ref, offset, limit) IN
     /\ Result(Told("note", Len(page)))
     /\ IF GoesOnFrom(ref, offset)
        THEN /\ read' = [read EXCEPT ![ref] = IF outputs[ref].list THEN @ \o page ELSE page]
             /\ toldAll' = IF HasMore(ref, offset, limit) THEN toldAll ELSE toldAll \cup {ref}
        ELSE UNCHANGED <<read, toldAll>>
  /\ UNCHANGED <<outputs, proactiveRefs>>

\* addToolExchange; a round with a failed call is put before the completion gate,
\* which may end the run.
RoundEnds(b) ==
  /\ running = "tools" /\ Len(results) = Len(calls)
  /\ \/ LoopsOn
     \/ /\ \E i \in DOMAIN results : results[i].kind = "error"
        /\ running' = "over" /\ UNCHANGED spent
  /\ Refreshes(b)
  /\ frames' = Append(frames, [size |-> 1 + SizeOf(results), holds |-> {Turn + round}])
  /\ calls' = <<>> /\ results' = <<>>
  /\ UNCHANGED <<protectedStart, round, request, store>>

RequestNext ==
  \/ Compact \/ Assemble \/ Answers \/ Fails
  \/ \E b \in Blocks :
       \/ RoundEnds(b)
       \/ GoesOn(b)
       \/ \E n \in 1..MaxCalls(round + 1) :
            \E ids \in [1..n -> UNION {CallIds(round + 1, c) : c \in 1..n}] :
              (\A c \in 1..n : ids[c] \in CallIds(round + 1, c)) /\ Calls(b, ids)
  \/ \E n \in Lengths :
       \/ \E list \in BOOLEAN : Tool(n, list)
       \/ \E kind \in {"error", "note"} : Notes(kind, n)
  \/ \E ref \in DOMAIN outputs, limit \in 1..Inline :
       \E offset \in 0..Len(outputs[ref].items) : Read(ref, offset, limit)

RequestSpec == RequestInit /\ [][RequestNext]_requestVars

----------------------------------------------------------------------------
(* Properties *)

\* The request tells the run from the user's turn on, whatever was dropped or
\* compacted: the turn word for word, every round in a frame of its own or in the
\* summary that took its place, and the last Keep of them word for word.
TurnIsSent ==
  running = "model" =>
    /\ \E i \in DOMAIN request : request[i].holds = {Turn}
    /\ \A n \in 1..round : \E i \in DOMAIN request :
         /\ Turn + n \in request[i].holds
         /\ n + Keep > round => request[i].holds = {Turn + n}

\* A summary stands where what it replaces stood: the story keeps its order.
OrderIsKept ==
  \A i, j \in DOMAIN frames : i < j =>
    \A m \in frames[i].holds, n \in frames[j].holds : m < n

\* A request over the budget has dropped its history, and what made it too long
\* is not the result of a tool put in full: the program's own answers, pages,
\* summaries and the task's block are not held against the budget, the results
\* of tools are.
FullResultsFit ==
  running = "model" /\ ~Fits(request) =>
    Len(request) = Len(frames) - protectedStart /\ last # "full"

RequestIsWhole == TurnIsSent /\ OrderIsKept /\ FullResultsFit

\* What the comments of ContextManager say of the rounds since the turn: "every
\* in-flight tool exchange stay[s] verbatim".
RoundsStayVerbatim ==
  running = "model" =>
    \A n \in 1..round : \E i \in DOMAIN request : request[i].holds = {Turn + n}

\* A paged result can be read from its pointer.
PointerIsOfItsResult ==
  \A i \in DOMAIN results : results[i].ref # 0 =>
    outputs[results[i].ref].items = results[i].of

\* The pages read on from the start of a result are that result, and the whole of
\* it when the model is told that there is no more.
PagesAreTheResult ==
  \A ref \in DOMAIN outputs :
    /\ IsPrefix(read[ref], outputs[ref].items)
    /\ ref \in toldAll => read[ref] = outputs[ref].items

ResultsAreReadable == PointerIsOfItsResult /\ PagesAreTheResult

\* The inductive invariant behind ResultsAreReadable: a call of this round has an
\* id of its own, under which nothing is stored before its result is here.
Data == Seq(Nat \X Nat \X Nat)
Output == [items : Data, list : BOOLEAN]
Kind == {"full", "pointer", "error", "note"}
DeliveredResult == [id : Nat \X Nat, kind : Kind, of : Data, ref : Nat, size : Nat]

BetweenRounds == running \in {"compact", "assemble", "model"}

StoreTypeOK ==
  /\ round \in Nat /\ results \in Seq(DeliveredResult)
  /\ outputs \in Seq(Output) /\ read \in Seq(Data) /\ Len(read) = Len(outputs)
  /\ toldAll \subseteq DOMAIN outputs

CallsAreFresh ==
  /\ running = "tools" =>
       /\ calls \in Seq(Nat \X Nat) /\ \A c \in DOMAIN calls : calls[c] = <<round, c>>
       /\ calls # <<>> /\ Len(results) <= Len(calls)
       /\ \A id \in DOMAIN proactiveRefs : id[1] = round => id[2] <= Len(results)
  /\ BetweenRounds => results = <<>>
  /\ DOMAIN proactiveRefs \subseteq (0..round) \X Nat

PointersAreGood ==
  \A i \in DOMAIN results : results[i].ref # 0 =>
    results[i].ref \in DOMAIN outputs /\ outputs[results[i].ref].items = results[i].of

StoreInv == StoreTypeOK /\ CallsAreFresh /\ PointersAreGood /\ PagesAreTheResult

\* The inductive invariant behind RequestIsWhole, with StoreInv: the frames are
\* history, turn and rounds in that order, a request is the end of them, and while
\* nothing came after a result in full what cannot be dropped fits.
Frame == [size : Nat, holds : SUBSET Nat]

RoundsKept == IF BetweenRounds THEN round ELSE round - 1

FramesInForm ==
  /\ frames \in Seq(Frame) /\ protectedStart \in Nat /\ protectedStart < Len(frames)
  /\ blocks \in Nat /\ frames[protectedStart + 1].holds = {Turn}
  /\ running = "tools" => round > 0

StoryIsKept ==
  /\ OrderIsKept
  /\ BetweenRounds \/ running = "tools" =>
       /\ \A i \in DOMAIN frames : \A m \in frames[i].holds : m <= Turn + RoundsKept
       /\ \A n \in 1..RoundsKept :
            \E i \in (protectedStart + 1)..Len(frames) :
              /\ Turn + n \in frames[i].holds
              /\ n + Keep > RoundsKept =>
                   frames[i].holds = {Turn + n} /\ i = Len(frames) - (RoundsKept - n)

RequestIsEnd ==
  running = "model" => \E d \in 0..protectedStart :
    /\ request = SubSeq(frames, d + 1, Len(frames))
    /\ d = protectedStart \/ Fits(request)

RoundFits ==
  last = "full" =>
    /\ running = "tools" /\ results # <<>> =>
         blocks + SizeOf(Protected) + 1 + SizeOf(results) <= Budget
    /\ BetweenRounds => blocks + SizeOf(Protected) <= Budget

WholeInv == FramesInForm /\ StoryIsKept /\ RequestIsEnd /\ RoundFits
=============================================================================
