----------------------------- MODULE ItemSearch -----------------------------
(***************************************************************************)
(* The search and the item cache of the plug-in: NavisworksToolService.cs  *)
(* (navisworks_find_items, RegisterItem, ResolveItem, EnsureDocumentState, *)
(* ResetSessionState), SearchContinuationPolicy.cs and                     *)
(* DocumentIdentityPolicy.cs.                                              *)
(*                                                                         *)
(* A search is a session that outlives its calls: a call scans in slices   *)
(* on the user interface thread until its time is over or a page of        *)
(* matches is full, and the same query again goes on from there.  Between  *)
(* two slices anything may run: another call, a change of the document.    *)
(* A slice here is one item, the finest cut; the time of a call may end    *)
(* between any two.  Item i of content d is <<d, i>>; content 0 is none.   *)
(***************************************************************************)
EXTENDS Naturals, Sequences, FiniteSets

CONSTANTS
  Finder,        \* calls of one query
  Items,         \* how many items a document has
  Named, Valued, \* the items whose name, or a property of which, matches
  Limit,         \* the page
  Fuse,          \* MaxSearchScannedItems
  Cached,        \* MaxCachedItems
  MaxOpens,      \* bound on documents opened
  MaxFinds,      \* bound on calls
  MaxLost        \* bound on answers nobody waits for any more

VARIABLES
  object,     \* the document object
  content,    \* what is in it
  opens,      \* documents opened
  known,      \* cachedDocument
  identity,   \* documentInstanceId, 0 when null
  minted,     \* identities minted
  generation, \* cacheGeneration
  cache,      \* itemOrder: identifiers with their items, the oldest first
  sequence,   \* itemSequence
  sessions,   \* every SearchSession made
  active,     \* activeSearch, 0 when null
  finder,     \* the calls
  finds,      \* calls so far
  seen,       \* auxiliary: the identity reported last, with the content it was for
  delivered,  \* auxiliary: items in the answers of a session that arrived
  spoilt,     \* auxiliary: sessions cut short, shared by calls, or with a lost page
  lostAnswers

docVars   == <<object, content, opens, known, identity, minted, generation>>
cacheVars == <<cache, sequence>>
searchVars == <<docVars, cacheVars, sessions, active, finder, finds, seen,
                delivered, spoilt, lostAnswers>>

Idle == [at |-> "idle", session |-> 0]

SearchInit ==
  /\ object = 1 /\ content = 1 /\ opens = 1 /\ known = 1
  /\ identity = 1 /\ minted = 1 /\ generation = 1
  /\ cache = <<>> /\ sequence = 0
  /\ sessions = <<>> /\ active = 0
  /\ finder = [f \in Finder |-> Idle]
  /\ finds = 0 /\ seen = [identity |-> 0, content |-> 0] /\ delivered = <<>> /\ spoilt = {} /\ lostAnswers = 0

----------------------------------------------------------------------------
(* The identity of the document and the cache *)

Discard(s) == [s EXCEPT !.discarded = TRUE, !.place = 0]

\* ResetSessionState, for what is then in the document.
Reset ==
  /\ cache' = <<>> /\ sequence' = 0 /\ generation' = generation + 1
  /\ known' = object'
  /\ IF content' # 0 THEN minted' = minted + 1 /\ identity' = minted'
     ELSE identity' = 0 /\ UNCHANGED minted
  /\ active' = 0
  /\ sessions' = IF active = 0 THEN sessions ELSE [sessions EXCEPT ![active] = Discard(@)]
  /\ spoilt' = IF active = 0 THEN spoilt ELSE spoilt \cup {active}

\* Another document: ActiveDocumentChanged comes while it is still clear.
OpenDocument(o) ==
  /\ opens < MaxOpens /\ opens' = opens + 1 /\ object' = o /\ content' = 0
  /\ Reset /\ UNCHANGED <<finder, finds, seen, delivered, lostAnswers>>

ModelsArrive ==
  /\ content = 0 /\ content' = opens
  /\ UNCHANGED <<object, opens, known, identity, minted, generation, cacheVars, sessions,
                 active, finder, finds, seen, delivered, spoilt, lostAnswers>>

\* Slip: a document that gets its models later is the same document.
ChangedObjectOnly == object # known

\* ShouldResetIdentity
Changed == object # known \/ (content # 0) # (identity # 0)

\* Any other tool: EnsureDocumentState, then an answer with the identity.
Execute ==
  /\ UNCHANGED <<object, content, opens>>
  /\ IF Changed THEN Reset
     ELSE UNCHANGED <<known, identity, minted, generation, cache, sequence, active,
                      sessions, spoilt>>
  /\ seen' = [identity |-> identity', content |-> content]
  /\ UNCHANGED <<finder, finds, delivered, lostAnswers>>

\* RegisterItem: the oldest make room.
Register(item) ==
  LET kept == IF Len(cache) >= Cached THEN Tail(cache) ELSE cache
      id   == <<generation, sequence + 1>>
  IN /\ sequence' = sequence + 1
     /\ cache' = Append(kept, [id |-> id, item |-> item])

----------------------------------------------------------------------------
(* The search *)

NewSession == [document |-> 0, phase |-> 1, place |-> 0, matches |-> <<>>, scanned |-> 0,
               full |-> FALSE, complete |-> FALSE, discarded |-> FALSE]

Running(s) == {f \in Finder : finder[f].session = s /\ finder[f].at \in {"scanning", "built"}}

\* Slip: the buffer is cleared before every slice.
RestartsAlways(s) == TRUE

\* ShouldResetPage: the buffer is cleared after a full page only.
Restarts(s) == sessions[s].full

\* BuildSearchSessionKey: every call of the model asks for the same, so the
\* search there is, if there is one, has the key of the call.
Resumable == active # 0

\* FindItemsResumableAsync up to its loop: the session goes on, or a new one.
Find(f) ==
  LET resumed == Resumable
      s == IF resumed THEN active ELSE Len(sessions) + 1
  IN /\ finder[f].at = "idle" /\ finds < MaxFinds /\ finds' = finds + 1
     /\ finder' = [finder EXCEPT ![f] = [at |-> "scanning", session |-> s]]
     /\ active' = s
     /\ sessions' = IF ~resumed THEN Append(sessions, NewSession)
                    ELSE IF Restarts(s)
                    THEN [sessions EXCEPT ![s].matches = <<>>, ![s].full = FALSE]
                    ELSE sessions
     /\ delivered' = IF resumed THEN delivered ELSE Append(delivered, {})
     /\ spoilt' = IF Running(s) # {} THEN spoilt \cup {s} ELSE spoilt
     /\ UNCHANGED <<docVars, cacheVars, seen, lostAnswers>>

Goes(f) ==
  LET s == sessions[finder[f].session] IN
  finder[f].at = "scanning" /\ ~s.complete /\ ~s.full /\ s.scanned < Fuse

FinderIs(f, at) == finder' = [finder EXCEPT ![f].at = at]

\* No document, or another one than the session began with.
SliceFails(f) ==
  LET n == finder[f].session
      s == sessions[n]
  IN /\ Goes(f)
     /\ IF s.document = 0 THEN content = 0 ELSE s.document # object
     /\ finder' = [finder EXCEPT ![f] = Idle]
     /\ sessions' = [sessions EXCEPT ![n] = Discard(@)]
     /\ active' = IF active = n THEN 0 ELSE active
     /\ spoilt' = spoilt \cup {n}
     /\ UNCHANGED <<docVars, cacheVars, finds, seen, delivered, lostAnswers>>

\* Phase 1 is by name; phase 2 by property, without what phase 1 has found.
Hit(s, i) == IF s.phase = 1 THEN i \in Named ELSE i \in Valued \ Named

\* ScanSearchSlice: the next item, or the next phase, or the end.  If the slice
\* has time left after the last item the fuse allows, the search is complete
\* there, unless that item filled the page.
Slice(f) ==
  LET n == finder[f].session
      s == sessions[n]
      i == s.place + 1
      here == [s EXCEPT !.document = object]
  IN /\ Goes(f)
     /\ IF s.document = 0 THEN content # 0 ELSE s.document = object
     /\ known' = IF s.document = 0 THEN object ELSE known
     /\ IF content = 0 \/ i > Items
        THEN /\ sessions' = [sessions EXCEPT ![n] =
                  IF s.phase = 2 THEN [here EXCEPT !.complete = TRUE, !.place = 0]
                  ELSE [here EXCEPT !.phase = 2, !.place = 0]]
             /\ UNCHANGED cacheVars
        ELSE LET next == [here EXCEPT !.place = i, !.scanned = @ + 1]
                 fills == Len(s.matches) + 1 >= Limit
             IN \E blown \in BOOLEAN :
                  /\ blown => s.scanned + 1 >= Fuse /\ ~(Hit(s, i) /\ fills)
                  /\ IF Hit(s, i)
                     THEN /\ Register(<<content, i>>)
                          /\ sessions' = [sessions EXCEPT ![n] = [next EXCEPT
                               !.matches = Append(@, cache'[Len(cache')]),
                               !.full = fills, !.complete = blown]]
                     ELSE /\ sessions' = [sessions EXCEPT ![n] = [next EXCEPT !.complete = blown]]
                          /\ UNCHANGED cacheVars
     /\ spoilt' = IF sessions'[n].scanned >= Fuse THEN spoilt \cup {n} ELSE spoilt
     /\ UNCHANGED <<object, content, opens, identity, minted, generation, active, finder,
                    finds, seen, delivered, lostAnswers>>

\* The loop ends: the scan is over, the page full, the fuse blown or the time up.
Built(f) ==
  LET n == finder[f].session IN
  /\ finder[f].at = "scanning" /\ FinderIs(f, "built")
  /\ active' = IF sessions[n].complete /\ active = n THEN 0 ELSE active
  /\ UNCHANGED <<docVars, cacheVars, sessions, finds, seen, delivered, spoilt, lostAnswers>>

Matched(s) == {s.matches[k].item : k \in DOMAIN s.matches}

\* The answer is made from the matches of the session as they are now.  If the
\* client has left, a full page of them is gone: the next call clears it.
Answer(f, arrives) ==
  LET n == finder[f].session
      items == Matched(sessions[n])
  IN /\ finder[f].at = "built" /\ finder' = [finder EXCEPT ![f] = Idle]
     /\ ~arrives => lostAnswers < MaxLost
     /\ lostAnswers' = IF arrives THEN lostAnswers ELSE lostAnswers + 1
     /\ delivered' = IF arrives THEN [delivered EXCEPT ![n] = @ \cup items] ELSE delivered
     /\ spoilt' = IF ~arrives /\ (sessions[n].full \/ sessions[n].complete)
                  THEN spoilt \cup {n} ELSE spoilt
     /\ UNCHANGED <<docVars, cacheVars, sessions, active, finds, seen>>

SearchNext ==
  \/ \E f \in Finder : Find(f) \/ SliceFails(f) \/ Slice(f) \/ Built(f)
                       \/ \E arrives \in BOOLEAN : Answer(f, arrives)
  \/ \E o \in 1..2 : OpenDocument(o)
  \/ ModelsArrive \/ Execute

SearchSpec == SearchInit /\ [][SearchNext]_searchVars

----------------------------------------------------------------------------
(* Properties *)

\* A scan that is over has delivered every match, over as many calls as it
\* took: pages, timeouts and phases skip nothing.
NothingSkipped ==
  \A n \in DOMAIN sessions \ spoilt : sessions[n].complete /\ Running(n) = {} =>
    {x[2] : x \in delivered[n]} = Named \cup Valued

\* An item is found once in a scan, although the tree is walked twice.
FoundOnce ==
  \A n \in DOMAIN sessions \ spoilt :
    \A j, k \in DOMAIN sessions[n].matches :
      sessions[n].matches[j].item = sessions[n].matches[k].item => j = k

\* A search never goes on over a change of the document: the session a later
\* call would resume holds matches of one content only, and of the present one.
NoResumeOverReset ==
  active # 0 => \A k \in DOMAIN sessions[active].matches :
    sessions[active].matches[k].item[1] = opens

\* An identifier never comes to stand for another item, whatever was evicted
\* and reset between: a stale one is refused and never resolved wrongly.
IdsNeverRebound ==
  \A n \in DOMAIN sessions : \A k \in DOMAIN sessions[n].matches :
    \A c \in DOMAIN cache :
      LET m == sessions[n].matches[k] IN m.id = cache[c].id => m.item = cache[c].item

\* All a caller may rely on, from the first page to the last.
SearchIsExact == NothingSkipped /\ FoundOnce /\ NoResumeOverReset /\ IdsNeverRebound

\* What is keyed on an identity is keyed on one content, and a document with
\* models is never reported without one.
IdentityOfContent ==
  /\ seen'.identity = seen.identity /\ seen.identity # 0 => seen'.content = seen.content
  /\ seen'.identity = 0 => seen'.content = 0

\* The inductive invariant behind IdentityOfContent: an identity in use is the
\* last one minted and stands for a document with models, and what was reported
\* under it is what the document still holds.
IdentityInv ==
  /\ {content, opens, identity, minted} \subseteq Nat
  /\ seen \in [identity : Nat, content : Nat]
  /\ known = object
  /\ identity # 0 => content # 0 /\ identity = minted
  /\ seen.identity <= minted /\ (seen.identity = 0 => seen.content = 0)
  /\ seen.identity # 0 /\ seen.identity = identity => seen.content = content

\* The inductive invariant behind SearchIsExact.
Entry == [id : Nat \X Nat, item : Nat \X Nat]
SearchRecord ==
  [document : Nat, phase : {1, 2}, place : 0..Items, matches : Seq(Entry), scanned : Nat,
   full : BOOLEAN, complete : BOOLEAN, discarded : BOOLEAN]

SearchTypeOK ==
  /\ object \in 1..2 /\ opens \in Nat \ {0} /\ content \in {0, opens}
  /\ generation \in Nat /\ cache \in Seq(Entry) /\ sequence \in Nat
  /\ sessions \in Seq(SearchRecord) /\ active \in 0..Len(sessions)
  /\ delivered \in Seq(SUBSET (Nat \X Nat)) /\ Len(delivered) = Len(sessions)
  /\ finder \in [Finder -> [at : {"idle", "scanning", "built"}, session : Nat]]
  /\ \A f \in Finder : finder[f].at # "idle" => finder[f].session \in DOMAIN sessions

\* Identifiers given out so far; a new one is none of them.
Issued(id) == id[1] < generation \/ (id[1] = generation /\ id[2] <= sequence)

IdsIssued ==
  /\ \A c \in DOMAIN cache : Issued(cache[c].id)
  /\ \A n \in DOMAIN sessions : \A k \in DOMAIN sessions[n].matches : Issued(sessions[n].matches[k].id)

\* What a scan has found, by where it is.
Found(s) ==
  IF s.complete THEN Named \cup Valued
  ELSE IF s.phase = 1 THEN Named \cap 1..s.place
  ELSE Named \cup (Valued \cap 1..s.place)

\* What of a search was delivered and is at hand is what its scan has found, of
\* content c.
Exact(s, got, c) == got \cup Matched(s) = {<<c, i>> : i \in Found(s)}

\* A search nothing has spoilt; it has delivered what the next call may clear.
ExactlyFound(n) ==
  LET s == sessions[n] IN
  /\ ~s.complete => active = n /\ (s.document # 0 => content # 0)
  /\ \E c \in 0..opens :
       /\ Exact(s, delivered[n], c)
       /\ ~s.complete => c = opens
  /\ Running(n) = {} /\ (s.full \/ s.complete) => Matched(s) \subseteq delivered[n]

AloneOrSpoilt ==
  \A f, g \in Finder : f # g /\ finder[f].at # "idle" /\ finder[g].at # "idle"
                       /\ finder[f].session = finder[g].session => finder[f].session \in spoilt

SearchInv ==
  /\ SearchTypeOK /\ IdsIssued /\ AloneOrSpoilt
  /\ FoundOnce /\ NoResumeOverReset /\ IdsNeverRebound
  /\ \A n \in DOMAIN sessions \ spoilt : ExactlyFound(n)
=============================================================================
