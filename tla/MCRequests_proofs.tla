------------------------- MODULE MCRequests_proofs --------------------------
(***************************************************************************)
(* What a run sends to the model and delivers of its tools' results,       *)
(* proved for every value of the constants.                                *)
(***************************************************************************)
EXTENDS MCServices, SequenceTheorems, WellFoundedInduction, TLAPS

\* A behaviour is one of one part.
LEMMA PartStays == [Next]_all => UNCHANGED part
BY DEF Next, all, KeepAfter6, KeepAfter8, KeepAfter10, KeepAfter11, KeepAfter14, KeepAfter16

-----------------------------------------------------------------------------
(* The request to the model: x1 frames, x2 protectedStart, x3 blocks,       *)
(* x4 spent, x5 round, x6 running, x7 request, x8 calls, x9 results,        *)
(* x10 outputs, x11 proactiveRefs, x12 read, x13 toldAll, x14 last.         *)

\* The provider gives no two calls one id.
LEMMA FreshCalls == \A n, c : FreshIds(n, c) = {<<n, c>>}
BY DEF FreshIds

LEMMA NaturalBounds == Lengths \subseteq Nat /\ Inline \in Nat
BY ServicesConstants

LEMMA RequestBounds ==
  /\ MaxHistory \in Nat /\ KeepFrames \in Nat /\ MinFrames \in Nat \ {0} /\ Budget \in Nat
  /\ Blocks \subseteq Nat /\ SummarySizes \subseteq Nat
BY ServicesConstants

LEMMA PrefixByElements ==
  ASSUME NEW S, NEW p \in Seq(S), NEW o \in Seq(S)
  PROVE  Requests!IsPrefix(p, o) <=> Len(p) <= Len(o) /\ \A i \in 1..Len(p) : p[i] = o[i]
<1>1. CASE Len(p) <= Len(o)
  <2>1. SubSeq(p, 1, Len(p)) = [i \in 1..Len(p) |-> p[i]] /\ SubSeq(o, 1, Len(p)) = [i \in 1..Len(p) |-> o[i]]
    BY <1>1
  <2>2. ASSUME \A i \in 1..Len(p) : p[i] = o[i] PROVE SubSeq(p, 1, Len(p)) = SubSeq(o, 1, Len(p))
    BY <2>1, <2>2
  <2>3. ASSUME SubSeq(p, 1, Len(p)) = SubSeq(o, 1, Len(p)), NEW i \in 1..Len(p) PROVE p[i] = o[i]
    <3>1. SubSeq(p, 1, Len(p))[i] = p[i] /\ SubSeq(o, 1, Len(p))[i] = o[i]
      BY <2>1
    <3> QED BY <2>3, <3>1
  <2> QED BY <1>1, <2>2, <2>3 DEF Requests!IsPrefix
<1>2. CASE ~(Len(p) <= Len(o))
  BY <1>2 DEF Requests!IsPrefix
<1> QED BY <1>1, <1>2

LEMMA PrefixGives ==
  ASSUME NEW S, NEW p \in Seq(S), NEW o \in Seq(S), Requests!IsPrefix(p, o)
  PROVE  /\ Len(p) \in Nat /\ Len(o) \in Nat /\ Len(p) <= Len(o)
         /\ \A i \in 1..Len(p) : p[i] = o[i]
<1>1. Requests!IsPrefix(p, o) <=> Len(p) <= Len(o) /\ \A i \in 1..Len(p) : p[i] = o[i]
  BY PrefixByElements, ZenonT(30)
<1>2. Len(p) \in Nat /\ Len(o) \in Nat
  OBVIOUS
<1> QED BY <1>1, <1>2

LEMMA PartOf ==
  ASSUME NEW S, NEW o \in Seq(S), NEW m \in 0..Len(o), NEW n \in m..Len(o)
  PROVE  /\ SubSeq(o, m + 1, n) \in Seq(S) /\ Len(SubSeq(o, m + 1, n)) = n - m
         /\ \A i \in 1..(n - m) : SubSeq(o, m + 1, n)[i] = o[m + i]
<1>1. Len(o) \in Nat /\ m \in Nat /\ n \in Nat
  OBVIOUS
<1>2. \A i \in (m + 1)..n : o[i] \in S
  BY <1>1
<1>3. SubSeq(o, m + 1, n) \in Seq(S) /\ Len(SubSeq(o, m + 1, n)) = n - m
  BY <1>1, <1>2
<1>4. ASSUME NEW i \in 1..(n - m) PROVE SubSeq(o, m + 1, n)[i] = o[m + i]
  BY <1>1
<1> QED BY <1>3, <1>4

\* A page goes on where the last one ended; the last one ends at the end.
LEMMA PageExtends ==
  ASSUME NEW S, NEW o \in Seq(S), NEW p \in Seq(S), Requests!IsPrefix(p, o),
         NEW end \in Len(p)..Len(o), NEW page \in Seq(S), Len(page) = end - Len(p),
         \A i \in 1..(end - Len(p)) : page[i] = o[Len(p) + i]
  PROVE  /\ p \o page \in Seq(S) /\ Requests!IsPrefix(p \o page, o)
         /\ ~(Len(p) + Len(page) < Len(o)) => p \o page = o
<1>1. /\ Len(p) \in Nat /\ Len(o) \in Nat /\ Len(p) <= Len(o) /\ \A i \in 1..Len(p) : p[i] = o[i]
  BY PrefixGives, ZenonT(30)
<1>2. end \in Len(p)..Len(o) /\ end \in Nat
  BY <1>1
<1>3. page \in Seq(S) /\ Len(page) = end - Len(p) /\ \A i \in 1..(end - Len(p)) : page[i] = o[Len(p) + i]
  OBVIOUS
<1>4. PICK q : q = p \o page
  OBVIOUS
<1>5. q \in Seq(S) /\ Len(q) = end /\ \A i \in 1..Len(q) : q[i] = IF i <= Len(p) THEN p[i] ELSE page[i - Len(p)]
  BY <1>1, <1>2, <1>3, <1>4
<1>6. ASSUME NEW i \in 1..Len(q) PROVE q[i] = o[i]
  <2>1. CASE i <= Len(p)
    BY <1>1, <1>5, <2>1
  <2>2. CASE ~(i <= Len(p))
    <3>1. i - Len(p) \in 1..(end - Len(p)) /\ Len(p) + (i - Len(p)) = i
      BY <1>1, <1>2, <1>5, <2>2
    <3>2. q[i] = page[i - Len(p)]
      BY <1>5, <2>2
    <3> QED BY <1>3, <3>1, <3>2
  <2> QED BY <2>1, <2>2
<1>7. Len(q) <= Len(o)
  BY <1>1, <1>2, <1>5
<1>8. Requests!IsPrefix(q, o)
  BY <1>5, <1>6, <1>7, PrefixByElements
<1>9. ~(Len(p) + Len(page) < Len(o)) => q = o
  <2> SUFFICES ASSUME ~(Len(p) + Len(page) < Len(o)) PROVE q = o
    OBVIOUS
  <2>1. Len(q) = Len(o)
    BY <1>1, <1>2, <1>3, <1>5
  <2>2. q \in Seq(S) /\ o \in Seq(S) /\ \A i \in 1..Len(o) : q[i] = o[i]
    BY <1>5, <1>6, <2>1
  <2> QED BY <2>1, <2>2, SeqEqual
<1> QED BY <1>3, <1>4, <1>5, <1>8, <1>9

LEMMA AddedLast ==
  ASSUME NEW S, NEW q \in Seq(S), NEW e \in S, NEW r, r = Append(q, e)
  PROVE  /\ r \in Seq(S) /\ Len(r) = Len(q) + 1 /\ Len(q) \in Nat /\ r[Len(q) + 1] = e
         /\ DOMAIN q = 1..Len(q) /\ DOMAIN r = 1..(Len(q) + 1)
         /\ \A m \in DOMAIN q : r[m] = q[m] /\ m # Len(q) + 1
OBVIOUS

LEMMA NothingIsPrefix ==
  ASSUME NEW S, NEW o \in Seq(S), NEW p \in Seq(S), Len(p) = 0
  PROVE  Requests!IsPrefix(p, o)
<1>1. Len(p) <= Len(o) /\ \A i \in 1..Len(p) : p[i] = o[i]
  OBVIOUS
<1> QED BY <1>1, PrefixByElements

LEMMA EmptyPrefix ==
  ASSUME NEW S, NEW o \in Seq(S)
  PROVE  <<>> \in Seq(S) /\ Requests!IsPrefix(<<>>, o)
<1>1. <<>> \in Seq(S) /\ Len(<<>>) = 0
  OBVIOUS
<1> QED BY <1>1, NothingIsPrefix

\* Steps that neither store nor answer.
LEMMA StoreQuiet ==
  ASSUME Requests!StoreInv, UNCHANGED <<x5, x10, x11, x12, x13>>,
         x6' # "tools",
         x9' = <<>> \/ (x9' = x9 /\ Requests!BetweenRounds)
  PROVE  Requests!StoreInv'
<1>1. x9' = <<>>
  BY DEF Requests!StoreInv, Requests!CallsAreFresh
<1>2. Requests!StoreTypeOK' /\ Requests!PagesAreTheResult'
  BY <1>1 DEF Requests!StoreInv, Requests!StoreTypeOK, Requests!PagesAreTheResult
<1>3. Requests!CallsAreFresh'
  BY <1>1 DEF Requests!StoreInv, Requests!CallsAreFresh
<1>4. Requests!PointersAreGood'
  BY <1>1 DEF Requests!PointersAreGood
<1> QED BY <1>2, <1>3, <1>4 DEF Requests!StoreInv

LEMMA StoreStutters ==
  ASSUME Requests!StoreInv, UNCHANGED Requests!requestVars
  PROVE  Requests!StoreInv'
BY DEF Requests!requestVars, Requests!StoreInv, Requests!StoreTypeOK, Requests!CallsAreFresh, Requests!PointersAreGood, Requests!PagesAreTheResult, Requests!BetweenRounds

LEMMA EndKeepsStore ==
  ASSUME Requests!StoreInv, Requests!Ends
  PROVE  Requests!StoreInv'
BY StoreQuiet DEF Requests!Ends, Requests!store

\* The id of the call that is answered next is new to the store.
LEMMA CallIsNew ==
  ASSUME Requests!StoreInv, Requests!InTools
  PROVE  Requests!Call = <<x5, Len(x9) + 1>> /\ Requests!RefOf = 0
<1>1. /\ x8 \in Seq(Nat \X Nat) /\ x9 \in Seq(Requests!DeliveredResult) /\ Len(x9) < Len(x8) /\ x5 \in Nat
      /\ \A c \in DOMAIN x8 : x8[c] = <<x5, c>>
      /\ \A id \in DOMAIN x11 : id[1] = x5 => id[2] <= Len(x9)
  BY DEF Requests!StoreInv, Requests!StoreTypeOK, Requests!CallsAreFresh, Requests!InTools
<1>2. Len(x9) + 1 \in DOMAIN x8 /\ Len(x9) \in Nat
  BY <1>1
<1>3. Requests!Call = <<x5, Len(x9) + 1>> /\ Requests!Call[1] = x5 /\ Requests!Call[2] = Len(x9) + 1
  BY <1>1, <1>2 DEF Requests!Call
<1>4. Requests!Call \notin DOMAIN x11
  <2> SUFFICES ASSUME Requests!Call \in DOMAIN x11 PROVE FALSE
    OBVIOUS
  <2>1. PICK id \in DOMAIN x11 : id = Requests!Call
    OBVIOUS
  <2>2. id[1] = x5 /\ id[2] = Len(x9) + 1
    BY <1>3, <2>1
  <2>3. id[2] <= Len(x9)
    BY <1>1, <2>2
  <2> QED BY <1>2, <2>2, <2>3
<1> QED BY <1>3, <1>4 DEF Requests!RefOf

LEMMA ResultAdded ==
  ASSUME Requests!StoreInv, Requests!InTools, NEW x \in Requests!DeliveredResult, x9' = Append(x9, x),
         UNCHANGED <<x5, x6, x8>>, x10' \in Seq(Requests!Output), Len(x10) <= Len(x10'),
         \A i \in DOMAIN x10 : x10'[i] = x10[i],
         x.ref # 0 => x.ref \in DOMAIN x10' /\ x10'[x.ref].items = x.of,
         DOMAIN x11' \subseteq DOMAIN x11 \cup {Requests!Call}
  PROVE  Requests!CallsAreFresh' /\ Requests!PointersAreGood' /\ x9' \in Seq(Requests!DeliveredResult)
<1>1. /\ x8 \in Seq(Nat \X Nat) /\ x9 \in Seq(Requests!DeliveredResult) /\ Len(x9) < Len(x8) /\ x5 \in Nat
      /\ \A c \in DOMAIN x8 : x8[c] = <<x5, c>>
      /\ \A id \in DOMAIN x11 : id[1] = x5 => id[2] <= Len(x9)
      /\ DOMAIN x11 \subseteq (0..x5) \X Nat /\ x10 \in Seq(Requests!Output)
  BY DEF Requests!StoreInv, Requests!StoreTypeOK, Requests!CallsAreFresh, Requests!InTools
<1>2. /\ x9' \in Seq(Requests!DeliveredResult) /\ Len(x9') = Len(x9) + 1 /\ Len(x9) \in Nat
      /\ x9'[Len(x9) + 1] = x /\ DOMAIN x9 = 1..Len(x9) /\ DOMAIN x9' = 1..(Len(x9) + 1)
      /\ \A i \in DOMAIN x9 : x9'[i] = x9[i]
  <2>1. PICK old : old = x9 /\ old \in Seq(Requests!DeliveredResult)
    BY <1>1
  <2>2. PICK new : new = Append(old, x)
    OBVIOUS
  <2>3. /\ new \in Seq(Requests!DeliveredResult) /\ Len(new) = Len(old) + 1 /\ Len(old) \in Nat /\ new[Len(old) + 1] = x
        /\ DOMAIN old = 1..Len(old) /\ DOMAIN new = 1..(Len(old) + 1)
        /\ \A i \in DOMAIN old : new[i] = old[i]
    BY <2>1, <2>2, AddedLast
  <2>4. x9' = new
    BY <2>1, <2>2
  <2> QED BY <2>1, <2>3, <2>4
<1>3. PICK id : id = Requests!Call /\ id = <<x5, Len(x9) + 1>> /\ id[1] = x5 /\ id[2] = Len(x9) + 1
  BY CallIsNew
<1>4. Requests!CallsAreFresh'
  <2>1. \A n \in DOMAIN x11' : n \in DOMAIN x11 \/ n = id
    BY <1>3
  <2>2. id \in (0..x5) \X Nat
    BY <1>1, <1>2, <1>3
  <2>3. DOMAIN x11' \subseteq (0..x5') \X Nat
    BY <1>1, <2>1, <2>2
  <2>4. ASSUME NEW n \in DOMAIN x11', n[1] = x5 PROVE n[2] <= Len(x9')
    <3>1. CASE n = id
      BY <1>2, <1>3, <3>1
    <3>2. CASE n \in DOMAIN x11
      <4>1. n \in (0..x5) \X Nat /\ n[2] <= Len(x9)
        BY <1>1, <2>4, <3>2
      <4>2. n[2] \in Nat
        BY <4>1
      <4> QED BY <1>2, <4>1, <4>2
    <3> QED BY <2>1, <3>1, <3>2
  <2>5. Len(x9') <= Len(x8') /\ x8' # <<>>
    BY <1>1, <1>2
  <2> QED BY <1>1, <2>3, <2>4, <2>5 DEF Requests!CallsAreFresh, Requests!InTools, Requests!BetweenRounds
<1>5. DOMAIN x10 \subseteq DOMAIN x10'
  BY <1>1
<1>6. Requests!PointersAreGood'
  <2> SUFFICES ASSUME NEW i \in DOMAIN x9', x9'[i].ref # 0
               PROVE  x9'[i].ref \in DOMAIN x10' /\ x10'[x9'[i].ref].items = x9'[i].of
    BY DEF Requests!PointersAreGood
  <2>1. CASE i \in DOMAIN x9
    BY <1>2, <1>5, <2>1 DEF Requests!StoreInv, Requests!PointersAreGood
  <2>2. CASE i = Len(x9) + 1
    BY <1>2, <2>2
  <2> QED BY <1>2, <2>1, <2>2
<1> QED BY <1>2, <1>4, <1>6
LEMMA Stored ==
  ASSUME Requests!StoreInv, NEW r \in Requests!Data, NEW list \in BOOLEAN, Requests!Stores(r, list), x5' = x5
  PROVE  /\ x10' \in Seq(Requests!Output) /\ x12' \in Seq(Requests!Data) /\ Len(x12') = Len(x10') /\ x13' \subseteq DOMAIN x10'
         /\ Len(x10') = Len(x10) + 1 /\ Len(x10) \in Nat /\ x10'[Len(x10) + 1].items = r
         /\ \A i \in DOMAIN x10 : x10'[i] = x10[i]
         /\ DOMAIN x11' \subseteq DOMAIN x11 \cup {Requests!Call}
         /\ Requests!PagesAreTheResult'
<1>1. x10 \in Seq(Requests!Output) /\ x12 \in Seq(Requests!Data) /\ Len(x12) = Len(x10) /\ x13 \subseteq DOMAIN x10
  BY DEF Requests!StoreInv, Requests!StoreTypeOK
<1>a. PICK o : o = [items |-> r, list |-> list]
  OBVIOUS
<1>b. o \in Requests!Output /\ o.items = r
  BY <1>a DEF Requests!Output
<1>2. /\ x10' = Append(x10, o) /\ x12' = Append(x12, <<>>) /\ x13' = x13
      /\ DOMAIN x11' = DOMAIN x11 \cup {Requests!Call}
  BY <1>a DEF Requests!Stores
<1>3. <<>> \in Requests!Data /\ Requests!IsPrefix(<<>>, r)
  BY EmptyPrefix DEF Requests!Data
<1>4. /\ x10' \in Seq(Requests!Output) /\ Len(x10') = Len(x10) + 1 /\ Len(x10) \in Nat /\ x10'[Len(x10) + 1] = o
      /\ DOMAIN x10 = 1..Len(x10) /\ DOMAIN x10' = 1..(Len(x10) + 1)
      /\ \A i \in DOMAIN x10 : x10'[i] = x10[i] /\ i # Len(x10) + 1
  BY <1>1, <1>2, <1>b, AddedLast
<1>5. /\ x12' \in Seq(Requests!Data) /\ Len(x12') = Len(x12) + 1 /\ x12'[Len(x12) + 1] = <<>>
      /\ DOMAIN x12 = 1..Len(x12) /\ \A i \in DOMAIN x12 : x12'[i] = x12[i]
  BY <1>1, <1>2, <1>3, AddedLast
<1>6. Requests!PagesAreTheResult'
  <2> SUFFICES ASSUME NEW n \in DOMAIN x10'
               PROVE  Requests!IsPrefix(x12'[n], x10'[n].items) /\ (n \in x13' => x12'[n] = x10'[n].items)
    BY DEF Requests!PagesAreTheResult
  <2>1. CASE n \in DOMAIN x10
    BY <1>1, <1>2, <1>4, <1>5, <2>1 DEF Requests!StoreInv, Requests!PagesAreTheResult
  <2>2. CASE n = Len(x10) + 1
    BY <1>1, <1>2, <1>3, <1>4, <1>5, <1>b, <2>2
  <2> QED BY <1>4, <2>1, <2>2
<1> QED BY <1>1, <1>2, <1>4, <1>5, <1>6, <1>b

\* A result that stores nothing and points nowhere.
LEMMA PlainResultKeepsStore ==
  ASSUME Requests!StoreInv, Requests!InTools, NEW x \in Requests!DeliveredResult, Requests!Result(x), x.ref = 0, UNCHANGED Requests!store
  PROVE  Requests!StoreInv'
<1>1. /\ x9' = Append(x9, x)
      /\ UNCHANGED <<x5, x6, x8, x10, x11, x12, x13>>
  BY DEF Requests!Result, Requests!store
<1>2. Requests!CallsAreFresh' /\ Requests!PointersAreGood' /\ x9' \in Seq(Requests!DeliveredResult)
  <2>1. x10 \in Seq(Requests!Output) /\ Len(x10) \in Nat
    BY DEF Requests!StoreInv, Requests!StoreTypeOK
  <2> QED BY <1>1, <2>1, ResultAdded
<1> QED BY <1>1, <1>2 DEF Requests!StoreInv, Requests!StoreTypeOK, Requests!PagesAreTheResult

LEMMA CallHasId ==
  ASSUME Requests!StoreInv, Requests!InTools
  PROVE  Requests!Call \in Nat \X Nat
<1>1. x9 \in Seq(Requests!DeliveredResult) /\ x5 \in Nat
  BY DEF Requests!StoreInv, Requests!StoreTypeOK
<1> QED BY <1>1, CallIsNew

\* A result in full or by its pointer, stored or not.
LEMMA DeliveryKeepsStore ==
  ASSUME Requests!StoreInv, Requests!InTools, NEW r \in Requests!Data, NEW list \in BOOLEAN,
         \/ Requests!DeliversInline(r, list) \/ Requests!DeliversPaged(r, list)
  PROVE  Requests!StoreInv'
<1>1. Requests!RefOf = 0 /\ Requests!Call \in Nat \X Nat /\ Len(x10) \in Nat /\ x10 \in Seq(Requests!Output) /\ Len(r) \in Nat
  BY CallIsNew, CallHasId DEF Requests!Data, Requests!StoreInv, Requests!StoreTypeOK
<1>2. PICK x \in Requests!DeliveredResult :
        /\ x.of = r /\ Requests!Result(x)
        /\ \/ Requests!Stores(r, list) /\ x.ref \in {0, Len(x10) + 1}
           \/ UNCHANGED Requests!store /\ x.ref = 0
  <2>1. /\ Requests!Full(r) \in Requests!DeliveredResult /\ Requests!Full(r).of = r /\ Requests!Full(r).ref = 0
        /\ Requests!Paged(r, Len(x10) + 1) \in Requests!DeliveredResult /\ Requests!Paged(r, Len(x10) + 1).of = r
        /\ Requests!Paged(r, Len(x10) + 1).ref = Len(x10) + 1
    BY <1>1 DEF Requests!Full, Requests!Paged, Requests!DeliveredResult, Requests!Kind
  <2>2. CASE Requests!DeliversInline(r, list)
    <3>1. Requests!Result(Requests!Full(r)) /\ (Requests!Stores(r, list) \/ UNCHANGED Requests!store)
      BY <2>2 DEF Requests!DeliversInline
    <3> QED BY <2>1, <3>1
  <2>3. CASE Requests!DeliversPaged(r, list)
    <3>1. Requests!Stores(r, list) /\ Requests!Result(Requests!Paged(r, Len(x10) + 1))
      BY <1>1, <2>3 DEF Requests!DeliversPaged
    <3> QED BY <2>1, <3>1
  <2> QED BY <2>2, <2>3
<1>3. x9' = Append(x9, x) /\ UNCHANGED <<x5, x6, x8>>
  BY <1>2 DEF Requests!Result
<1>4. CASE Requests!Stores(r, list) /\ x.ref \in {0, Len(x10) + 1}
  <2>1. /\ x10' \in Seq(Requests!Output) /\ x12' \in Seq(Requests!Data) /\ Len(x12') = Len(x10') /\ x13' \subseteq DOMAIN x10'
        /\ Len(x10') = Len(x10) + 1 /\ x10'[Len(x10) + 1].items = r
        /\ \A i \in DOMAIN x10 : x10'[i] = x10[i]
        /\ DOMAIN x11' \subseteq DOMAIN x11 \cup {Requests!Call}
        /\ Requests!PagesAreTheResult'
    BY <1>3, <1>4, Stored
  <2>2. Len(x10) + 1 \in DOMAIN x10' /\ Len(x10) <= Len(x10')
    BY <1>1, <2>1
  <2>3. Requests!CallsAreFresh' /\ Requests!PointersAreGood' /\ x9' \in Seq(Requests!DeliveredResult)
    BY <1>2, <1>3, <1>4, <2>1, <2>2, ResultAdded
  <2> QED BY <1>3, <2>1, <2>3 DEF Requests!StoreInv, Requests!StoreTypeOK
<1>5. CASE UNCHANGED Requests!store /\ x.ref = 0
  BY <1>2, <1>5, PlainResultKeepsStore
<1> QED BY <1>2, <1>4, <1>5

LEMMA FreshIsData ==
  ASSUME Requests!StoreInv, NEW n \in Nat
  PROVE  Requests!Fresh(n) \in Requests!Data
<1>1. x5 \in Nat /\ Len(x9) + 1 \in Nat
  BY DEF Requests!StoreInv, Requests!StoreTypeOK
<1>2. \A i \in 1..n : <<x5, Len(x9) + 1, i>> \in Nat \X Nat \X Nat
  BY <1>1
<1> QED BY <1>2 DEF Requests!Fresh, Requests!Data

LEMMA ToolKeepsStore ==
  ASSUME Requests!StoreInv, NEW n \in Nat, NEW list \in BOOLEAN, Requests!Tool(n, list)
  PROVE  Requests!StoreInv'
<1>1. Requests!Fresh(n) \in Requests!Data /\ Requests!InTools
  BY FreshIsData DEF Requests!Tool
<1>2. CASE Requests!DeliversInline(Requests!Fresh(n), list) \/ Requests!DeliversPaged(Requests!Fresh(n), list)
  BY <1>1, <1>2, DeliveryKeepsStore
<1>3. CASE Requests!StoreFails(Requests!Fresh(n))
  BY <1>3, EndKeepsStore DEF Requests!StoreFails
<1> QED BY <1>2, <1>3 DEF Requests!Tool

LEMMA NoteIsResult ==
  ASSUME Requests!StoreInv, Requests!InTools, NEW kind \in {"error", "note"}, NEW n \in Nat
  PROVE  Requests!Told(kind, n) \in Requests!DeliveredResult /\ Requests!Told(kind, n).ref = 0 /\ Requests!Told(kind, n).kind # "full"
<1>1. Requests!Call \in Nat \X Nat /\ <<>> \in Requests!Data
  BY CallHasId DEF Requests!Data
<1> QED BY <1>1 DEF Requests!Told, Requests!DeliveredResult, Requests!Kind

LEMMA NoteKeepsStore ==
  ASSUME Requests!StoreInv, NEW kind \in {"error", "note"}, NEW n \in Nat, Requests!Notes(kind, n)
  PROVE  Requests!StoreInv'
<1>1. Requests!InTools /\ Requests!Result(Requests!Told(kind, n)) /\ UNCHANGED Requests!store
  BY DEF Requests!Notes
<1> QED BY <1>1, NoteIsResult, PlainResultKeepsStore

LEMMA ListOf ==
  ASSUME NEW S, NEW n \in Nat, NEW f \in [1..n -> S]
  PROVE  f \in Seq(S) /\ Len(f) = n /\ DOMAIN f = 1..n
OBVIOUS

LEMMA CallsKeepStore ==
  ASSUME Requests!StoreInv, NEW b, NEW n \in Nat, n # 0, NEW ids \in [1..n -> UNION {FreshIds(x5 + 1, c) : c \in 1..n}],
         \A c \in 1..n : ids[c] \in FreshIds(x5 + 1, c), Requests!Calls(b, ids)
  PROVE  Requests!StoreInv'
<1>1. /\ x5 \in Nat /\ DOMAIN x11 \subseteq (0..x5) \X Nat
      /\ x5' = x5 + 1 /\ x8' = ids /\ x9' = <<>> /\ x6' = "tools"
      /\ UNCHANGED <<x10, x11, x12, x13>>
  BY DEF Requests!StoreInv, Requests!StoreTypeOK, Requests!CallsAreFresh, Requests!BetweenRounds, Requests!Calls, Requests!store
<1>2. \A c \in 1..n : ids[c] = <<x5 + 1, c>>
  BY FreshCalls
<1>3. PICK I : I = Nat \X Nat
  OBVIOUS
<1>a. ids \in Seq(Nat \X Nat) /\ Len(ids) = n /\ DOMAIN ids = 1..n
  <2>1. ASSUME NEW c \in 1..n PROVE ids[c] \in I
    <3>1. c \in Nat /\ x5 + 1 \in Nat /\ ids[c] = <<x5 + 1, c>>
      BY <1>1, <1>2
    <3> QED BY <3>1, <1>3
  <2>2. ids \in [1..n -> I]
    BY <2>1
  <2>3. ids \in Seq(I) /\ Len(ids) = n /\ DOMAIN ids = 1..n
    BY <2>2, ListOf
  <2> QED BY <2>3, <1>3
<1>4. x9' \in Seq(Requests!DeliveredResult) /\ Len(x9') = 0 /\ DOMAIN x9' = {}
  BY <1>1
<1>5. ASSUME NEW id \in DOMAIN x11 PROVE id \in (0..(x5 + 1)) \X Nat /\ id[1] # x5 + 1
  <2>1. id \in (0..x5) \X Nat
    BY <1>1
  <2>2. id[1] \in 0..x5 /\ id[2] \in Nat /\ id = <<id[1], id[2]>>
    BY <2>1
  <2>3. id[1] \in 0..(x5 + 1) /\ id[1] # x5 + 1
    BY <1>1, <2>2
  <2> QED BY <2>2, <2>3
<1>6. Requests!CallsAreFresh'
  <2>1. ids # <<>>
    BY <1>a
  <2> QED BY <1>1, <1>2, <1>a, <1>4, <1>5, <2>1 DEF Requests!CallsAreFresh
<1>7. Requests!PointersAreGood'
  BY <1>4 DEF Requests!PointersAreGood
<1> QED BY <1>1, <1>4, <1>6, <1>7 DEF Requests!StoreInv, Requests!StoreTypeOK, Requests!PagesAreTheResult

LEMMA PageIsData ==
  ASSUME Requests!StoreInv, NEW ref \in DOMAIN x10, NEW limit \in Nat, NEW offset \in 0..Len(x10[ref].items)
  PROVE  Requests!Page(ref, offset, limit) \in Requests!Data
<1>1. x10[ref] \in Requests!Output
  BY DEF Requests!StoreInv, Requests!StoreTypeOK
<1>2. PICK D : D = Nat \X Nat \X Nat /\ Requests!Data = Seq(D)
  BY DEF Requests!Data
<1>3. PICK o \in Seq(D) : o = x10[ref].items
  BY <1>1, <1>2 DEF Requests!Output
<1>4. PICK m, end : m = offset /\ end = (IF offset + limit < Len(o) THEN offset + limit ELSE Len(o))
  OBVIOUS
<1>5. m \in 0..Len(o) /\ end \in m..Len(o)
  BY <1>3, <1>4
<1>6. SubSeq(o, m + 1, end) \in Seq(D)
  BY <1>5, PartOf
<1>7. Requests!Page(ref, offset, limit) \in {o, SubSeq(o, m + 1, end)}
  BY <1>3, <1>4 DEF Requests!Page
<1> QED BY <1>2, <1>6, <1>7

\* What the model has read once it reads on.
ReadOn(ref, offset, limit) ==
  IF x10[ref].list THEN x12[ref] \o Requests!Page(ref, offset, limit) ELSE Requests!Page(ref, offset, limit)

LEMMA ReadingOn ==
  ASSUME Requests!StoreInv, NEW ref \in DOMAIN x10, NEW limit \in Nat, NEW offset, Requests!GoesOnFrom(ref, offset)
  PROVE  /\ ReadOn(ref, offset, limit) \in Requests!Data /\ Requests!IsPrefix(ReadOn(ref, offset, limit), x10[ref].items)
         /\ ~Requests!HasMore(ref, offset, limit) => ReadOn(ref, offset, limit) = x10[ref].items
         /\ ref \in x13 => ~Requests!HasMore(ref, offset, limit)
<1>1. x10[ref] \in Requests!Output /\ x12[ref] \in Requests!Data
  BY DEF Requests!StoreInv, Requests!StoreTypeOK
<1>2. Requests!IsPrefix(x12[ref], x10[ref].items) /\ (ref \in x13 => x12[ref] = x10[ref].items)
  BY DEF Requests!StoreInv, Requests!PagesAreTheResult
<1>3. PICK D : D = Nat \X Nat \X Nat /\ Requests!Data = Seq(D)
  BY DEF Requests!Data
<1>4. PICK o \in Seq(D), p \in Seq(D) : o = x10[ref].items /\ p = x12[ref]
  BY <1>1, <1>3 DEF Requests!Output
<1>5. Len(p) \in Nat /\ Len(o) \in Nat /\ Len(p) <= Len(o)
  BY <1>2, <1>4, PrefixGives
<1>6. CASE ~x10[ref].list
  <2>1. Requests!Page(ref, offset, limit) = o /\ ReadOn(ref, offset, limit) = o /\ ~Requests!HasMore(ref, offset, limit)
    BY <1>4, <1>6 DEF Requests!Page, ReadOn, Requests!HasMore
  <2>2. Requests!IsPrefix(o, o)
    BY <1>5, PrefixByElements
  <2> QED BY <1>3, <1>4, <2>1, <2>2
<1>7. CASE x10[ref].list
  <2>1. PICK m, end : m = Len(p) /\ end = (IF m + limit < Len(o) THEN m + limit ELSE Len(o))
    OBVIOUS
  <2>2. m \in 0..Len(o) /\ end \in m..Len(o)
    BY <1>5, <2>1
  <2>3. PICK page : page = SubSeq(o, m + 1, end)
    OBVIOUS
  <2>4. page \in Seq(D) /\ Len(page) = end - m /\ \A i \in 1..(end - m) : page[i] = o[m + i]
    BY <2>2, <2>3, PartOf
  <2>5. /\ p \o page \in Seq(D) /\ Requests!IsPrefix(p \o page, o)
        /\ ~(Len(p) + Len(page) < Len(o)) => p \o page = o
    <3>1. end \in Len(p)..Len(o) /\ Requests!IsPrefix(p, o) /\ Len(page) = end - Len(p) /\ \A i \in 1..(end - Len(p)) : page[i] = o[Len(p) + i]
      BY <1>2, <1>4, <2>1, <2>2, <2>4
    <3>2. p \o page \in Seq(D)
      BY <2>4, <3>1, PageExtends, SMTT(30)
    <3>3. Requests!IsPrefix(p \o page, o)
      BY <2>4, <3>1, PageExtends, SMTT(30)
    <3>4. ~(Len(p) + Len(page) < Len(o)) => p \o page = o
      BY <2>4, <3>1, PageExtends, SMTT(90)
    <3> QED BY <3>2, <3>3, <3>4
  <2>6. Requests!Page(ref, offset, limit) = page /\ offset = Len(p)
    BY <1>4, <1>7, <2>1, <2>3 DEF Requests!Page, Requests!GoesOnFrom
  <2>7. ReadOn(ref, offset, limit) = p \o page /\ (Requests!HasMore(ref, offset, limit) <=> Len(p) + Len(page) < Len(o))
    BY <1>4, <1>7, <2>6 DEF ReadOn, Requests!HasMore
  <2>8. p = o => ~(Len(p) + Len(page) < Len(o))
    BY <2>4, <1>5
  <2> QED BY <1>2, <1>3, <1>4, <2>5, <2>7, <2>8
<1> QED BY <1>6, <1>7

LEMMA ReadKeepsStore ==
  ASSUME Requests!StoreInv, NEW ref \in DOMAIN x10, NEW limit \in Nat, NEW offset \in 0..Len(x10[ref].items),
         Requests!Read(ref, offset, limit)
  PROVE  Requests!StoreInv'
<1>1. /\ x10 \in Seq(Requests!Output) /\ x12 \in Seq(Requests!Data) /\ Len(x12) = Len(x10) /\ x13 \subseteq DOMAIN x10
      /\ x9 \in Seq(Requests!DeliveredResult) /\ x5 \in Nat
  BY DEF Requests!StoreInv, Requests!StoreTypeOK
<1>2. PICK n : n = Len(Requests!Page(ref, offset, limit))
  OBVIOUS
<1>3. n \in Nat
  BY <1>2, PageIsData DEF Requests!Data
<1>4. /\ x9' = Append(x9, Requests!Told("note", n)) /\ Requests!InTools
      /\ UNCHANGED <<x5, x6, x8, x10, x11>>
  BY <1>2 DEF Requests!Read, Requests!Result
<1>5. Requests!Told("note", n) \in Requests!DeliveredResult /\ Requests!Told("note", n).ref = 0
  BY <1>3, <1>4, NoteIsResult
<1>6. Requests!CallsAreFresh' /\ Requests!PointersAreGood' /\ x9' \in Seq(Requests!DeliveredResult)
  <2>1. Len(x10) \in Nat
    BY <1>1
  <2> QED BY <1>1, <1>4, <1>5, <2>1, ResultAdded
<1>7. CASE ~Requests!GoesOnFrom(ref, offset)
  <2>1. UNCHANGED <<x12, x13>>
    BY <1>7 DEF Requests!Read
  <2> QED BY <1>1, <1>4, <1>6, <2>1 DEF Requests!StoreInv, Requests!StoreTypeOK, Requests!PagesAreTheResult
<1>8. CASE Requests!GoesOnFrom(ref, offset)
  <2>1. PICK p : p = ReadOn(ref, offset, limit)
    OBVIOUS
  <2>2. /\ p \in Requests!Data /\ Requests!IsPrefix(p, x10[ref].items)
        /\ ~Requests!HasMore(ref, offset, limit) => p = x10[ref].items
        /\ ref \in x13 => ~Requests!HasMore(ref, offset, limit)
    BY <1>8, <2>1, ReadingOn
  <2>3. /\ x12' = [x12 EXCEPT ![ref] = p]
        /\ x13' = IF Requests!HasMore(ref, offset, limit) THEN x13 ELSE x13 \cup {ref}
    BY <1>8, <2>1 DEF Requests!Read, ReadOn
  <2>4. ref \in DOMAIN x12 /\ DOMAIN x12 = DOMAIN x10
    BY <1>1
  <2>5. /\ x12' \in Seq(Requests!Data) /\ Len(x12') = Len(x12) /\ x12'[ref] = p
        /\ \A m \in DOMAIN x12 : m # ref => x12'[m] = x12[m]
    BY <1>1, <2>2, <2>3, <2>4
  <2>6. x13' \subseteq DOMAIN x10 /\ (ref \in x13' => ~Requests!HasMore(ref, offset, limit))
        /\ \A m \in x13' : m # ref => m \in x13
    BY <1>1, <2>2, <2>3
  <2>7. Requests!PagesAreTheResult'
    <3> SUFFICES ASSUME NEW m \in DOMAIN x10
                 PROVE  Requests!IsPrefix(x12'[m], x10[m].items) /\ (m \in x13' => x12'[m] = x10[m].items)
      BY <1>4 DEF Requests!PagesAreTheResult
    <3>1. CASE m = ref
      BY <2>2, <2>5, <2>6, <3>1
    <3>2. CASE m # ref
      <4>1. x12'[m] = x12[m] /\ (m \in x13' => m \in x13)
        BY <2>4, <2>5, <2>6, <3>2
      <4> QED BY <4>1 DEF Requests!StoreInv, Requests!PagesAreTheResult
    <3> QED BY <3>1, <3>2
  <2> QED BY <1>1, <1>4, <1>6, <2>5, <2>6, <2>7 DEF Requests!StoreInv, Requests!StoreTypeOK
<1> QED BY <1>7, <1>8

\* The next pass is no delivery.
LEMMA LoopKeepsStore ==
  ASSUME Requests!StoreInv, Requests!LoopsOn \/ x6' = "over", UNCHANGED <<x5, Requests!store>>,
         x9' = <<>> \/ (x9' = x9 /\ Requests!BetweenRounds)
  PROVE  Requests!StoreInv'
<1>1. x6' # "tools"
  BY DEF Requests!LoopsOn
<1> QED BY <1>1, StoreQuiet DEF Requests!store

LEMMA StoreStep ==
  ASSUME Requests!StoreInv, [Requests!RequestNext]_(Requests!requestVars)
  PROVE  Requests!StoreInv'
<1>1. CASE Requests!Compact
  BY <1>1, StoreQuiet DEF Requests!Compact, Requests!BetweenRounds, Requests!store
<1>2. CASE Requests!Assemble
  BY <1>2, StoreQuiet DEF Requests!Assemble, Requests!BetweenRounds, Requests!store
<1>3. CASE Requests!Answers \/ Requests!Fails
  BY <1>3, EndKeepsStore DEF Requests!Answers, Requests!Fails
<1>4. ASSUME NEW b, Requests!RoundEnds(b) PROVE Requests!StoreInv'
  BY <1>4, LoopKeepsStore DEF Requests!RoundEnds
<1>5. ASSUME NEW b, Requests!GoesOn(b) PROVE Requests!StoreInv'
  BY <1>5, LoopKeepsStore DEF Requests!GoesOn, Requests!BetweenRounds
<1>6. ASSUME NEW b, NEW n \in 1..CallsIn(x5 + 1),
             NEW ids \in [1..n -> UNION {FreshIds(x5 + 1, c) : c \in 1..n}],
             \A c \in 1..n : ids[c] \in FreshIds(x5 + 1, c), Requests!Calls(b, ids)
      PROVE  Requests!StoreInv'
  <2>1. n \in Nat /\ n # 0
    BY <1>6
  <2> QED BY <1>6, <2>1, CallsKeepStore
<1>7. ASSUME NEW n \in Lengths, NEW list \in BOOLEAN, Requests!Tool(n, list) PROVE Requests!StoreInv'
  BY <1>7, ToolKeepsStore, NaturalBounds
<1>8. ASSUME NEW n \in Lengths, NEW kind \in {"error", "note"}, Requests!Notes(kind, n) PROVE Requests!StoreInv'
  BY <1>8, NoteKeepsStore, NaturalBounds
<1>9. ASSUME NEW ref \in DOMAIN x10, NEW limit \in 1..Inline, NEW offset \in 0..Len(x10[ref].items),
             Requests!Read(ref, offset, limit)
      PROVE  Requests!StoreInv'
  <2>1. limit \in Nat
    BY NaturalBounds
  <2> QED BY <1>9, <2>1, ReadKeepsStore
<1>10. CASE UNCHANGED Requests!requestVars
  BY <1>10, StoreStutters
<1> QED BY <1>1, <1>2, <1>3, <1>4, <1>5, <1>6, <1>7, <1>8, <1>9, <1>10 DEF Requests!RequestNext

LEMMA StoreInitially ==
  ASSUME Requests!RequestInit
  PROVE  Requests!StoreInv
<1>1. /\ x5 = 0 /\ x6 = "compact" /\ x9 = <<>>
      /\ x10 = <<>> /\ x11 = <<>> /\ x12 = <<>> /\ x13 = {}
  BY DEF Requests!RequestInit
<1>2. Requests!StoreTypeOK
  BY <1>1 DEF Requests!StoreTypeOK
<1>3. Requests!CallsAreFresh
  BY <1>1 DEF Requests!CallsAreFresh
<1>4. Requests!PointersAreGood /\ Requests!PagesAreTheResult
  BY <1>1 DEF Requests!PointersAreGood, Requests!PagesAreTheResult
<1> QED BY <1>2, <1>3, <1>4 DEF Requests!StoreInv

LEMMA StoreIsReadable ==
  ASSUME Requests!StoreInv
  PROVE  Requests!ResultsAreReadable
BY DEF Requests!StoreInv, Requests!ResultsAreReadable, Requests!PointersAreGood, Requests!PointerIsOfItsResult

\* A set of numbers with a member has a least one: what stands in for induction.
LEMMA Least ==
  ASSUME NEW T, T \subseteq Nat, T # {}
  PROVE  \E n \in T : \A m \in T : n <= m
<1>1. PICK n \in T : \A m \in T : <<m, n>> \notin OpToRel(<, Nat)
  BY NatLessThanWellFounded, WFMin
<1>2. ASSUME NEW m \in T PROVE n <= m
  <2>1. m \in Nat /\ n \in Nat
    OBVIOUS
  <2>2. ~(m < n)
    BY <1>1, <2>1 DEF OpToRel
  <2> QED BY <2>1, <2>2
<1> QED BY <1>2

\* The sums of the first sizes: a function that meets the recursion exists.
LEMMA SumsExist ==
  ASSUME NEW S, \A s \in S : s.size \in Nat, NEW q \in Seq(S)
  PROVE  \E f \in [0..Len(q) -> Nat] : \A n \in 0..Len(q) : f[n] = IF n = 0 THEN 0 ELSE f[n - 1] + q[n].size
<1> DEFINE P(k) == \E f \in [0..k -> Nat] : \A n \in 0..k : f[n] = IF n = 0 THEN 0 ELSE f[n - 1] + q[n].size
           Bad == {k \in 0..Len(q) : ~P(k)}
<1>0. Len(q) \in Nat
  OBVIOUS
<1>1. ASSUME NEW k \in Bad, \A m \in Bad : k <= m PROVE FALSE
  <2>1. k \in 0..Len(q) /\ ~P(k) /\ k \in Nat
    <3>1. k \in 0..Len(q) /\ ~P(k)
      BY Zenon
    <3>2. \A n \in 0..Len(q) : n \in Nat
      BY <1>0
    <3> QED BY <3>1, <3>2, Zenon
  <2>2. CASE k = 0
    <3>1. PICK f : f = [n \in 0..0 |-> 0]
      OBVIOUS
    <3>2. f \in [0..k -> Nat] /\ \A n \in 0..k : f[n] = IF n = 0 THEN 0 ELSE f[n - 1] + q[n].size
      BY <3>1, <2>2
    <3> QED BY <3>2, <2>1
  <2>3. CASE k # 0
    <3>1. k - 1 \in 0..Len(q) /\ ~(k <= k - 1)
      BY <1>0, <2>1, <2>3
    <3>2. P(k - 1)
      BY <3>1, <1>1
    <3>3. PICK f \in [0..(k - 1) -> Nat] : \A n \in 0..(k - 1) : f[n] = IF n = 0 THEN 0 ELSE f[n - 1] + q[n].size
      BY <3>2
    <3>4. PICK g : g = [n \in 0..k |-> IF n = k THEN f[k - 1] + q[k].size ELSE f[n]]
      OBVIOUS
    <3>5. q[k].size \in Nat /\ f[k - 1] \in Nat
      <4>1. k \in 1..Len(q) /\ k - 1 \in 0..(k - 1)
        BY <1>0, <2>1, <2>3
      <4>2. q[k] \in S
        BY <4>1
      <4> QED BY <4>1, <4>2, <3>3
    <3>6. ASSUME NEW n \in 0..k PROVE g[n] \in Nat /\ g[n] = IF n = 0 THEN 0 ELSE g[n - 1] + q[n].size
      <4>1. CASE n = k
        <5>1. k - 1 \in 0..k /\ k - 1 # k
          BY <2>1, <2>3
        <5> QED BY <2>3, <3>4, <3>5, <4>1, <5>1
      <4>2. CASE n # k
        <5>1. n \in 0..(k - 1)
          BY <2>1, <4>2
        <5>2. g[n] = f[n] /\ f[n] \in Nat
          BY <3>3, <3>4, <4>2, <5>1
        <5>3. n # 0 => n - 1 \in 0..k /\ n - 1 # k
          BY <2>1, <4>2
        <5> QED BY <3>3, <3>4, <5>1, <5>2, <5>3
      <4> QED BY <4>1, <4>2
    <3>7. g \in [0..k -> Nat]
      BY <3>4, <3>6
    <3> QED BY <2>1, <3>6, <3>7
  <2> QED BY <2>2, <2>3
<1>2. Bad = {}
  <2> SUFFICES ASSUME Bad # {} PROVE FALSE
    OBVIOUS
  <2>1. Bad \subseteq Nat
    OBVIOUS
  <2>2. PICK k \in Bad : \A m \in Bad : k <= m
    BY <2>1, Least
  <2> QED BY <2>2, <1>1
<1>3. Len(q) \in 0..Len(q)
  BY <1>0
<1>4. P(Len(q))
  BY <1>2, <1>3
<1> QED BY <1>4

LEMMA SumsOf ==
  ASSUME NEW S, \A s \in S : s.size \in Nat, NEW q \in Seq(S)
  PROVE  /\ Requests!Sums(q) \in [0..Len(q) -> Nat] /\ Requests!Sums(q)[0] = 0 /\ Len(q) \in Nat
         /\ \A n \in 1..Len(q) : Requests!Sums(q)[n] = Requests!Sums(q)[n - 1] + q[n].size /\ q[n].size \in Nat
<1>0. Len(q) \in Nat
  OBVIOUS
<1>1. PICK f \in [0..Len(q) -> Nat] : \A n \in 0..Len(q) : f[n] = IF n = 0 THEN 0 ELSE f[n - 1] + q[n].size
  BY SumsExist
<1>2. f = [n \in 0..Len(q) |-> IF n = 0 THEN 0 ELSE f[n - 1] + q[n].size]
  BY <1>1
<1>3. Requests!Sums(q) = [n \in 0..Len(q) |-> IF n = 0 THEN 0 ELSE Requests!Sums(q)[n - 1] + q[n].size]
  BY <1>2 DEF Requests!Sums
<1>4. PICK g : g = Requests!Sums(q)
  OBVIOUS
<1>5. g = [n \in 0..Len(q) |-> IF n = 0 THEN 0 ELSE g[n - 1] + q[n].size]
  BY <1>3, <1>4
<1>6. \A n \in 0..Len(q) : g[n] = IF n = 0 THEN 0 ELSE g[n - 1] + q[n].size
  BY <1>5
<1>7. \A n \in 1..Len(q) : q[n].size \in Nat /\ n \in 0..Len(q) /\ n # 0
  OBVIOUS
<1>8. ASSUME NEW k \in {n \in 0..Len(q) : g[n] \notin Nat}, \A m \in {n \in 0..Len(q) : g[n] \notin Nat} : k <= m PROVE FALSE
  <2>1. CASE k = 0
    BY <1>6, <2>1, <1>8
  <2>2. CASE k # 0
    <3>1. k - 1 \in 0..Len(q) /\ ~(k <= k - 1) /\ k \in 1..Len(q)
      BY <1>0, <2>2
    <3>2. g[k - 1] \in Nat
      BY <3>1, <1>8
    <3> QED BY <1>6, <1>7, <3>1, <3>2
  <2> QED BY <2>1, <2>2
<1>9. \A n \in 0..Len(q) : g[n] \in Nat
  <2> SUFFICES ASSUME {n \in 0..Len(q) : g[n] \notin Nat} # {} PROVE FALSE
    OBVIOUS
  <2>1. {n \in 0..Len(q) : g[n] \notin Nat} \subseteq Nat
    OBVIOUS
  <2>2. PICK k \in {n \in 0..Len(q) : g[n] \notin Nat} : \A m \in {n \in 0..Len(q) : g[n] \notin Nat} : k <= m
    BY <2>1, Least
  <2> QED BY <2>2, <1>8
<1>10. g \in [0..Len(q) -> Nat]
  BY <1>5, <1>9
<1>11. g[0] = 0
  BY <1>0, <1>6
<1>12. \A n \in 1..Len(q) : g[n] = g[n - 1] + q[n].size
  BY <1>6, <1>7
<1> QED BY <1>0, <1>4, <1>7, <1>10, <1>11, <1>12

LEMMA SumsStep ==
  ASSUME NEW S, \A s \in S : s.size \in Nat, NEW p \in Seq(S), NEW q \in Seq(S),
         NEW i \in 0..Len(p), NEW m \in 1..Len(p), NEW j \in 0..Len(q), NEW n \in 1..Len(q),
         p[m].size = q[n].size, Requests!Sums(p)[m - 1] + Requests!Sums(q)[j] = Requests!Sums(q)[n - 1] + Requests!Sums(p)[i]
  PROVE  Requests!Sums(p)[m] + Requests!Sums(q)[j] = Requests!Sums(q)[n] + Requests!Sums(p)[i]
<1>1. /\ Requests!Sums(p) \in [0..Len(p) -> Nat] /\ Len(p) \in Nat
      /\ Requests!Sums(p)[m] = Requests!Sums(p)[m - 1] + p[m].size /\ p[m].size \in Nat
  BY SumsOf
<1>2. Requests!Sums(q) \in [0..Len(q) -> Nat] /\ Len(q) \in Nat /\ Requests!Sums(q)[n] = Requests!Sums(q)[n - 1] + q[n].size
  BY SumsOf
<1>3. m - 1 \in 0..Len(p) /\ n - 1 \in 0..Len(q)
  BY <1>1, <1>2
<1>4. PICK v, w, x, y, z : /\ v = Requests!Sums(p)[m - 1] /\ w = Requests!Sums(q)[n - 1] /\ x = Requests!Sums(p)[i] /\ y = Requests!Sums(q)[j] /\ z = p[m].size
  OBVIOUS
<1>5. v \in Nat /\ w \in Nat /\ x \in Nat /\ y \in Nat /\ z \in Nat /\ v + y = w + x
  BY <1>1, <1>2, <1>3, <1>4
<1>6. Requests!Sums(p)[m] = v + z /\ Requests!Sums(q)[n] = w + z /\ Requests!Sums(p)[i] = x /\ Requests!Sums(q)[j] = y
  BY <1>1, <1>2, <1>4
<1>7. (v + z) + y = (w + z) + x
  BY <1>5
<1> QED BY <1>6, <1>7

\* Stretches of equal sizes add the same.
LEMMA SumsAgree ==
  ASSUME NEW S, \A s \in S : s.size \in Nat, NEW p \in Seq(S), NEW q \in Seq(S),
         NEW i \in 0..Len(p), NEW a \in i..Len(p), NEW j \in 0..Len(q), NEW b \in j..Len(q), a - i = b - j,
         \A m \in 1..Len(p), n \in 1..Len(q) : i < m /\ m <= a /\ m - i = n - j => p[m].size = q[n].size
  PROVE  Requests!Sums(p)[a] + Requests!Sums(q)[j] = Requests!Sums(q)[b] + Requests!Sums(p)[i]
<1>1. PICK f, g : f = Requests!Sums(p) /\ g = Requests!Sums(q)
  OBVIOUS
<1>2. f \in [0..Len(p) -> Nat] /\ Len(p) \in Nat /\ g \in [0..Len(q) -> Nat] /\ Len(q) \in Nat
  BY <1>1, SumsOf
<1> DEFINE Bad == {m \in i..a : f[m] + g[j] # g[j + (m - i)] + f[i]}
<1>3. ASSUME NEW m \in Bad, \A o \in Bad : m <= o PROVE FALSE
  <2>1. m \in i..a /\ f[m] + g[j] # g[j + (m - i)] + f[i]
    OBVIOUS
  <2>2. m # i
    <3>1. f[i] \in Nat /\ g[j] \in Nat /\ j + (i - i) = j
      BY <1>2
    <3>2. f[i] + g[j] = g[j] + f[i]
      BY <3>1
    <3> QED BY <2>1, <3>1, <3>2
  <2>3. PICK n : n = j + (m - i)
    OBVIOUS
  <2>4. /\ m \in 1..Len(p) /\ n \in 1..Len(q) /\ i < m /\ m <= a /\ m - i = n - j
        /\ m - 1 \in i..a /\ ~(m <= m - 1) /\ n - 1 = j + ((m - 1) - i)
    BY <1>2, <2>1, <2>2, <2>3
  <2>5. f[m - 1] + g[j] = g[n - 1] + f[i]
    BY <2>4, <1>3
  <2>6. p[m].size = q[n].size
    BY <2>4
  <2>7. f[m] + g[j] = g[n] + f[i]
    <3>1. m \in 1..Len(p)
      BY <2>4
    <3>2. n \in 1..Len(q)
      BY <2>4
    <3>3. Requests!Sums(p)[m - 1] + Requests!Sums(q)[j] = Requests!Sums(q)[n - 1] + Requests!Sums(p)[i]
      BY <1>1, <2>5
    <3>4. Requests!Sums(p)[m] + Requests!Sums(q)[j] = Requests!Sums(q)[n] + Requests!Sums(p)[i]
      BY <2>6, <3>1, <3>2, <3>3, SumsStep, ZenonT(30)
    <3> QED BY <1>1, <3>4
  <2> QED BY <2>1, <2>3, <2>7
<1>4. Bad = {}
  <2> SUFFICES ASSUME Bad # {} PROVE FALSE
    OBVIOUS
  <2>1. Bad \subseteq Nat
    BY <1>2
  <2>2. PICK m \in Bad : \A o \in Bad : m <= o
    BY <2>1, Least
  <2> QED BY <2>2, <1>3
<1>5. a \in i..a /\ j + (a - i) = b
  BY <1>2
<1> QED BY <1>1, <1>4, <1>5

LEMMA SumsGrow ==
  ASSUME NEW S, \A s \in S : s.size \in Nat, NEW q \in Seq(S), NEW i \in 0..Len(q), NEW j \in i..Len(q)
  PROVE  Requests!Sums(q)[i] <= Requests!Sums(q)[j] /\ Requests!Sums(q)[i] \in Nat /\ Requests!Sums(q)[j] \in Nat
<1>1. PICK g : g = Requests!Sums(q)
  OBVIOUS
<1>2. /\ g \in [0..Len(q) -> Nat] /\ Len(q) \in Nat
      /\ \A n \in 1..Len(q) : g[n] = g[n - 1] + q[n].size /\ q[n].size \in Nat
  BY <1>1, SumsOf
<1> DEFINE Bad == {m \in i..Len(q) : g[m] < g[i]}
<1>3. ASSUME NEW m \in Bad, \A b \in Bad : m <= b PROVE FALSE
  <2>1. m \in i..Len(q) /\ g[m] < g[i] /\ g[i] \in Nat
    BY <1>2
  <2>2. m # i
    BY <2>1
  <2>3. m - 1 \in i..Len(q) /\ ~(m <= m - 1) /\ m \in 1..Len(q) /\ m - 1 \in 0..Len(q)
    BY <1>2, <2>1, <2>2
  <2>4. ~(g[m - 1] < g[i])
    BY <2>3, <1>3
  <2>5. g[m] = g[m - 1] + q[m].size /\ q[m].size \in Nat /\ g[m - 1] \in Nat
    BY <1>2, <2>3
  <2> QED BY <2>1, <2>4, <2>5
<1>4. Bad = {}
  <2> SUFFICES ASSUME Bad # {} PROVE FALSE
    OBVIOUS
  <2>1. Bad \subseteq Nat
    BY <1>2
  <2>2. PICK m \in Bad : \A b \in Bad : m <= b
    BY <2>1, Least
  <2> QED BY <2>2, <1>3
<1>5. g[i] \in Nat /\ g[j] \in Nat /\ ~(g[j] < g[i])
  BY <1>2, <1>4
<1> QED BY <1>1, <1>5

LEMMA SizeWithOneMore ==
  ASSUME NEW S, \A s \in S : s.size \in Nat, NEW q \in Seq(S), NEW r \in Seq(S), Len(r) = Len(q) + 1,
         \A n \in 1..Len(q) : r[n] = q[n]
  PROVE  Requests!SizeOf(r) = Requests!SizeOf(q) + r[Len(q) + 1].size /\ Requests!SizeOf(q) \in Nat /\ Requests!SizeOf(r) \in Nat
<1>1. r \in Seq(S) /\ Len(r) = Len(q) + 1 /\ Len(q) \in Nat
  OBVIOUS
<1>3. Requests!Sums(r)[Len(q)] + Requests!Sums(q)[0] = Requests!Sums(q)[Len(q)] + Requests!Sums(r)[0]
  <2>1. 0 \in 0..Len(r) /\ Len(q) \in 0..Len(r) /\ 0 \in 0..Len(q) /\ Len(q) \in 0..Len(q)
    BY <1>1
  <2>2. \A m \in 1..Len(r), n \in 1..Len(q) : 0 < m /\ m <= Len(q) /\ m - 0 = n - 0 => r[m].size = q[n].size
    BY <1>1
  <2>3. Requests!Sums(r)[Len(q)] + Requests!Sums(q)[0] = Requests!Sums(q)[Len(q)] + Requests!Sums(r)[0]
    BY <1>1, <2>1, <2>2, SumsAgree
  <2> QED BY <2>3
<1>4. Requests!Sums(q) \in [0..Len(q) -> Nat] /\ Requests!Sums(q)[0] = 0
  BY SumsOf
<1>5. /\ Requests!Sums(r) \in [0..Len(r) -> Nat] /\ Requests!Sums(r)[0] = 0
      /\ \A n \in 1..Len(r) : Requests!Sums(r)[n] = Requests!Sums(r)[n - 1] + r[n].size
  BY <1>1, SumsOf
<1>6. Requests!Sums(r)[Len(q)] = Requests!Sums(q)[Len(q)] /\ Requests!Sums(q)[Len(q)] \in Nat
  <2>1. Len(q) \in 0..Len(q) /\ Len(q) \in 0..Len(r)
    BY <1>1
  <2>2. Requests!Sums(q)[Len(q)] \in Nat /\ Requests!Sums(r)[Len(q)] \in Nat
    BY <1>4, <1>5, <2>1
  <2> QED BY <1>3, <1>4, <1>5, <2>1, <2>2
<1>7. Requests!Sums(r)[Len(r)] = Requests!Sums(r)[Len(q)] + r[Len(q) + 1].size
  <2>1. Len(q) + 1 \in 1..Len(r) /\ (Len(q) + 1) - 1 = Len(q)
    BY <1>1
  <2> QED BY <1>1, <1>5, <2>1
<1> QED BY <1>1, <1>6, <1>7 DEF Requests!SizeOf

LEMMA SizeOfAppend ==
  ASSUME NEW S, \A s \in S : s.size \in Nat, NEW q \in Seq(S), NEW e \in S, NEW r, r = Append(q, e)
  PROVE  Requests!SizeOf(r) = Requests!SizeOf(q) + e.size /\ Requests!SizeOf(q) \in Nat /\ Requests!SizeOf(r) \in Nat
<1>1. /\ r \in Seq(S) /\ Len(r) = Len(q) + 1 /\ r[Len(q) + 1] = e /\ DOMAIN q = 1..Len(q)
      /\ \A n \in DOMAIN q : r[n] = q[n]
  BY AddedLast
<1>2. Requests!SizeOf(r) = Requests!SizeOf(q) + r[Len(q) + 1].size /\ Requests!SizeOf(q) \in Nat /\ Requests!SizeOf(r) \in Nat
  BY <1>1, SizeWithOneMore
<1> QED BY <1>1, <1>2
LEMMA Joined ==
  ASSUME NEW S, NEW d \in Seq(S), NEW b \in Seq(S)
  PROVE  /\ d \o b \in Seq(S) /\ Len(d \o b) = Len(d) + Len(b)
         /\ \A i \in 1..(Len(d) + Len(b)) : (d \o b)[i] = IF i <= Len(d) THEN d[i] ELSE b[i - Len(d)]
OBVIOUS

\* One element in the place of c of them.
Splice(q, f, c, s) == SubSeq(q, 1, f) \o <<s>> \o SubSeq(q, f + c + 1, Len(q))

LEMMA Spliced ==
  ASSUME NEW S, NEW q \in Seq(S), NEW f \in 0..Len(q), NEW c \in 1..(Len(q) - f), NEW s \in S
  PROVE  /\ Splice(q, f, c, s) \in Seq(S) /\ Len(Splice(q, f, c, s)) = Len(q) - c + 1
         /\ Splice(q, f, c, s)[f + 1] = s /\ \A i \in 1..f : Splice(q, f, c, s)[i] = q[i]
         /\ \A i \in (f + 2)..(Len(q) - c + 1) : Splice(q, f, c, s)[i] = q[i + c - 1]
<1>1. Len(q) \in Nat /\ f \in Nat /\ c \in Nat /\ f + c \in 0..Len(q)
  OBVIOUS
<1>2. PICK a, b : a = SubSeq(q, 1, f) /\ b = SubSeq(q, f + c + 1, Len(q))
  OBVIOUS
<1>3. a \in Seq(S) /\ Len(a) = f /\ \A i \in 1..f : a[i] = q[i]
  <2>1. a = SubSeq(q, 0 + 1, f) /\ 0 \in 0..Len(q) /\ f \in 0..Len(q) /\ f - 0 = f
    BY <1>1, <1>2
  <2>2. /\ SubSeq(q, 0 + 1, f) \in Seq(S) /\ Len(SubSeq(q, 0 + 1, f)) = f - 0
        /\ \A i \in 1..(f - 0) : SubSeq(q, 0 + 1, f)[i] = q[0 + i]
    BY <2>1, PartOf
  <2>3. \A i \in 1..f : 0 + i = i
    BY <1>1
  <2> QED BY <2>1, <2>2, <2>3
<1>4. b \in Seq(S) /\ Len(b) = Len(q) - (f + c) /\ \A i \in 1..(Len(q) - (f + c)) : b[i] = q[f + c + i]
  <2>1. PICK m : m = f + c
    OBVIOUS
  <2>2. m \in 0..Len(q) /\ Len(q) \in m..Len(q) /\ b = SubSeq(q, m + 1, Len(q))
    BY <1>1, <1>2, <2>1
  <2>3. /\ SubSeq(q, m + 1, Len(q)) \in Seq(S) /\ Len(SubSeq(q, m + 1, Len(q))) = Len(q) - m
        /\ \A i \in 1..(Len(q) - m) : SubSeq(q, m + 1, Len(q))[i] = q[m + i]
    BY <2>2, PartOf
  <2> QED BY <2>1, <2>2, <2>3
<1>5. PICK d : d = a \o <<s>>
  OBVIOUS
<1>6. d \in Seq(S) /\ Len(d) = f + 1 /\ d[f + 1] = s /\ \A i \in 1..f : d[i] = q[i]
  BY <1>1, <1>3, <1>5
<1>7. PICK r : r = d \o b
  OBVIOUS
<1>8. r \in Seq(S) /\ Len(r) = Len(q) - c + 1 /\ \A i \in 1..Len(r) : r[i] = IF i <= Len(d) THEN d[i] ELSE b[i - Len(d)]
  <2>1. /\ d \o b \in Seq(S) /\ Len(d \o b) = Len(d) + Len(b)
        /\ \A i \in 1..(Len(d) + Len(b)) : (d \o b)[i] = IF i <= Len(d) THEN d[i] ELSE b[i - Len(d)]
    BY <1>4, <1>6, Joined
  <2>2. r \in Seq(S) /\ Len(r) = Len(d) + Len(b)
    BY <1>7, <2>1
  <2>3. \A i \in 1..Len(r) : r[i] = IF i <= Len(d) THEN d[i] ELSE b[i - Len(d)]
    BY <1>7, <2>1, <2>2
  <2>4. Len(d) + Len(b) = Len(q) - c + 1
    BY <1>1, <1>4, <1>6
  <2> QED BY <2>2, <2>3, <2>4
<1>9. r[f + 1] = s /\ \A i \in 1..f : r[i] = q[i]
  BY <1>1, <1>6, <1>8
<1>10. ASSUME NEW i \in (f + 2)..Len(r) PROVE r[i] = q[i + c - 1]
  <2>1. /\ i \in 1..Len(r) /\ ~(i <= Len(d)) /\ i - Len(d) \in 1..(Len(q) - (f + c))
        /\ f + c + (i - Len(d)) = i + c - 1
    <3>1. Len(r) = Len(q) - c + 1 /\ Len(d) = f + 1 /\ Len(q) \in Nat /\ f \in Nat /\ c \in Nat
      BY <1>1, <1>6, <1>8
    <3>2. i \in Nat /\ f + 2 <= i /\ i <= Len(r)
      BY <3>1
    <3>3. i - (f + 1) \in 1..(Len(q) - (f + c)) /\ f + c + (i - (f + 1)) = i + c - 1 /\ ~(i <= f + 1)
      BY <3>1, <3>2
    <3> QED BY <3>1, <3>2, <3>3
  <2> QED BY <1>4, <1>8, <2>1
<1>11. r = Splice(q, f, c, s)
  BY <1>2, <1>5, <1>7 DEF Splice
<1> QED BY <1>8, <1>9, <1>10, <1>11

\* A summary of size 1 in the place of c elements that have one at least.
\* A summary in the place of c elements that is no larger than they are.
LEMMA SpliceShrinks ==
  ASSUME NEW S, \A s \in S : s.size \in Nat, NEW q \in Seq(S), NEW r \in Seq(S), NEW f \in Nat, NEW c \in Nat
  PROVE  /\ c # 0 /\ f + c <= Len(q) /\ Len(r) = Len(q) - c + 1
         /\ Requests!Sums(q)[f] + r[f + 1].size <= Requests!Sums(q)[f + c]
         /\ \A n \in 1..f : r[n].size = q[n].size
         /\ \A n \in (f + 2)..Len(r) : r[n].size = q[n + c - 1].size
         => Requests!SizeOf(r) <= Requests!SizeOf(q)
<1>0. SUFFICES ASSUME /\ c # 0 /\ f + c <= Len(q) /\ Len(r) = Len(q) - c + 1
                      /\ Requests!Sums(q)[f] + r[f + 1].size <= Requests!Sums(q)[f + c]
                      /\ \A n \in 1..f : r[n].size = q[n].size
                      /\ \A n \in (f + 2)..Len(r) : r[n].size = q[n + c - 1].size
               PROVE  Requests!SizeOf(r) <= Requests!SizeOf(q)
  OBVIOUS
<1>1. /\ Requests!Sums(q) \in [0..Len(q) -> Nat] /\ Requests!Sums(q)[0] = 0 /\ Len(q) \in Nat
      /\ \A n \in 1..Len(q) : Requests!Sums(q)[n] = Requests!Sums(q)[n - 1] + q[n].size /\ q[n].size \in Nat
  BY SumsOf
<1>2. /\ Requests!Sums(r) \in [0..Len(r) -> Nat] /\ Requests!Sums(r)[0] = 0 /\ Len(r) \in Nat
      /\ \A n \in 1..Len(r) : Requests!Sums(r)[n] = Requests!Sums(r)[n - 1] + r[n].size /\ r[n].size \in Nat
  BY SumsOf
<1>3. PICK i, j, a, b : i = f + 1 /\ j = f + c /\ a = Len(r) /\ b = Len(q)
  OBVIOUS
<1>4. /\ i \in 0..Len(r) /\ i \in 1..Len(r) /\ a \in i..Len(r) /\ a \in 0..Len(r) /\ j \in 0..Len(q) /\ j \in 1..Len(q)
      /\ b \in j..Len(q) /\ b \in 0..Len(q) /\ a - i = b - j
      /\ f \in 0..Len(r) /\ f \in 0..Len(q) /\ 0 \in 0..Len(r) /\ 0 \in 0..Len(q) /\ i - 1 = f /\ j - 1 \in f..Len(q)
      /\ j - 1 \in 0..Len(q)
  BY <1>0, <1>1, <1>2, <1>3
<1>5. ASSUME NEW m \in 1..Len(r), NEW n \in 1..Len(q), 0 < m, m <= f, m - 0 = n - 0 PROVE r[m].size = q[n].size
  <2>1. m = n /\ m \in 1..f
    BY <1>1, <1>2, <1>5
  <2> QED BY <1>0, <2>1
<1>6. ASSUME NEW m \in 1..Len(r), NEW n \in 1..Len(q), i < m, m <= a, m - i = n - j PROVE r[m].size = q[n].size
  <2>1. m \in (f + 2)..Len(r) /\ n = m + c - 1
    BY <1>1, <1>2, <1>3, <1>6
  <2> QED BY <1>0, <2>1
<1>7. Requests!Sums(r)[f] = Requests!Sums(q)[f] /\ Requests!Sums(q)[f] \in Nat
  <2>1. \A m \in 1..Len(r), n \in 1..Len(q) : 0 < m /\ m <= f /\ m - 0 = n - 0 => r[m].size = q[n].size
    BY <1>5
  <2>a. 0 \in 0..Len(r) /\ f \in 0..Len(r) /\ 0 \in 0..Len(q) /\ f \in 0..Len(q)
    BY <1>4
  <2>2. Requests!Sums(r)[f] + Requests!Sums(q)[0] = Requests!Sums(q)[f] + Requests!Sums(r)[0]
    BY <2>a, <2>1, SumsAgree
  <2>3. Requests!Sums(r)[f] \in Nat /\ Requests!Sums(q)[f] \in Nat
    BY <1>1, <1>2, <1>4
  <2> QED BY <1>1, <1>2, <2>2, <2>3
<1>8. Requests!Sums(r)[a] + Requests!Sums(q)[j] = Requests!Sums(q)[b] + Requests!Sums(r)[i]
  <2>1. \A m \in 1..Len(r), n \in 1..Len(q) : i < m /\ m <= a /\ m - i = n - j => r[m].size = q[n].size
    BY <1>6
  <2>2. i \in 0..Len(r) /\ a \in i..Len(r) /\ j \in 0..Len(q) /\ b \in j..Len(q) /\ a - i = b - j
    BY <1>4
  <2> QED BY <2>1, <2>2, SumsAgree
<1>9. Requests!Sums(r)[i] = Requests!Sums(r)[f] + r[i].size /\ r[i].size \in Nat
  BY <1>2, <1>4
<1>10. Requests!Sums(q)[f] + r[i].size <= Requests!Sums(q)[j]
  BY <1>0, <1>3
<1>11. Requests!Sums(q)[j] \in Nat /\ Requests!Sums(r)[a] \in Nat /\ Requests!Sums(q)[b] \in Nat
  BY <1>1, <1>2, <1>4
<1>12. PICK v, w, x, y, z : v = Requests!Sums(q)[f] /\ w = Requests!Sums(q)[j] /\ x = Requests!Sums(r)[a] /\ y = Requests!Sums(q)[b] /\ z = r[i].size
  OBVIOUS
<1>13. v \in Nat /\ w \in Nat /\ x \in Nat /\ y \in Nat /\ z \in Nat /\ v + z <= w
  BY <1>7, <1>9, <1>10, <1>11, <1>12
<1>14. x + w = y + (v + z)
  BY <1>7, <1>8, <1>9, <1>12
<1>15. x <= y
  BY <1>13, <1>14
<1> QED BY <1>3, <1>12, <1>15 DEF Requests!SizeOf
LEMMA TailOf ==
  ASSUME NEW S, NEW q \in Seq(S), NEW d \in 0..Len(q)
  PROVE  /\ SubSeq(q, d + 1, Len(q)) \in Seq(S) /\ Len(SubSeq(q, d + 1, Len(q))) = Len(q) - d
         /\ \A i \in 1..(Len(q) - d) : SubSeq(q, d + 1, Len(q))[i] = q[d + i]
<1>1. Len(q) \in d..Len(q)
  OBVIOUS
<1> QED BY <1>1, PartOf

LEMMA SizeIsNumber ==
  ASSUME NEW S, \A s \in S : s.size \in Nat, NEW q \in Seq(S)
  PROVE  Requests!SizeOf(q) \in Nat
<1>1. Requests!Sums(q) \in [0..Len(q) -> Nat] /\ Len(q) \in Nat
  BY SumsOf
<1>2. Len(q) \in 0..Len(q)
  BY <1>1
<1> QED BY <1>1, <1>2 DEF Requests!SizeOf

LEMMA FrameSizes == \A s \in Requests!Frame : s.size \in Nat
BY DEF Requests!Frame

LEMMA SplicedFrames ==
  ASSUME NEW q \in Seq(Requests!Frame), NEW f \in 0..Len(q), NEW c \in 1..(Len(q) - f), NEW s \in Requests!Frame
  PROVE  /\ Splice(q, f, c, s) \in Seq(Requests!Frame) /\ Len(Splice(q, f, c, s)) = Len(q) - c + 1
         /\ Splice(q, f, c, s)[f + 1] = s /\ \A i \in 1..f : Splice(q, f, c, s)[i] = q[i]
         /\ \A i \in (f + 2)..(Len(q) - c + 1) : Splice(q, f, c, s)[i] = q[i + c - 1]
BY Spliced

\* Where a compaction puts what.
CompactedAs(f, c) ==
  /\ c # 0 /\ f + c <= Len(x1)
  /\ \/ f = x2 + 1 /\ x2' = x2 /\ f + c + KeepFrames <= Len(x1)
     \/ f = 0 /\ c <= x2 /\ x2' = x2 - (c - 1)
  /\ x1' \in Seq(Requests!Frame) /\ Len(x1') = Len(x1) - c + 1
  /\ x14' = "full" => x14 = "full" /\ (f # 0 => x1'[f + 1].size <= Requests!SizeOf(SubSeq(x1, f + 1, f + c)))
  /\ \A m : m \in x1'[f + 1].holds <=> \E i \in (f + 1)..(f + c) : m \in x1[i].holds
  /\ \A i \in 1..f : x1'[i] = x1[i]
  /\ \A i \in (f + 2)..Len(x1') : x1'[i] = x1[i + c - 1]

LEMMA CompactsSo ==
  ASSUME Requests!FramesInForm, NEW z \in SummarySizes, Requests!Compacts(z)
  PROVE  \E f \in Nat, c \in Nat : CompactedAs(f, c)
<1>1. /\ x1 \in Seq(Requests!Frame) /\ x2 \in Nat /\ x2 < Len(x1) /\ Len(x1) \in Nat
      /\ KeepFrames \in Nat /\ MinFrames \in Nat \ {0} /\ z \in Nat
  BY RequestBounds DEF Requests!FramesInForm
<1>2. PICK f, c : f = Requests!From /\ c = Requests!Count
  OBVIOUS
<1>3. /\ f \in Nat /\ c \in Nat /\ c # 0 /\ f + c <= Len(x1) /\ (f # 0 => Requests!InFlight)
      /\ \/ f = x2 + 1 /\ x2' = x2 /\ f + c + KeepFrames <= Len(x1)
         \/ f = 0 /\ c <= x2 /\ x2' = x2 - (c - 1)
  <2>1. Requests!Count >= MinFrames /\ x2' = Requests!StartAfter
    BY DEF Requests!Compacts
  <2>2. CASE Requests!InFlight
    <3>1. Requests!From = x2 + 1 /\ Requests!Count = Len(x1) - x2 - 1 - KeepFrames /\ Requests!From # 0
      BY <1>1, <2>2 DEF Requests!From, Requests!Count
    <3>2. x2' = x2
      BY <2>1, <3>1 DEF Requests!StartAfter
    <3> QED BY <1>1, <1>2, <2>1, <2>2, <3>1, <3>2
  <2>3. CASE ~Requests!InFlight
    <3>1. Requests!From = 0 /\ Requests!Count = x2 - KeepFrames
      BY <2>3 DEF Requests!From, Requests!Count
    <3>2. x2' = x2 - (Requests!Count - 1)
      BY <2>1, <3>1 DEF Requests!StartAfter
    <3> QED BY <1>1, <1>2, <2>1, <3>1, <3>2
  <2> QED BY <2>2, <2>3
<1>4. PICK old : old = SubSeq(x1, f + 1, f + c)
  OBVIOUS
<1>5. old \in Seq(Requests!Frame) /\ Len(old) = c /\ \A i \in 1..c : old[i] = x1[f + i]
  <2>1. f \in 0..Len(x1) /\ f + c \in f..Len(x1) /\ (f + c) - f = c
    BY <1>1, <1>3
  <2> QED BY <1>1, <1>4, <2>1, PartOf
<1>6. PICK s : s = Requests!Summary(old, z)
  OBVIOUS
<1>7. s \in Requests!Frame /\ s.size = z /\ \A m : m \in s.holds <=> \E i \in (f + 1)..(f + c) : m \in x1[i].holds
  <2>1. s = [size |-> z, holds |-> UNION {old[i].holds : i \in DOMAIN old}] /\ DOMAIN old = 1..c
    BY <1>5, <1>6 DEF Requests!Summary
  <2>2. \A i \in 1..c : old[i] \in Requests!Frame /\ old[i].holds \subseteq Nat
    <3>1. \A i \in 1..c : old[i] \in Requests!Frame
      BY <1>5
    <3> QED BY <3>1 DEF Requests!Frame
  <2>3. UNION {old[i].holds : i \in DOMAIN old} \subseteq Nat
    BY <2>1, <2>2
  <2>4. s \in Requests!Frame /\ s.size = z /\ s.holds = UNION {old[i].holds : i \in 1..c}
    BY <1>1, <2>1, <2>3 DEF Requests!Frame
  <2>5. ASSUME NEW m, NEW i \in (f + 1)..(f + c), m \in x1[i].holds PROVE m \in s.holds
    <3>1. i - f \in 1..c /\ f + (i - f) = i
      BY <1>3
    <3>2. m \in old[i - f].holds
      BY <1>5, <2>5, <3>1
    <3> QED BY <2>4, <3>1, <3>2
  <2>6. ASSUME NEW m, m \in s.holds PROVE \E i \in (f + 1)..(f + c) : m \in x1[i].holds
    <3>1. PICK i \in 1..c : m \in old[i].holds
      BY <2>4, <2>6
    <3>2. f + i \in (f + 1)..(f + c) /\ m \in x1[f + i].holds
      BY <1>3, <1>5, <3>1
    <3> QED BY <3>2
  <2> QED BY <2>4, <2>5, <2>6
<1>8. x1' = SubSeq(x1, 1, f) \o <<s>> \o SubSeq(x1, f + c + 1, Len(x1))
  BY <1>2, <1>4, <1>6 DEF Requests!Compacts
<1>9. /\ x1' \in Seq(Requests!Frame) /\ Len(x1') = Len(x1) - c + 1 /\ x1'[f + 1] = s
      /\ \A i \in 1..f : x1'[i] = x1[i]
      /\ \A i \in (f + 2)..Len(x1') : x1'[i] = x1[i + c - 1]
  <2>1. PICK q : q = x1
    OBVIOUS
  <2>2. q \in Seq(Requests!Frame) /\ f \in 0..Len(q) /\ c \in 1..(Len(q) - f)
    BY <1>1, <1>3, <2>1
  <2>3. PICK r : r = Splice(q, f, c, s)
    OBVIOUS
  <2>4. /\ r \in Seq(Requests!Frame) /\ Len(r) = Len(q) - c + 1 /\ r[f + 1] = s
        /\ \A i \in 1..f : r[i] = q[i]
        /\ \A i \in (f + 2)..(Len(q) - c + 1) : r[i] = q[i + c - 1]
    <3>1. s \in Requests!Frame
      BY <1>7
    <3>2. /\ Splice(q, f, c, s) \in Seq(Requests!Frame) /\ Len(Splice(q, f, c, s)) = Len(q) - c + 1
          /\ Splice(q, f, c, s)[f + 1] = s /\ \A i \in 1..f : Splice(q, f, c, s)[i] = q[i]
          /\ \A i \in (f + 2)..(Len(q) - c + 1) : Splice(q, f, c, s)[i] = q[i + c - 1]
      BY <2>2, <3>1, SplicedFrames
    <3> QED BY <2>3, <3>2
  <2>5. x1' = r
    BY <1>8, <2>1, <2>3 DEF Splice
  <2> QED BY <2>1, <2>4, <2>5
<1>10. x14' = "full" => x14 = "full" /\ (f # 0 => z <= Requests!SizeOf(old))
  <2>1. x14' = IF Requests!InFlight /\ z > Requests!SizeOf(old) THEN "summary" ELSE x14
    BY <1>2, <1>4 DEF Requests!Compacts
  <2>2. Requests!SizeOf(old) \in Nat
    BY <1>5, FrameSizes, SizeIsNumber
  <2> QED BY <1>1, <1>3, <2>1, <2>2
<1> QED BY <1>3, <1>4, <1>7, <1>9, <1>10 DEF CompactedAs

LEMMA CompactKeepsForm ==
  ASSUME Requests!FramesInForm, x3' = x3, NEW f \in Nat, NEW c \in Nat, CompactedAs(f, c), x6' # "tools"
  PROVE  Requests!FramesInForm'
<1>1. /\ x1 \in Seq(Requests!Frame) /\ x2 \in Nat /\ x2 < Len(x1) /\ Len(x1) \in Nat
      /\ x1[x2 + 1].holds = {Requests!Turn} /\ x3 \in Nat
  BY DEF Requests!FramesInForm
<1>2. /\ c # 0 /\ f + c <= Len(x1)
      /\ x1' \in Seq(Requests!Frame) /\ Len(x1') = Len(x1) - c + 1
      /\ \A i \in 1..f : x1'[i] = x1[i]
      /\ \A i \in (f + 2)..Len(x1') : x1'[i] = x1[i + c - 1]
  BY DEF CompactedAs
<1>3. /\ x2' \in Nat /\ x2' < Len(x1')
      /\ x1'[x2' + 1] = x1[x2 + 1]
  <2>1. CASE f = x2 + 1 /\ x2' = x2
    <3>1. x2' \in Nat /\ x2' < Len(x1') /\ f \in 1..f
      BY <1>1, <1>2, <2>1
    <3>2. x1'[f] = x1[f]
      BY <1>2, <3>1
    <3> QED BY <2>1, <3>1, <3>2
  <2>2. CASE f = 0 /\ c <= x2 /\ x2' = x2 - (c - 1)
    <3>1. /\ x2' \in Nat /\ x2' < Len(x1') /\ x2' + 1 \in (f + 2)..Len(x1')
          /\ (x2' + 1) + c - 1 = x2 + 1
      BY <1>1, <1>2, <2>2
    <3>2. PICK k : k = x2' + 1
      OBVIOUS
    <3>3. x1'[k] = x1[k + c - 1]
      BY <1>2, <3>1, <3>2
    <3> QED BY <3>1, <3>2, <3>3
  <2> QED BY <2>1, <2>2 DEF CompactedAs
<1>4. Requests!Turn' = Requests!Turn
  BY DEF Requests!Turn
<1> QED BY <1>1, <1>2, <1>3, <1>4 DEF Requests!FramesInForm

\* The places of a moment before a compaction and after it.
CameFrom(f, c, j, i) == (j <= f => i = j) /\ (j = f + 1 => f < i /\ i <= f + c) /\ (j > f + 1 => i = j + c - 1)

LEMMA PlaceBefore ==
  ASSUME Requests!FramesInForm, NEW f \in Nat, NEW c \in Nat, CompactedAs(f, c),
         NEW j \in 1..Len(x1'), NEW m, m \in x1'[j].holds
  PROVE  \E i \in 1..Len(x1) : m \in x1[i].holds /\ CameFrom(f, c, j, i)
<1>1. Len(x1) \in Nat
  BY DEF Requests!FramesInForm
<1>2. /\ c # 0 /\ f + c <= Len(x1) /\ Len(x1') = Len(x1) - c + 1
      /\ \A n : n \in x1'[f + 1].holds <=> \E i \in (f + 1)..(f + c) : n \in x1[i].holds
      /\ \A i \in 1..f : x1'[i] = x1[i]
      /\ \A i \in (f + 2)..Len(x1') : x1'[i] = x1[i + c - 1]
  BY DEF CompactedAs
<1>3. CASE j <= f
  <2>1. j \in 1..f /\ j \in 1..Len(x1)
    BY <1>1, <1>2, <1>3
  <2> QED BY <1>2, <1>3, <2>1 DEF CameFrom
<1>4. CASE j = f + 1
  <2>1. PICK i \in (f + 1)..(f + c) : m \in x1[i].holds
    BY <1>2, <1>4
  <2> QED BY <1>1, <1>2, <1>4, <2>1 DEF CameFrom
<1>5. CASE j > f + 1
  <2>1. j \in (f + 2)..Len(x1') /\ j + c - 1 \in 1..Len(x1)
    BY <1>1, <1>2, <1>5
  <2> QED BY <1>2, <1>5, <2>1 DEF CameFrom
<1> QED BY <1>1, <1>2, <1>3, <1>4, <1>5

LEMMA PlaceAfter ==
  ASSUME Requests!FramesInForm, NEW f \in Nat, NEW c \in Nat, CompactedAs(f, c),
         NEW i \in 1..Len(x1), NEW m, m \in x1[i].holds
  PROVE  \E j \in 1..Len(x1') : /\ m \in x1'[j].holds /\ (i > x2 => j > x2')
                                /\ i > f + c => j = i - (c - 1) /\ x1'[j] = x1[i]
<1>1. Len(x1) \in Nat /\ x2 \in Nat
  BY DEF Requests!FramesInForm
<1>2. /\ c # 0 /\ f + c <= Len(x1) /\ Len(x1') = Len(x1) - c + 1
      /\ \A n : n \in x1'[f + 1].holds <=> \E o \in (f + 1)..(f + c) : n \in x1[o].holds
      /\ \A o \in 1..f : x1'[o] = x1[o]
      /\ \A o \in (f + 2)..Len(x1') : x1'[o] = x1[o + c - 1]
      /\ \/ f = x2 + 1 /\ x2' = x2
         \/ f = 0 /\ c <= x2 /\ x2' = x2 - (c - 1)
  BY DEF CompactedAs
<1>3. CASE i <= f
  <2>1. i \in 1..f /\ i \in 1..Len(x1')
    BY <1>1, <1>2, <1>3
  <2>2. m \in x1'[i].holds
    BY <1>2, <2>1
  <2>3. (i > x2 => i > x2') /\ ~(i > f + c)
    BY <1>1, <1>2, <1>3
  <2> QED BY <2>1, <2>2, <2>3
<1>4. CASE f < i /\ i <= f + c
  <2>1. i \in (f + 1)..(f + c) /\ f + 1 \in 1..Len(x1')
    BY <1>1, <1>2, <1>4
  <2>2. m \in x1'[f + 1].holds
    BY <1>2, <2>1
  <2>3. (i > x2 => f + 1 > x2') /\ ~(i > f + c)
    BY <1>1, <1>2, <1>4
  <2> QED BY <2>1, <2>2, <2>3
<1>5. CASE i > f + c
  <2>1. PICK j : j = i - (c - 1)
    OBVIOUS
  <2>2. j \in (f + 2)..Len(x1') /\ j + c - 1 = i /\ j \in 1..Len(x1')
    BY <1>1, <1>2, <1>5, <2>1
  <2>3. x1'[j] = x1[i]
    BY <1>2, <2>2
  <2>4. i > x2 => j > x2'
    BY <1>1, <1>2, <1>5, <2>1
  <2> QED BY <2>1, <2>2, <2>3, <2>4
<1> QED BY <1>1, <1>2, <1>3, <1>4, <1>5

LEMMA CompactKeepsStory ==
  ASSUME Requests!FramesInForm, Requests!StoryIsKept, NEW f \in Nat, NEW c \in Nat, CompactedAs(f, c), Requests!BetweenRounds, Requests!BetweenRounds', x5' = x5, x5 \in Nat
  PROVE  Requests!StoryIsKept'
<1>1. Len(x1) \in Nat /\ DOMAIN x1 = 1..Len(x1) /\ x2 \in Nat /\ f + c <= Len(x1) /\ c # 0
  BY DEF Requests!FramesInForm, CompactedAs
<1>2. Len(x1') \in Nat /\ DOMAIN x1' = 1..Len(x1') /\ Len(x1') = Len(x1) - c + 1
  BY <1>1 DEF CompactedAs
<1>3. Requests!OrderIsKept'
  <2> SUFFICES ASSUME NEW i \in 1..Len(x1'), NEW j \in 1..Len(x1'), i < j,
                      NEW m \in x1'[i].holds, NEW n \in x1'[j].holds
               PROVE  m < n
    BY <1>2 DEF Requests!OrderIsKept
  <2>1. PICK a \in 1..Len(x1) : m \in x1[a].holds /\ CameFrom(f, c, i, a)
    BY PlaceBefore
  <2>2. PICK b \in 1..Len(x1) : n \in x1[b].holds /\ CameFrom(f, c, j, b)
    BY PlaceBefore
  <2>3. a < b
    BY <1>1, <1>2, <2>1, <2>2 DEF CameFrom
  <2> QED BY <1>1, <2>1, <2>2, <2>3 DEF Requests!StoryIsKept, Requests!OrderIsKept
<1>4. Requests!RoundsKept' = Requests!RoundsKept /\ Requests!Turn' = Requests!Turn
  BY DEF Requests!RoundsKept, Requests!Turn
<1>7. Requests!RoundsKept \in Nat
  BY DEF Requests!RoundsKept
<1>5. ASSUME NEW j \in 1..Len(x1'), NEW m \in x1'[j].holds PROVE m <= Requests!Turn + Requests!RoundsKept
  <2>1. PICK i \in 1..Len(x1) : m \in x1[i].holds
    BY PlaceBefore
  <2> QED BY <1>1, <2>1 DEF Requests!StoryIsKept
<1>6. ASSUME NEW n \in 1..Requests!RoundsKept
      PROVE  \E j \in (x2' + 1)..Len(x1') :
               /\ Requests!Turn + n \in x1'[j].holds
               /\ n + KeepFrames > Requests!RoundsKept => x1'[j].holds = {Requests!Turn + n} /\ j = Len(x1') - (Requests!RoundsKept - n)
  <2>1. PICK i \in (x2 + 1)..Len(x1) :
          /\ Requests!Turn + n \in x1[i].holds
          /\ n + KeepFrames > Requests!RoundsKept => x1[i].holds = {Requests!Turn + n} /\ i = Len(x1) - (Requests!RoundsKept - n)
    BY DEF Requests!StoryIsKept
  <2>2. i \in 1..Len(x1) /\ i > x2
    BY <1>1
  <2>3. PICK j \in 1..Len(x1') :
          /\ Requests!Turn + n \in x1'[j].holds /\ (i > x2 => j > x2')
          /\ i > f + c => j = i - (c - 1) /\ x1'[j] = x1[i]
    BY <2>1, <2>2, PlaceAfter
  <2>4. x2' \in Nat
    BY <1>1 DEF CompactedAs
  <2>5. j \in (x2' + 1)..Len(x1')
    <3>1. j > x2'
      BY <2>2, <2>3
    <3>2. j \in Nat /\ j <= Len(x1')
      BY <1>2
    <3>3. ASSUME NEW a \in Nat, NEW b \in Nat, NEW l \in Nat, b > a, b <= l PROVE b \in (a + 1)..l
      BY <3>3
    <3> QED BY <1>2, <2>4, <3>1, <3>2, <3>3
  <2>6. ASSUME n + KeepFrames > Requests!RoundsKept
        PROVE  x1'[j].holds = {Requests!Turn + n} /\ j = Len(x1') - (Requests!RoundsKept - n)
    <3>1. x1[i].holds = {Requests!Turn + n} /\ i = Len(x1) - (Requests!RoundsKept - n)
      BY <2>1, <2>6
    <3>2. Requests!RoundsKept \in Nat /\ n \in Nat /\ KeepFrames \in Nat
      BY <1>7, RequestBounds
    <3>3. i > f + c
      <4>1. CASE f + c + KeepFrames <= Len(x1)
        BY <1>1, <2>6, <3>1, <3>2, <4>1
      <4>2. CASE f = 0 /\ c <= x2
        BY <1>1, <2>2, <4>2
      <4> QED BY <4>1, <4>2 DEF CompactedAs
    <3>4. j = i - (c - 1) /\ x1'[j] = x1[i]
      BY <2>3, <3>3
    <3> QED BY <1>1, <1>2, <3>1, <3>2, <3>4
  <2> QED BY <2>3, <2>5, <2>6
<1> QED BY <1>2, <1>3, <1>4, <1>5, <1>6 DEF Requests!StoryIsKept

\* Compacting the history leaves what is protected, compacting rounds makes it
\* no larger.
LEMMA CompactKeepsSize ==
  ASSUME Requests!FramesInForm, NEW f \in Nat, NEW c \in Nat, CompactedAs(f, c), x14' = "full"
  PROVE  Requests!SizeOf(Requests!Protected') <= Requests!SizeOf(Requests!Protected)
<1>1. x1 \in Seq(Requests!Frame) /\ x2 \in Nat /\ x2 < Len(x1) /\ Len(x1) \in Nat
  BY DEF Requests!FramesInForm
<1>2. /\ c # 0 /\ f + c <= Len(x1)
      /\ x1' \in Seq(Requests!Frame) /\ Len(x1') = Len(x1) - c + 1
      /\ f # 0 => x1'[f + 1].size <= Requests!SizeOf(SubSeq(x1, f + 1, f + c))
      /\ \A i \in 1..f : x1'[i] = x1[i]
      /\ \A i \in (f + 2)..Len(x1') : x1'[i] = x1[i + c - 1]
  BY DEF CompactedAs
<1>3. PICK q, s : q = Requests!Protected /\ s = x2
  OBVIOUS
<1>4. q \in Seq(Requests!Frame) /\ Len(q) = Len(x1) - s /\ \A i \in 1..(Len(x1) - s) : q[i] = x1[s + i]
  <2>1. s \in 0..Len(x1) /\ q = SubSeq(x1, s + 1, Len(x1))
    BY <1>1, <1>3 DEF Requests!Protected
  <2> QED BY <1>1, <2>1, TailOf
<1>5. PICK r, t : r = Requests!Protected' /\ t = x2'
  OBVIOUS
<1>6. t \in 0..Len(x1') /\ r = SubSeq(x1', t + 1, Len(x1')) /\ Len(x1') \in Nat
  BY <1>1, <1>2, <1>5 DEF Requests!Protected, CompactedAs
<1>7. r \in Seq(Requests!Frame) /\ Len(r) = Len(x1') - t /\ \A i \in 1..(Len(x1') - t) : r[i] = x1'[t + i]
  BY <1>2, <1>6, TailOf
<1>8. Requests!SizeOf(q) \in Nat
  <2>1. Requests!Sums(q) \in [0..Len(q) -> Nat] /\ Len(q) \in Nat
    BY <1>4, FrameSizes, SumsOf
  <2>2. Len(q) \in 0..Len(q)
    BY <2>1
  <2> QED BY <2>1, <2>2 DEF Requests!SizeOf
<1>9. CASE f = x2 + 1 /\ x2' = x2
  <2>1. t = s /\ f = s + 1 /\ s \in Nat /\ Len(q) \in Nat
    BY <1>1, <1>3, <1>4, <1>5, <1>9
  <2>2. 1 + c <= Len(q) /\ Len(r) = Len(q) - c + 1
    BY <1>1, <1>2, <1>4, <1>7, <2>1
  <2>3. Requests!Sums(q)[1] + r[1 + 1].size <= Requests!Sums(q)[1 + c]
    <3>1. 2 \in 1..(Len(x1') - t) /\ t + 2 = f + 1 /\ 1 + 1 = 2
      BY <1>1, <1>2, <2>1, <2>2, <1>4
    <3>2. r[1 + 1] = x1'[f + 1]
      BY <1>7, <3>1
    <3>3. PICK old : old = SubSeq(x1, f + 1, f + c)
      OBVIOUS
    <3>4. old \in Seq(Requests!Frame) /\ Len(old) = c /\ \A i \in 1..c : old[i] = x1[f + i]
      <4>1. f \in 0..Len(x1) /\ f + c \in f..Len(x1) /\ (f + c) - f = c
        BY <1>1, <1>2
      <4> QED BY <1>1, <3>3, <4>1, PartOf
    <3>a. PICK i0, j0, b0 : i0 = 0 /\ j0 = 1 /\ b0 = 1 + c
      OBVIOUS
    <3>5. \A m \in 1..Len(old), n \in 1..Len(q) : i0 < m /\ m <= c /\ m - i0 = n - j0 => old[m].size = q[n].size
      <4> SUFFICES ASSUME NEW m \in 1..Len(old), NEW n \in 1..Len(q), m - 0 = n - 1 PROVE old[m].size = q[n].size
        BY <3>a
      <4>1. m \in 1..c /\ n \in 1..(Len(x1) - s) /\ f + m = s + n
        BY <1>4, <2>1, <3>4
      <4> QED BY <1>4, <3>4, <4>1
    <3>6. 0 \in 0..Len(old) /\ c \in 0..Len(old) /\ 1 \in 0..Len(q) /\ 1 + c \in 1..Len(q) /\ c - 0 = (1 + c) - 1
      BY <2>1, <2>2, <3>4
    <3>b. i0 \in 0..Len(old) /\ c \in i0..Len(old) /\ j0 \in 0..Len(q) /\ b0 \in j0..Len(q) /\ c - i0 = b0 - j0
      BY <3>6, <3>a
    <3>c. Requests!Sums(old)[c] + Requests!Sums(q)[j0] = Requests!Sums(q)[b0] + Requests!Sums(old)[i0]
      <4>1. old \in Seq(Requests!Frame) /\ q \in Seq(Requests!Frame)
        BY <1>4, <3>4
      <4> QED BY <4>1, <3>5, <3>b, FrameSizes, SumsAgree, ZenonT(60)
    <3>7. Requests!Sums(old)[c] + Requests!Sums(q)[1] = Requests!Sums(q)[1 + c] + Requests!Sums(old)[0]
      BY <3>a, <3>c
    <3>8. Requests!Sums(old) \in [0..Len(old) -> Nat] /\ Requests!Sums(old)[0] = 0 /\ Requests!Sums(q) \in [0..Len(q) -> Nat]
      BY <1>4, <3>4, FrameSizes, SumsOf
    <3>9. PICK v, x, y, z : v = Requests!Sums(q)[1] /\ x = Requests!Sums(q)[1 + c] /\ y = Requests!Sums(old)[c] /\ z = r[1 + 1].size
      OBVIOUS
    <3>10. v \in Nat /\ x \in Nat /\ y \in Nat /\ y + v = x
      <4>1. 1 + c \in 0..Len(q)
        BY <3>6
      <4> QED BY <3>6, <3>7, <3>8, <3>9, <4>1
    <3>11. z <= y
      BY <1>2, <2>1, <3>2, <3>3, <3>4, <3>9 DEF Requests!SizeOf
    <3>12. z \in Nat
      <4>1. r[1 + 1] \in Requests!Frame
        <5>1. 1 + 1 \in 1..Len(r)
          BY <1>7, <3>1
        <5> QED BY <1>7, <5>1
      <4> QED BY <3>9, <4>1, FrameSizes
    <3>13. v + z <= x
      BY <3>10, <3>11, <3>12
    <3> QED BY <3>9, <3>13
  <2>5. \A n \in 1..1 : r[n].size = q[n].size
    <3>1. 1 \in 1..(Len(x1') - t) /\ 1 \in 1..(Len(x1) - s) /\ f \in 1..f /\ t + 1 = f
      BY <1>1, <1>2, <2>1
    <3>2. r[1] = x1'[f] /\ q[1] = x1[f]
      BY <1>4, <1>7, <2>1, <3>1
    <3>3. r[1] = q[1]
      BY <1>2, <3>1, <3>2
    <3> QED BY <3>3
  <2>6. \A n \in (1 + 2)..Len(r) : r[n].size = q[n + c - 1].size
    <3>1. ASSUME NEW n \in (1 + 2)..Len(r) PROVE r[n].size = q[n + c - 1].size
      <4>1. PICK o : o = n + c - 1
        OBVIOUS
      <4>2. /\ n \in 1..(Len(x1') - t) /\ o \in 1..(Len(x1) - s)
            /\ t + n \in (f + 2)..Len(x1') /\ (t + n) + c - 1 = s + o
        <5>1. /\ Len(x1) \in Nat /\ Len(x1') = Len(x1) - c + 1 /\ Len(q) = Len(x1) - s
              /\ Len(r) = Len(q) - c + 1 /\ t = s /\ s \in Nat /\ f = s + 1 /\ n \in Int /\ 3 <= n /\ n <= Len(r) /\ c # 0
          BY <1>1, <1>2, <1>4, <2>1, <2>2
        <5> QED BY <4>1, <5>1
      <4>3. r[n] = x1'[t + n] /\ q[o] = x1[s + o] /\ x1'[t + n] = x1[s + o]
        BY <1>2, <1>4, <1>7, <4>2
      <4> QED BY <4>1, <4>3
    <3> QED BY <3>1
  <2>7. Requests!SizeOf(r) <= Requests!SizeOf(q)
    <3>1. 1 \in Nat /\ \A s0 \in Requests!Frame : s0.size \in Nat
      BY FrameSizes
    <3> QED BY <1>2, <1>4, <1>7, <2>2, <2>3, <2>5, <2>6, <3>1, SpliceShrinks
  <2> QED BY <1>3, <1>5, <2>7
<1>10. CASE f = 0 /\ c <= x2 /\ x2' = x2 - (c - 1)
  <2>1. t = s - (c - 1) /\ c <= s /\ f = 0 /\ s \in Nat
    BY <1>1, <1>3, <1>5, <1>10
  <2>2. Len(r) = Len(q)
    BY <1>1, <1>2, <1>4, <1>7, <2>1
  <2>3. ASSUME NEW i \in 1..Len(q) PROVE r[i] = q[i]
    <3>1. /\ i \in 1..(Len(x1') - t) /\ i \in 1..(Len(x1) - s) /\ t + i \in (f + 2)..Len(x1')
          /\ (t + i) + c - 1 = s + i
      BY <1>1, <1>2, <1>4, <1>7, <2>1, <2>2
    <3> QED BY <1>2, <1>4, <1>7, <3>1
  <2>4. r = q
    BY <1>4, <1>7, <2>2, <2>3, SeqEqual
  <2> QED BY <1>3, <1>5, <1>8, <2>4
<1> QED BY <1>9, <1>10 DEF CompactedAs
LEMMA ProtectedSizes ==
  ASSUME Requests!FramesInForm
  PROVE  /\ x1 \in Seq(Requests!Frame) /\ Len(x1) \in Nat /\ x2 \in Nat
         /\ Requests!Protected \in Seq(Requests!Frame) /\ Len(Requests!Protected) = Len(x1) - x2
         /\ \A i \in 1..(Len(x1) - x2) : Requests!Protected[i] = x1[x2 + i]
         /\ Requests!SizeOf(Requests!Protected) \in Nat
<1>1. x1 \in Seq(Requests!Frame) /\ x2 \in 0..Len(x1) /\ Len(x1) \in Nat /\ x2 \in Nat
  BY DEF Requests!FramesInForm
<1>2. /\ Requests!Protected \in Seq(Requests!Frame) /\ Len(Requests!Protected) = Len(x1) - x2
      /\ \A i \in 1..(Len(x1) - x2) : Requests!Protected[i] = x1[x2 + i]
  BY <1>1, TailOf DEF Requests!Protected
<1>3. PICK q : q = Requests!Protected
  OBVIOUS
<1>4. Requests!Sums(q) \in [0..Len(q) -> Nat] /\ Len(q) \in Nat
  BY <1>2, <1>3, FrameSizes, SumsOf
<1>5. Len(q) \in 0..Len(q)
  BY <1>4
<1> QED BY <1>1, <1>2, <1>3, <1>4, <1>5 DEF Requests!SizeOf

LEMMA SizeOfResults ==
  ASSUME Requests!StoreInv
  PROVE  Requests!SizeOf(x9) \in Nat
<1>1. x9 \in Seq(Requests!DeliveredResult) /\ \A s \in Requests!DeliveredResult : s.size \in Nat
  BY DEF Requests!StoreInv, Requests!StoreTypeOK, Requests!DeliveredResult
<1>2. Requests!Sums(x9) \in [0..Len(x9) -> Nat] /\ Len(x9) \in Nat
  BY <1>1, SumsOf
<1>3. Len(x9) \in 0..Len(x9)
  BY <1>2
<1> QED BY <1>2, <1>3 DEF Requests!SizeOf

\* Steps that leave the frames and the block, and any end of the run.
LEMMA EndKeepsWhole ==
  ASSUME Requests!WholeInv, UNCHANGED <<x1, x2, x5, x14>>, x3' \in Nat,
         x6' \notin {"compact", "assemble", "model", "tools"}
  PROVE  Requests!WholeInv'
<1>1. Requests!FramesInForm'
  BY DEF Requests!WholeInv, Requests!FramesInForm, Requests!Turn
<1>2. Requests!StoryIsKept'
  BY DEF Requests!WholeInv, Requests!StoryIsKept, Requests!OrderIsKept, Requests!BetweenRounds
<1>3. Requests!RequestIsEnd' /\ Requests!RoundFits'
  BY DEF Requests!RequestIsEnd, Requests!RoundFits, Requests!BetweenRounds
<1> QED BY <1>1, <1>2, <1>3 DEF Requests!WholeInv

LEMMA EndsWhole ==
  ASSUME Requests!WholeInv, Requests!Ends
  PROVE  Requests!WholeInv'
BY EndKeepsWhole DEF Requests!Ends, Requests!WholeInv, Requests!FramesInForm

LEMMA WholeStutters ==
  ASSUME Requests!WholeInv, UNCHANGED Requests!requestVars
  PROVE  Requests!WholeInv'
BY DEF Requests!requestVars, Requests!WholeInv, Requests!FramesInForm, Requests!StoryIsKept, Requests!OrderIsKept, Requests!RequestIsEnd, Requests!RoundFits, Requests!BetweenRounds,
       Requests!RoundsKept, Requests!Turn, Requests!Protected, Requests!Fits

\* The story between two steps between rounds that leave the frames alone.
LEMMA StoryStays ==
  ASSUME Requests!StoryIsKept, UNCHANGED <<x1, x2, x5>>, Requests!BetweenRounds, Requests!BetweenRounds'
  PROVE  Requests!StoryIsKept'
BY DEF Requests!StoryIsKept, Requests!OrderIsKept, Requests!BetweenRounds, Requests!RoundsKept, Requests!Turn

LEMMA CompactKeepsWhole ==
  ASSUME Requests!WholeInv, Requests!StoreInv, Requests!Compact
  PROVE  Requests!WholeInv'
<1>1. /\ x6 = "compact" /\ x6' = "assemble" /\ Requests!BetweenRounds /\ Requests!BetweenRounds'
      /\ UNCHANGED <<x3, x5, x7>> /\ x5 \in Nat
  BY DEF Requests!Compact, Requests!BetweenRounds, Requests!StoreInv, Requests!StoreTypeOK
<1>2. Requests!RequestIsEnd'
  BY <1>1 DEF Requests!RequestIsEnd
<1>3. Requests!SizeOf(Requests!Protected) \in Nat /\ x3 \in Nat
  BY ProtectedSizes DEF Requests!WholeInv, Requests!FramesInForm
<1>4. CASE UNCHANGED <<x1, x2, x14>>
  <2>1. Requests!FramesInForm'
    BY <1>1, <1>4 DEF Requests!WholeInv, Requests!FramesInForm, Requests!Turn
  <2>2. Requests!StoryIsKept'
    BY <1>1, <1>4, StoryStays DEF Requests!WholeInv
  <2>3. Requests!RoundFits'
    BY <1>1, <1>4 DEF Requests!WholeInv, Requests!RoundFits, Requests!BetweenRounds, Requests!Protected
  <2> QED BY <1>2, <2>1, <2>2, <2>3 DEF Requests!WholeInv
<1>5. ASSUME NEW n \in SummarySizes, Requests!Compacts(n) PROVE Requests!WholeInv'
  <2>1. PICK f \in Nat, c \in Nat : CompactedAs(f, c)
    BY <1>5, CompactsSo DEF Requests!WholeInv
  <2>2. Requests!FramesInForm'
    BY <1>1, <2>1, CompactKeepsForm DEF Requests!WholeInv
  <2>3. Requests!StoryIsKept'
    BY <1>1, <2>1, CompactKeepsStory DEF Requests!WholeInv
  <2>4. x14' = "full" => x14 = "full" /\ Requests!SizeOf(Requests!Protected') <= Requests!SizeOf(Requests!Protected)
    <3>1. x14' = "full" => x14 = "full"
      BY <2>1 DEF CompactedAs
    <3>2. ASSUME x14' = "full" PROVE Requests!SizeOf(Requests!Protected') <= Requests!SizeOf(Requests!Protected)
      BY <2>1, <3>2, CompactKeepsSize DEF Requests!WholeInv
    <3> QED BY <3>1, <3>2
  <2>6. Requests!SizeOf(Requests!Protected') \in Nat
    <3>1. /\ x1' \in Seq(Requests!Frame) /\ x2' \in 0..Len(x1') /\ Len(x1') \in Nat
      BY <2>2 DEF Requests!FramesInForm
    <3>2. PICK q : q = SubSeq(x1', x2' + 1, Len(x1'))
      OBVIOUS
    <3>3. q \in Seq(Requests!Frame)
      BY <3>1, <3>2, TailOf
    <3>4. Requests!SizeOf(q) \in Nat
      BY <3>3, FrameSizes, SizeIsNumber
    <3> QED BY <3>2, <3>4 DEF Requests!Protected
  <2>7. x14' = "full" => x3 + Requests!SizeOf(Requests!Protected') <= Budget
    <3> SUFFICES ASSUME x14' = "full" PROVE x3 + Requests!SizeOf(Requests!Protected') <= Budget
      OBVIOUS
    <3>1. x3 + Requests!SizeOf(Requests!Protected) <= Budget
      BY <1>1, <2>4 DEF Requests!WholeInv, Requests!RoundFits
    <3> QED BY <1>3, <2>4, <2>6, <3>1, RequestBounds
  <2>8. Requests!RoundFits'
    BY <1>1, <2>7 DEF Requests!RoundFits, Requests!SizeOf, Requests!Sums
  <2> QED BY <1>2, <2>2, <2>3, <2>8 DEF Requests!WholeInv
<1> QED BY <1>4, <1>5 DEF Requests!Compact

LEMMA DroppedFits ==
  ASSUME Requests!FramesInForm
  PROVE  Requests!Dropped \in 0..x2 /\ (Requests!Dropped = x2 \/ Requests!Fits(SubSeq(x1, Requests!Dropped + 1, Len(x1))))
<1>1. x2 \in Nat
  BY DEF Requests!FramesInForm
<1> DEFINE T == {d \in 0..x2 : d = x2 \/ Requests!Fits(SubSeq(x1, d + 1, Len(x1)))}
<1>2. T \subseteq Nat /\ T # {}
  <2>1. x2 \in T
    BY <1>1
  <2> QED BY <1>1, <2>1
<1>3. PICK d \in T : \A e \in T : d <= e
  BY <1>2, Least
<1>4. ASSUME NEW e \in 0..(d - 1) PROVE ~Requests!Fits(SubSeq(x1, e + 1, Len(x1)))
  <2>1. e \in 0..x2 /\ ~(d <= e)
    BY <1>1, <1>3
  <2> QED BY <1>3, <2>1
<1>5. d \in 0..x2 /\ (d = x2 \/ Requests!Fits(SubSeq(x1, d + 1, Len(x1))))
  BY <1>3
<1> QED BY <1>4, <1>5 DEF Requests!Dropped

LEMMA AssembleKeepsWhole ==
  ASSUME Requests!WholeInv, Requests!Assemble
  PROVE  Requests!WholeInv'
<1>1. /\ x6 = "assemble" /\ x6' = "model" /\ UNCHANGED <<x1, x2, x3, x5, x14>>
      /\ x7' = SubSeq(x1, Requests!Dropped + 1, Len(x1))
  BY DEF Requests!Assemble
<1>2. Requests!FramesInForm'
  BY <1>1 DEF Requests!WholeInv, Requests!FramesInForm, Requests!Turn
<1>3. Requests!StoryIsKept'
  BY <1>1, StoryStays DEF Requests!WholeInv, Requests!BetweenRounds
<1>4. Requests!RequestIsEnd'
  <2>1. PICK d \in 0..x2 : d = Requests!Dropped /\ (d = x2 \/ Requests!Fits(SubSeq(x1, d + 1, Len(x1))))
    BY DroppedFits DEF Requests!WholeInv
  <2>2. x7' = SubSeq(x1', d + 1, Len(x1')) /\ d \in 0..x2' /\ (d = x2' \/ Requests!Fits(x7)')
    BY <1>1, <2>1 DEF Requests!Fits, Requests!SizeOf, Requests!Sums
  <2> QED BY <2>2 DEF Requests!RequestIsEnd
<1>5. Requests!RoundFits'
  BY <1>1 DEF Requests!WholeInv, Requests!RoundFits, Requests!BetweenRounds, Requests!Protected
<1> QED BY <1>2, <1>3, <1>4, <1>5 DEF Requests!WholeInv

\* Another pass without a round: what was put in full fits as long as the block
\* does not grow.
LEMMA GoingOnKeepsWhole ==
  ASSUME Requests!WholeInv, Requests!StoreInv, NEW b \in Blocks, Requests!GoesOn(b)
  PROVE  Requests!WholeInv'
<1>1. /\ x6 = "model" /\ x6' \in {"compact", "over"} /\ UNCHANGED <<x1, x2, x5, x9>>
      /\ x3' = b /\ x14' = (IF b > x3 THEN "block" ELSE x14) /\ b \in Nat
  BY RequestBounds DEF Requests!GoesOn, Requests!LoopsOn, Requests!Refreshes
<1>2. Requests!FramesInForm'
  BY <1>1 DEF Requests!WholeInv, Requests!FramesInForm, Requests!Turn
<1>3. Requests!StoryIsKept' /\ Requests!RequestIsEnd'
  <2>1. CASE x6' = "compact"
    BY <1>1, <2>1, StoryStays DEF Requests!WholeInv, Requests!BetweenRounds, Requests!RequestIsEnd
  <2>2. CASE x6' = "over"
    BY <1>1, <2>2 DEF Requests!WholeInv, Requests!StoryIsKept, Requests!OrderIsKept, Requests!BetweenRounds, Requests!RequestIsEnd
  <2> QED BY <1>1, <2>1, <2>2
<1>4. Requests!RoundFits'
  <2>1. ASSUME x14' = "full" PROVE b + Requests!SizeOf(Requests!Protected) <= Budget
    <3>1. x14 = "full" /\ ~(b > x3)
      BY <1>1, <2>1
    <3>2. x3 + Requests!SizeOf(Requests!Protected) <= Budget
      BY <1>1, <3>1 DEF Requests!WholeInv, Requests!RoundFits, Requests!BetweenRounds
    <3>3. Requests!SizeOf(Requests!Protected) \in Nat /\ x3 \in Nat
      BY ProtectedSizes DEF Requests!WholeInv, Requests!FramesInForm
    <3> QED BY <1>1, <3>1, <3>2, <3>3, RequestBounds
  <2>2. Requests!Protected' = Requests!Protected /\ x6' # "tools"
    BY <1>1 DEF Requests!Protected
  <2> QED BY <1>1, <2>1, <2>2 DEF Requests!RoundFits
<1> QED BY <1>2, <1>3, <1>4 DEF Requests!WholeInv

LEMMA CallsKeepWhole ==
  ASSUME Requests!WholeInv, Requests!StoreInv, NEW b \in Blocks, NEW ids, Requests!Calls(b, ids)
  PROVE  Requests!WholeInv'
<1>1. /\ x6 = "model" /\ x6' = "tools" /\ x5' = x5 + 1 /\ x9' = <<>> /\ x5 \in Nat
      /\ UNCHANGED <<x1, x2>> /\ x3' = b /\ b \in Nat
  BY RequestBounds DEF Requests!Calls, Requests!Refreshes, Requests!StoreInv, Requests!StoreTypeOK, Requests!CallsAreFresh, Requests!BetweenRounds
<1>2. Requests!FramesInForm'
  BY <1>1 DEF Requests!WholeInv, Requests!FramesInForm, Requests!Turn
<1>3. Requests!RoundsKept = x5 /\ Requests!RoundsKept' = x5
  BY <1>1 DEF Requests!RoundsKept, Requests!BetweenRounds
<1>4. Requests!StoryIsKept'
  BY <1>1, <1>3 DEF Requests!WholeInv, Requests!StoryIsKept, Requests!OrderIsKept, Requests!BetweenRounds, Requests!Turn
<1>5. Requests!RequestIsEnd' /\ Requests!RoundFits'
  BY <1>1 DEF Requests!RequestIsEnd, Requests!RoundFits, Requests!BetweenRounds
<1> QED BY <1>2, <1>4, <1>5 DEF Requests!WholeInv

\* A result in full is one that leaves room for itself.
LEMMA ResultKeepsWhole ==
  ASSUME Requests!WholeInv, Requests!StoreInv, Requests!InTools, NEW x \in Requests!DeliveredResult, Requests!Result(x),
         x.kind = "full" => x3 + Requests!SizeOf(Requests!Protected) + 1 + Requests!SizeOf(x9) + x.size <= Budget
  PROVE  Requests!WholeInv'
<1>1. /\ x6 = "tools" /\ x6' = "tools" /\ x9' = Append(x9, x) /\ x14' = x.kind
      /\ UNCHANGED <<x1, x2, x3, x5>> /\ x9 \in Seq(Requests!DeliveredResult)
  BY DEF Requests!InTools, Requests!Result, Requests!StoreInv, Requests!StoreTypeOK
<1>2. Requests!FramesInForm'
  BY <1>1 DEF Requests!WholeInv, Requests!FramesInForm, Requests!Turn
<1>3. Requests!StoryIsKept'
  BY <1>1 DEF Requests!WholeInv, Requests!StoryIsKept, Requests!OrderIsKept, Requests!BetweenRounds, Requests!RoundsKept, Requests!Turn
<1>4. Requests!RequestIsEnd' /\ ~Requests!BetweenRounds'
  BY <1>1 DEF Requests!RequestIsEnd, Requests!BetweenRounds
<1>5. Requests!Protected' = Requests!Protected
  BY <1>1 DEF Requests!Protected
<1>6. PICK q, r : q = x9 /\ r = Append(q, x)
  OBVIOUS
<1>7. q \in Seq(Requests!DeliveredResult) /\ x9' = r /\ \A s \in Requests!DeliveredResult : s.size \in Nat
  BY <1>1, <1>6 DEF Requests!DeliveredResult
<1>8. Requests!SizeOf(r) = Requests!SizeOf(q) + x.size /\ Requests!SizeOf(q) \in Nat /\ Requests!SizeOf(r) \in Nat
  BY <1>6, <1>7, SizeOfAppend
<1>11. Requests!SizeOf(Requests!Protected) \in Nat /\ x.size \in Nat /\ x3 \in Nat
  BY <1>7, ProtectedSizes DEF Requests!WholeInv, Requests!FramesInForm
<1>12. x14' = "full" => x3 + Requests!SizeOf(Requests!Protected) + 1 + Requests!SizeOf(r) <= Budget
  <2> SUFFICES ASSUME x.kind = "full" PROVE x3 + Requests!SizeOf(Requests!Protected) + 1 + Requests!SizeOf(r) <= Budget
    BY <1>1
  <2>1. x3 + Requests!SizeOf(Requests!Protected) + 1 + Requests!SizeOf(q) + x.size <= Budget
    BY <1>6
  <2> QED BY <1>8, <1>11, <2>1, RequestBounds
<1>13. Requests!RoundFits'
  BY <1>1, <1>4, <1>5, <1>7, <1>12 DEF Requests!RoundFits, Requests!SizeOf, Requests!Sums
<1> QED BY <1>2, <1>3, <1>4, <1>13 DEF Requests!WholeInv

LEMMA DeliveryKeepsWhole ==
  ASSUME Requests!WholeInv, Requests!StoreInv, Requests!InTools, NEW r \in Requests!Data, NEW list, Requests!DeliversInline(r, list) \/ Requests!DeliversPaged(r, list)
  PROVE  Requests!WholeInv'
<1>1. Requests!Call \in Nat \X Nat /\ Len(x10) \in Nat /\ Len(r) \in Nat /\ Requests!RefOf = 0
  BY CallIsNew, CallHasId DEF Requests!Data, Requests!StoreInv, Requests!StoreTypeOK
<1>2. CASE Requests!DeliversInline(r, list)
  <2>1. Requests!Result(Requests!Full(r)) /\ Requests!FitsInline(r) /\ Requests!Full(r) \in Requests!DeliveredResult /\ Requests!Full(r).size = Len(r)
    BY <1>1, <1>2 DEF Requests!DeliversInline, Requests!Full, Requests!DeliveredResult, Requests!Kind
  <2>2. x3 + Requests!SizeOf(Requests!Protected) + 1 + Requests!SizeOf(x9) + Requests!Full(r).size <= Budget
    BY <2>1 DEF Requests!FitsInline, Requests!Floor
  <2> QED BY <2>1, <2>2, ResultKeepsWhole
<1>3. CASE Requests!DeliversPaged(r, list)
  <2>1. /\ Requests!Result(Requests!Paged(r, Len(x10) + 1)) /\ Requests!Paged(r, Len(x10) + 1) \in Requests!DeliveredResult
        /\ Requests!Paged(r, Len(x10) + 1).kind # "full"
    BY <1>1, <1>3 DEF Requests!DeliversPaged, Requests!Paged, Requests!DeliveredResult, Requests!Kind
  <2> QED BY <2>1, ResultKeepsWhole
<1> QED BY <1>2, <1>3

LEMMA ToolKeepsWhole ==
  ASSUME Requests!WholeInv, Requests!StoreInv, NEW n \in Nat, NEW list, Requests!Tool(n, list)
  PROVE  Requests!WholeInv'
<1>1. Requests!Fresh(n) \in Requests!Data /\ Requests!InTools
  BY FreshIsData DEF Requests!Tool
<1>2. CASE Requests!DeliversInline(Requests!Fresh(n), list) \/ Requests!DeliversPaged(Requests!Fresh(n), list)
  BY <1>1, <1>2, DeliveryKeepsWhole
<1>3. CASE Requests!StoreFails(Requests!Fresh(n))
  BY <1>3, EndsWhole DEF Requests!StoreFails
<1> QED BY <1>2, <1>3 DEF Requests!Tool

LEMMA NoteKeepsWhole ==
  ASSUME Requests!WholeInv, Requests!StoreInv, Requests!InTools, NEW kind \in {"error", "note"}, NEW n \in Nat, Requests!Result(Requests!Told(kind, n))
  PROVE  Requests!WholeInv'
BY NoteIsResult, ResultKeepsWhole

LEMMA ReadKeepsWhole ==
  ASSUME Requests!WholeInv, Requests!StoreInv, NEW ref \in DOMAIN x10, NEW limit \in Nat, NEW offset \in 0..Len(x10[ref].items),
         Requests!Read(ref, offset, limit)
  PROVE  Requests!WholeInv'
<1>1. PICK n : n = Len(Requests!Page(ref, offset, limit))
  OBVIOUS
<1>2. n \in Nat
  BY <1>1, PageIsData DEF Requests!Data
<1>3. Requests!InTools /\ Requests!Result(Requests!Told("note", n))
  BY <1>1 DEF Requests!Read
<1> QED BY <1>2, <1>3, NoteKeepsWhole

LEMMA RoundEndKeepsWhole ==
  ASSUME Requests!WholeInv, Requests!StoreInv, NEW b0 \in Blocks, Requests!RoundEnds(b0)
  PROVE  Requests!WholeInv'
<1>1. /\ x6 = "tools" /\ x6' \in {"compact", "over"} /\ UNCHANGED <<x2, x5>>
      /\ x3' = b0 /\ x14' = (IF b0 > x3 THEN "block" ELSE x14)
      /\ x1' = Append(x1, [size |-> 1 + Requests!SizeOf(x9), holds |-> {Requests!Turn + x5}])
  BY DEF Requests!RoundEnds, Requests!LoopsOn, Requests!Refreshes
<1>2. /\ x1 \in Seq(Requests!Frame) /\ Len(x1) \in Nat /\ x2 \in Nat /\ x2 < Len(x1)
      /\ x1[x2 + 1].holds = {Requests!Turn} /\ x5 \in Nat /\ x5 > 0 /\ MaxHistory \in Nat
      /\ x3 \in Nat /\ b0 \in Nat
  BY <1>1, RequestBounds DEF Requests!WholeInv, Requests!FramesInForm, Requests!StoreInv, Requests!StoreTypeOK
<1>3. PICK e : e = [size |-> 1 + Requests!SizeOf(x9), holds |-> {Requests!Turn + x5}]
  OBVIOUS
<1>4. e \in Requests!Frame /\ e.holds = {Requests!Turn + x5} /\ e.size = 1 + Requests!SizeOf(x9) /\ Requests!SizeOf(x9) \in Nat
  <2>1. Requests!SizeOf(x9) \in Nat
    BY SizeOfResults
  <2>2. Requests!Turn + x5 \in Nat
    BY <1>2 DEF Requests!Turn
  <2> QED BY <1>3, <2>1, <2>2 DEF Requests!Frame
<1>5. PICK q, r : q = x1 /\ r = Append(q, e)
  OBVIOUS
<1>6. /\ q \in Seq(Requests!Frame) /\ x1' = r /\ r \in Seq(Requests!Frame) /\ Len(r) = Len(q) + 1 /\ Len(q) \in Nat /\ r[Len(q) + 1] = e
      /\ DOMAIN q = 1..Len(q) /\ DOMAIN r = 1..(Len(q) + 1) /\ \A i \in DOMAIN q : r[i] = q[i]
  <2>1. q \in Seq(Requests!Frame) /\ x1' = r
    BY <1>1, <1>2, <1>3, <1>5
  <2> QED BY <1>4, <1>5, <2>1, AddedLast
<1>7. Requests!Turn' = Requests!Turn /\ Requests!Turn \in Nat
  BY <1>2 DEF Requests!Turn
<1>8. Requests!FramesInForm'
  <2>1. x2 + 1 \in DOMAIN q
    BY <1>2, <1>5, <1>6
  <2> QED BY <1>1, <1>2, <1>5, <1>6, <1>7, <2>1 DEF Requests!FramesInForm
<1>9. /\ Requests!RoundsKept = x5 - 1 /\ (Requests!BetweenRounds' => Requests!RoundsKept' = x5)
      /\ \A i \in DOMAIN x1 : \A m \in x1[i].holds : m <= Requests!Turn + (x5 - 1)
      /\ \A n \in 1..(x5 - 1) : \E i \in (x2 + 1)..Len(x1) :
           /\ Requests!Turn + n \in x1[i].holds
           /\ n + KeepFrames > x5 - 1 => x1[i].holds = {Requests!Turn + n} /\ i = Len(x1) - ((x5 - 1) - n)
      /\ Requests!OrderIsKept
  BY <1>1 DEF Requests!RoundsKept, Requests!BetweenRounds, Requests!WholeInv, Requests!StoryIsKept
<1>10. \A i \in DOMAIN x1 : x1[i].holds \subseteq Nat
  <2>1. \A i \in DOMAIN x1 : x1[i] \in Requests!Frame
    BY <1>2
  <2> QED BY <2>1 DEF Requests!Frame
<1>11. Requests!OrderIsKept'
  <2> SUFFICES ASSUME NEW i \in DOMAIN r, NEW j \in DOMAIN r, i < j, NEW m \in r[i].holds, NEW n \in r[j].holds
               PROVE  m < n
    BY <1>6 DEF Requests!OrderIsKept
  <2>1. i \in DOMAIN q
    BY <1>6
  <2>2. m \in q[i].holds /\ m \in Nat
    BY <1>5, <1>6, <1>10, <2>1
  <2>3. CASE j \in DOMAIN q
    BY <1>5, <1>6, <1>9, <2>1, <2>2, <2>3 DEF Requests!OrderIsKept
  <2>4. CASE j = Len(q) + 1
    <3>1. n = Requests!Turn + x5
      BY <1>4, <1>6, <2>4
    <3>2. m <= Requests!Turn + (x5 - 1)
      BY <1>5, <1>9, <2>1, <2>2
    <3> QED BY <1>2, <1>7, <2>2, <3>1, <3>2
  <2> QED BY <1>6, <2>3, <2>4
<1>12. ASSUME NEW i \in DOMAIN r, NEW m \in r[i].holds PROVE m <= Requests!Turn + x5
  <2>1. CASE i \in DOMAIN q
    <3>1. m \in Nat /\ m <= Requests!Turn + (x5 - 1)
      BY <1>5, <1>6, <1>9, <1>10, <2>1
    <3> QED BY <1>2, <1>7, <3>1
  <2>2. CASE i = Len(q) + 1
    <3>1. m = Requests!Turn + x5
      BY <1>4, <1>6, <2>2
    <3> QED BY <1>2, <1>7, <3>1
  <2> QED BY <1>6, <2>1, <2>2
<1>13. ASSUME NEW n \in 1..x5
       PROVE  \E i \in (x2 + 1)..Len(r) :
                /\ Requests!Turn + n \in r[i].holds
                /\ n + KeepFrames > x5 => r[i].holds = {Requests!Turn + n} /\ i = Len(r) - (x5 - n)
  <2>1. CASE n = x5
    <3>1. Len(q) + 1 \in (x2 + 1)..Len(r) /\ Len(q) + 1 = Len(r) - (x5 - n)
      BY <1>2, <1>5, <1>6, <2>1
    <3>2. Requests!Turn + n \in r[Len(q) + 1].holds /\ r[Len(q) + 1].holds = {Requests!Turn + n}
      BY <1>4, <1>6, <2>1
    <3> QED BY <3>1, <3>2
  <2>2. CASE n # x5
    <3>1. n \in 1..(x5 - 1)
      BY <1>2, <2>2
    <3>2. PICK i \in (x2 + 1)..Len(x1) :
            /\ Requests!Turn + n \in x1[i].holds
            /\ n + KeepFrames > x5 - 1 => x1[i].holds = {Requests!Turn + n} /\ i = Len(x1) - ((x5 - 1) - n)
      BY <1>9, <3>1
    <3>3. i \in DOMAIN q /\ i \in (x2 + 1)..Len(r)
      BY <1>2, <1>5, <1>6
    <3>4. r[i] = x1[i]
      BY <1>5, <1>6, <3>3
    <3>5. n + KeepFrames > x5 => n + KeepFrames > x5 - 1 /\ Len(x1) - ((x5 - 1) - n) = Len(r) - (x5 - n)
      BY <1>2, <1>5, <1>6, <3>1, RequestBounds
    <3> QED BY <3>2, <3>3, <3>4, <3>5
  <2> QED BY <2>1, <2>2
<1>14. Requests!StoryIsKept'
  BY <1>1, <1>6, <1>7, <1>9, <1>11, <1>12, <1>13 DEF Requests!StoryIsKept
<1>15. Requests!RequestIsEnd'
  BY <1>1 DEF Requests!RequestIsEnd
<1>16. Requests!SizeOf(Requests!Protected)' = Requests!SizeOf(Requests!Protected) + 1 + Requests!SizeOf(x9)
  <2>1. PICK a, s : a = Requests!Protected /\ s = x2
    OBVIOUS
  <2>2. /\ a \in Seq(Requests!Frame) /\ Len(a) = Len(q) - s /\ \A i \in 1..(Len(q) - s) : a[i] = q[s + i]
        /\ Requests!SizeOf(a) \in Nat /\ s \in Nat
    BY <1>5, <2>1, ProtectedSizes DEF Requests!WholeInv
  <2>3. PICK b : b = SubSeq(r, s + 1, Len(r))
    OBVIOUS
  <2>4. s \in 0..Len(r) /\ s < Len(q)
    BY <1>2, <1>5, <1>6, <2>1
  <2>5. b \in Seq(Requests!Frame) /\ Len(b) = Len(r) - s /\ \A i \in 1..(Len(r) - s) : b[i] = r[s + i]
    BY <1>6, <2>3, <2>4, TailOf
  <2>6. Len(b) = Len(a) + 1 /\ Len(a) \in Nat
    BY <1>6, <2>2, <2>4, <2>5
  <2>7. ASSUME NEW n \in 1..Len(a) PROVE b[n] = a[n]
    <3>1. n \in 1..(Len(r) - s) /\ n \in 1..(Len(q) - s) /\ s + n \in DOMAIN q
      BY <1>6, <2>2, <2>4
    <3> QED BY <1>6, <2>2, <2>5, <3>1
  <2>8. b[Len(a) + 1] = e
    <3>1. Len(a) + 1 \in 1..(Len(r) - s) /\ s + (Len(a) + 1) = Len(q) + 1
      BY <1>6, <2>2, <2>4
    <3>2. b[Len(a) + 1] = r[s + (Len(a) + 1)]
      BY <2>5, <3>1
    <3> QED BY <1>6, <3>1, <3>2
  <2>9. Requests!SizeOf(b) = Requests!SizeOf(a) + b[Len(a) + 1].size
    BY <2>2, <2>5, <2>6, <2>7, FrameSizes, SizeWithOneMore
  <2>10. Requests!SizeOf(Requests!Protected)' = Requests!SizeOf(b)
    BY <1>1, <1>6, <2>1, <2>3 DEF Requests!Protected, Requests!SizeOf, Requests!Sums
  <2>11. Requests!SizeOf(b) = Requests!SizeOf(a) + 1 + Requests!SizeOf(x9)
    BY <1>4, <2>2, <2>8, <2>9
  <2> QED BY <2>1, <2>10, <2>11
<1>17. Requests!RoundFits'
  <2>1. ASSUME x14' = "full" PROVE b0 + (Requests!SizeOf(Requests!Protected) + 1 + Requests!SizeOf(x9)) <= Budget
    <3>1. x14 = "full" /\ ~(b0 > x3)
      BY <1>1, <2>1
    <3>2. x9 # <<>>
      BY DEF Requests!RoundEnds, Requests!StoreInv, Requests!CallsAreFresh
    <3>3. x3 + Requests!SizeOf(Requests!Protected) + 1 + Requests!SizeOf(x9) <= Budget
      BY <1>1, <3>1, <3>2 DEF Requests!WholeInv, Requests!RoundFits
    <3>4. Requests!SizeOf(Requests!Protected) \in Nat /\ Requests!SizeOf(x9) \in Nat
      BY <1>4, ProtectedSizes DEF Requests!WholeInv
    <3> QED BY <1>2, <3>1, <3>3, <3>4, RequestBounds
  <2>2. x6' # "tools" /\ x3' = b0
    BY <1>1
  <2> QED BY <1>16, <2>1, <2>2 DEF Requests!RoundFits
<1> QED BY <1>8, <1>14, <1>15, <1>17 DEF Requests!WholeInv

LEMMA WholeStep ==
  ASSUME Requests!WholeInv, Requests!StoreInv, [Requests!RequestNext]_(Requests!requestVars)
  PROVE  Requests!WholeInv'
<1>1. CASE Requests!Compact
  BY <1>1, CompactKeepsWhole
<1>2. CASE Requests!Assemble
  BY <1>2, AssembleKeepsWhole
<1>3. CASE Requests!Answers \/ Requests!Fails
  BY <1>3, EndsWhole DEF Requests!Answers, Requests!Fails
<1>4. ASSUME NEW b \in Blocks, Requests!RoundEnds(b) PROVE Requests!WholeInv'
  BY <1>4, RoundEndKeepsWhole
<1>5. ASSUME NEW b \in Blocks, Requests!GoesOn(b) PROVE Requests!WholeInv'
  BY <1>5, GoingOnKeepsWhole
<1>6. ASSUME NEW b \in Blocks, NEW ids, Requests!Calls(b, ids) PROVE Requests!WholeInv'
  BY <1>6, CallsKeepWhole
<1>7. ASSUME NEW n \in Lengths, NEW list \in BOOLEAN, Requests!Tool(n, list) PROVE Requests!WholeInv'
  BY <1>7, ToolKeepsWhole, NaturalBounds
<1>8. ASSUME NEW n \in Lengths, NEW kind \in {"error", "note"}, Requests!Notes(kind, n) PROVE Requests!WholeInv'
  BY <1>8, NoteKeepsWhole, NaturalBounds DEF Requests!Notes
<1>9. ASSUME NEW ref \in DOMAIN x10, NEW limit \in 1..Inline, NEW offset \in 0..Len(x10[ref].items),
             Requests!Read(ref, offset, limit)
      PROVE  Requests!WholeInv'
  <2>1. limit \in Nat
    BY NaturalBounds
  <2> QED BY <1>9, <2>1, ReadKeepsWhole
<1>10. CASE UNCHANGED Requests!requestVars
  BY <1>10, WholeStutters
<1> QED BY <1>1, <1>2, <1>3, <1>4, <1>5, <1>6, <1>7, <1>8, <1>9, <1>10 DEF Requests!RequestNext

LEMMA WholeInitially ==
  ASSUME Requests!RequestInit
  PROVE  Requests!WholeInv
<1>1. /\ x5 = 0 /\ x6 = "compact" /\ x9 = <<>> /\ x14 = "turn" /\ MaxHistory \in Nat /\ x3 \in Nat
  BY RequestBounds DEF Requests!RequestInit
<1>2. PICK h \in 0..MaxHistory :
        /\ \E n \in Lengths : x1 = [i \in 1..(h + 1) |-> [size |-> IF i > h THEN n ELSE 1,
                                                              holds |-> {MaxHistory - h + i}]]
        /\ x2 = h
  BY DEF Requests!RequestInit
<1>3. h \in Nat /\ h + 1 \in Nat /\ x2 + 1 \in 1..(h + 1)
  BY <1>1, <1>2
<1>4. ASSUME NEW i \in 1..(h + 1)
      PROVE  x1[i] \in Requests!Frame /\ x1[i].holds = {MaxHistory - h + i} /\ MaxHistory - h + i \in Nat
  <2>1. PICK n \in Lengths : x1[i] = [size |-> IF i > h THEN n ELSE 1, holds |-> {MaxHistory - h + i}]
    BY <1>2
  <2>2. MaxHistory - h + i \in Nat /\ n \in Nat
    BY <1>1, NaturalBounds
  <2> QED BY <2>1, <2>2 DEF Requests!Frame
<1>5. x1 \in [1..(h + 1) -> Requests!Frame]
  BY <1>2, <1>4
<1>6. x1 \in Seq(Requests!Frame) /\ Len(x1) = h + 1 /\ DOMAIN x1 = 1..(h + 1)
  BY <1>3, <1>5, ListOf
<1>7. Requests!FramesInForm
  <2>1. x1[x2 + 1].holds = {Requests!Turn}
    <3>1. MaxHistory - h + (x2 + 1) = Requests!Turn
      BY <1>1, <1>2 DEF Requests!Turn
    <3> QED BY <1>3, <1>4, <3>1
  <2>2. x2 \in Nat /\ x2 < Len(x1)
    BY <1>2, <1>3, <1>6
  <2>3. x6 # "tools"
    BY <1>1
  <2> QED BY <1>1, <1>6, <2>1, <2>2, <2>3 DEF Requests!FramesInForm
<1>8. Requests!StoryIsKept
  <2>1. Requests!OrderIsKept
    <3> SUFFICES ASSUME NEW i \in 1..(h + 1), NEW j \in 1..(h + 1), i < j, NEW m \in x1[i].holds, NEW n \in x1[j].holds
                 PROVE  m < n
      BY <1>6 DEF Requests!OrderIsKept
    <3>1. m = MaxHistory - h + i /\ n = MaxHistory - h + j
      BY <1>4
    <3> QED BY <1>1, <3>1
  <2>2. Requests!RoundsKept = 0 /\ Requests!BetweenRounds
    BY <1>1 DEF Requests!RoundsKept, Requests!BetweenRounds
  <2>3. ASSUME NEW i \in DOMAIN x1, NEW m \in x1[i].holds PROVE m <= Requests!Turn + Requests!RoundsKept
    <3>1. i \in 1..(h + 1) /\ m = MaxHistory - h + i
      BY <1>4, <1>6
    <3> QED BY <1>1, <2>2, <3>1 DEF Requests!Turn
  <2> QED BY <2>1, <2>2, <2>3 DEF Requests!StoryIsKept
<1>9. Requests!RequestIsEnd /\ Requests!RoundFits
  BY <1>1 DEF Requests!RequestIsEnd, Requests!RoundFits
<1> QED BY <1>7, <1>8, <1>9 DEF Requests!WholeInv

LEMMA WholeIsWhole ==
  ASSUME Requests!WholeInv, Requests!StoreInv
  PROVE  Requests!RequestIsWhole
<1>1. Requests!OrderIsKept
  BY DEF Requests!WholeInv, Requests!StoryIsKept
<1>2. /\ x1 \in Seq(Requests!Frame) /\ Len(x1) \in Nat /\ x2 \in Nat /\ x2 < Len(x1)
      /\ x1[x2 + 1].holds = {Requests!Turn} /\ Requests!SizeOf(Requests!Protected) \in Nat
  BY ProtectedSizes DEF Requests!WholeInv, Requests!FramesInForm
<1>3. CASE x6 # "model"
  BY <1>1, <1>3 DEF Requests!RequestIsWhole, Requests!TurnIsSent, Requests!FullResultsFit
<1>4. CASE x6 = "model"
  <2>1. PICK d \in 0..x2 : x7 = SubSeq(x1, d + 1, Len(x1)) /\ (d = x2 \/ Requests!Fits(x7))
    BY <1>4 DEF Requests!WholeInv, Requests!RequestIsEnd
  <2>2. d \in Nat /\ d \in 0..Len(x1)
    BY <1>2
  <2>3. /\ x7 \in Seq(Requests!Frame) /\ Len(x7) = Len(x1) - d
        /\ \A i \in 1..(Len(x1) - d) : x7[i] = x1[d + i]
    <3>1. PICK r : r = SubSeq(x1, d + 1, Len(x1))
      OBVIOUS
    <3>2. r \in Seq(Requests!Frame) /\ Len(r) = Len(x1) - d /\ \A i \in 1..(Len(x1) - d) : r[i] = x1[d + i]
      BY <1>2, <2>2, <3>1, TailOf
    <3> QED BY <2>1, <3>1, <3>2
  <2>4. ASSUME NEW i \in (x2 + 1)..Len(x1)
        PROVE  i - d \in DOMAIN x7 /\ x7[i - d] = x1[i]
    <3>1. i - d \in 1..(Len(x1) - d) /\ d + (i - d) = i /\ DOMAIN x7 = 1..Len(x7)
      BY <1>2, <2>2, <2>3
    <3> QED BY <2>3, <3>1
  <2>5. Requests!TurnIsSent
    <3>1. Requests!RoundsKept = x5
      BY <1>4 DEF Requests!RoundsKept, Requests!BetweenRounds
    <3>2. ASSUME NEW n \in 1..x5
          PROVE  \E i \in DOMAIN x7 : /\ Requests!Turn + n \in x7[i].holds
                                      /\ n + KeepFrames > x5 => x7[i].holds = {Requests!Turn + n}
      <4>1. PICK i \in (x2 + 1)..Len(x1) :
              /\ Requests!Turn + n \in x1[i].holds
              /\ n + KeepFrames > x5 => x1[i].holds = {Requests!Turn + n}
        BY <1>4, <3>1 DEF Requests!WholeInv, Requests!StoryIsKept, Requests!BetweenRounds
      <4> QED BY <2>4, <4>1
    <3>3. x2 + 1 \in (x2 + 1)..Len(x1)
      BY <1>2
    <3>4. \E i \in DOMAIN x7 : x7[i].holds = {Requests!Turn}
      BY <1>2, <2>4, <3>3
    <3> QED BY <3>2, <3>4 DEF Requests!TurnIsSent
  <2>6. Requests!FullResultsFit
    <3> SUFFICES ASSUME ~Requests!Fits(x7)
                 PROVE  Len(x7) = Len(x1) - x2 /\ x14 # "full"
      BY DEF Requests!FullResultsFit
    <3>1. d = x2
      BY <2>1
    <3>2. x7 = Requests!Protected
      BY <2>1, <3>1 DEF Requests!Protected
    <3>3. x14 # "full"
      BY <1>4, <3>2 DEF Requests!WholeInv, Requests!RoundFits, Requests!BetweenRounds, Requests!Fits
    <3> QED BY <2>3, <3>1, <3>3
  <2> QED BY <1>1, <2>5, <2>6 DEF Requests!RequestIsWhole
<1> QED BY <1>3, <1>4


RequestPart == part = "request" => Requests!StoreInv /\ Requests!WholeInv

LEMMA RequestAlone ==
  part = "request" /\ [Next]_all => [Requests!RequestNext]_(Requests!requestVars)
BY DEF Next, all, Requests!requestVars

LEMMA RequestInitially == Init => RequestPart
BY StoreInitially, WholeInitially DEF Init, RequestPart

LEMMA RequestGoesOn == RequestPart /\ [Next]_all => RequestPart'
BY PartStays, RequestAlone, StoreStep, WholeStep DEF RequestPart

\* A pointer the model was given is to its own result, and what it reads on from
\* the start of a result, in pages or whole, is that result, all of it once the
\* model is told that there is no more (#deliverToolResult, the inline answer of
\* InternalToolExecutor, ToolOutputStore.read).
THEOREM ResultsAlwaysReadable == Spec => []ResultsAreReadable
<1>1. Init => RequestPart
  BY RequestInitially
<1>2. RequestPart /\ [Next]_all => RequestPart'
  BY RequestGoesOn
<1>3. RequestPart => ResultsAreReadable
  BY StoreIsReadable DEF RequestPart, ResultsAreReadable
<1> QED BY <1>1, <1>2, <1>3, PTL DEF Spec

\* Whatever is dropped or compacted, and however long summaries, pages and blocks
\* are, the request tells the run from the turn of the user on, in its order, the
\* turn and the last rounds word for word; over the budget it has no history left,
\* and what it grew by last is not a result of a tool put in full
\* (assembleBudgetedFrames, tryCompact, fitsProjectedToolExchange).
THEOREM RequestsAlwaysWhole == Spec => []RequestIsWhole
<1>1. Init => RequestPart
  BY RequestInitially
<1>2. RequestPart /\ [Next]_all => RequestPart'
  BY RequestGoesOn
<1>3. RequestPart => RequestIsWhole
  BY WholeIsWhole DEF RequestPart, RequestIsWhole
<1> QED BY <1>1, <1>2, <1>3, PTL DEF Spec
=============================================================================
