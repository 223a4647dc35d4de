---------------------------- MODULE SettingValues ----------------------------
(***************************************************************************)
(* The way of one setting through the program: a value of settings.json    *)
(* (which a user may have edited by hand) is normalised by the main        *)
(* process, again by the screen, replaced by a patch within the limits of  *)
(* the IPC schema, stored, and clamped once more when a run starts.  Each  *)
(* of these places has rules of its own.  One behaviour follows one        *)
(* setting: a number, or the list of per-model overrides.                  *)
(*                                                                         *)
(* A raw number is [n, whole, text]: n, or n and a half unless whole, or   *)
(* the text of it; a raw value may be None (null) or Absent as well.       *)
(***************************************************************************)
EXTENDS Integers, Sequences

CONSTANTS None, Absent,
          Ref,       \* provider and model of an override
          Blank,     \* a reference that lacks one of the two
          MaxList    \* bound on a list of overrides

VARIABLES field,   \* the setting
          disk,    \* its value in settings.json
          held,    \* what the main process read there, Absent before
          shown,   \* what the screen made of that, Absent before
          used,    \* what a run made of that, Absent before
          chosen   \* what the user asked for last, or Absent

valueVars == <<field, disk, held, shown, used, chosen>>

-----------------------------------------------------------------------------
\* The limits of the schemas and the standard values.

Whole(l, h, s) == [low |-> l, high |-> h, standard |-> s, nullable |-> FALSE, clamped |-> TRUE]
Optional(l, h, s) == [low |-> l, high |-> h, standard |-> s, nullable |-> TRUE, clamped |-> TRUE]
AsHeld(f) == [low |-> f.low, high |-> f.high, standard |-> f.standard,
              nullable |-> f.nullable, clamped |-> FALSE]

\* The settings of a run.
ExecutionFields ==
  [maxToolRounds |-> Whole(1, 64, 8), compactKeepRecentFrames |-> Whole(0, 20, 1),
   compactMaxTranscriptChars |-> Whole(2000, 200000, 30000),
   plannerMaxAttempts |-> Whole(1, 5, 2), plannerMaxSteps |-> Whole(1, 32, 10),
   verifierMaxAttempts |-> Whole(1, 5, 2), verifierMaxEvidence |-> Whole(2, 50, 12),
   maxTaskReplans |-> Whole(0, 16, 2), historyMessageLimit |-> Optional(4, 1000, None),
   toolResultMaxChars |-> Optional(500, 200000, None), plannerMaxTokens |-> Optional(256, 200000, 2048)]

\* What the history on disk and the API client use as the main process holds it.
StorageFields == [maxSessions |-> AsHeld(Whole(0, 10000, 30)),
                  maxMessagesPerSession |-> AsHeld(Whole(0, 10000, 100))]
ProfileFields == [contextWindow |-> AsHeld(Optional(1024, 2000000, None)),
                  maxOutputTokens |-> AsHeld(Optional(128, 1000000, None)),
                  requestTimeoutMs |-> AsHeld(Whole(5000, 600000, 300000))]
OverrideField == AsHeld(Optional(1024, 2000000, None))

FieldNames == DOMAIN ExecutionFields \cup DOMAIN StorageFields \cup DOMAIN ProfileFields
Field(name) ==
  IF name \in DOMAIN ExecutionFields THEN ExecutionFields[name]
  ELSE IF name \in DOMAIN StorageFields THEN StorageFields[name] ELSE ProfileFields[name]

Allowed(f, v) == IF v = None THEN f.nullable ELSE v \in f.low..f.high

-----------------------------------------------------------------------------
\* One number on its way.

Number(n, whole, text) == [n |-> n, whole |-> whole, text |-> text]
Plain(v) == IF v \in {None, Absent} THEN v ELSE Number(v, TRUE, FALSE)

\* The values worth a try: about the limits, in every form.
Edges(f) == {f.low - 1, f.low, f.low + 1, f.high - 1, f.high, f.high + 1}
Raws(f) == {None, Absent} \cup {Number(n, w, t) : n \in Edges(f), w \in BOOLEAN, t \in BOOLEAN}

Bound(f, n) == IF n < f.low THEN f.low ELSE IF n > f.high THEN f.high ELSE n

\* clampInteger: what is no whole number is the standard value.
ClampInteger(f, raw, otherwise) ==
  IF raw = None \/ raw = Absent \/ raw.text \/ ~raw.whole THEN otherwise ELSE Bound(f, raw.n)

\* The main process; where no value is standard, a bad one becomes the lowest.
Main(f, raw) ==
  IF f.nullable /\ f.standard = None
    THEN IF raw \in {None, Absent} THEN None ELSE ClampInteger(f, raw, f.low)
    ELSE ClampInteger(f, raw, f.standard)

\* The screen, of a value of the main process: boundedInt, nullableInt; Number()
\* reads a text as well, and a null as 0.
Screen(f, v) ==
  IF f.nullable THEN IF v = None THEN f.standard ELSE v
  ELSE Bound(f, v)

\* toAgentRuntimeSettings (the limits of history and results in mode 'fixed').
Runtime(f, v) == IF v = None \/ ~f.clamped THEN v ELSE Bound(f, v)

\* plannerMaxTokens: null (Auto) is allowed by the schema and honoured by the
\* runtime, but the main process and the screen turn it into 2048.
Selectable(f) == {v \in Edges(f) \cup {None} : Allowed(f, v) /\ ~(v = None /\ f.standard # None)}

-----------------------------------------------------------------------------
\* The overrides: [ref, context] each.

RawOverrides ==
  [ref : Ref \cup {Blank},
   context : {Absent, Number(4096, TRUE, TRUE), Number(1, TRUE, FALSE), Number(4096, TRUE, FALSE)}]
RawLists == UNION {[1..n -> RawOverrides] : n \in 0..MaxList}

\* Those at I, in their order.
Filtered(list, I) ==
  LET kept[n \in 0..Len(list)] ==
        IF n = 0 THEN << >> ELSE IF n \in I THEN Append(kept[n - 1], list[n]) ELSE kept[n - 1]
  IN kept[Len(list)]

\* One without a model is dropped, of several of one model the first counts.
FirstOfEach(list) ==
  Filtered(list, {i \in DOMAIN list : list[i].ref # Blank
                                      /\ \A j \in 1..(i - 1) : list[j].ref # list[i].ref})
Without(list, refs) == Filtered(list, {i \in DOMAIN list : list[i].ref \notin refs})

Each(list, Op(_)) == [i \in DOMAIN list |-> [list[i] EXCEPT !.context = Op(@)]]

MainList(list) == Each(FirstOfEach(list), LAMBDA c : Main(OverrideField, c))
\* clampOptionalInt; an override without a number reaches the screen without one.
ScreenList(list) ==
  Each(FirstOfEach(list), LAMBDA c : IF c = None THEN None ELSE Bound(OverrideField, c))

\* The dialog: what was there of the old and of the new model is replaced.
Edited(list, from, override) ==
  Append(Without(list, {from, override.ref}), override)
Cleared(list, from) == Without(list, {from})

\* What a patch of the screen may hold: the list it shows, edited once.
Patches(list) ==
  {Cleared(list, from) : from \in Ref}
  \cup {Edited(list, from, o) : from \in Ref, o \in [ref : Ref, context : {None, 1024, 4096}]}

-----------------------------------------------------------------------------

Listed == field = "overrides"

ValueInit ==
  /\ \/ field \in FieldNames /\ disk \in Raws(Field(field))
     \/ field = "overrides" /\ disk \in RawLists
  /\ held = Absent /\ shown = Absent /\ used = Absent /\ chosen = Absent

\* getSettings, also after a restart.
MainValue == IF Listed THEN MainList(disk) ELSE Main(Field(field), disk)
Read ==
  /\ held' = MainValue
  /\ UNCHANGED <<field, disk, shown, used, chosen>>

\* settings.get: what the main process holds, as the screen takes it.
Show ==
  /\ held # Absent
  /\ shown' = IF Listed THEN ScreenList(held) ELSE Screen(Field(field), held)
  /\ UNCHANGED <<field, disk, held, used, chosen>>

\* settings.update; the patch is stored in its normal form.
Stored(v) ==
  IF Listed THEN Each(FirstOfEach(v), Plain)
  ELSE Plain(Main(Field(field), Plain(v)))
Choose ==
  /\ shown # Absent
  /\ \E v \in IF Listed THEN Patches(shown) ELSE Selectable(Field(field)) :
       chosen' = v /\ disk' = Stored(v)
  /\ held' = Absent /\ shown' = Absent /\ used' = Absent
  /\ UNCHANGED field

\* A run, or a client, takes the value.
Use ==
  /\ held # Absent
  /\ used' = IF Listed THEN held ELSE Runtime(Field(field), held)
  /\ UNCHANGED <<field, disk, held, shown, chosen>>

ValueNext == Read \/ Show \/ Choose \/ Use
ValueSpec == ValueInit /\ [][ValueNext]_valueVars

-----------------------------------------------------------------------------

\* What is used is within the limits of the schema, whatever stood in the
\* file: the history and the API client clamp nothing themselves.
UsedIsAllowed ==
  used # Absent =>
    IF Listed THEN \A i \in DOMAIN used : Allowed(OverrideField, used[i].context)
    ELSE Allowed(Field(field), used)

\* The screen shows what a run uses, not the file as it would read it itself.
ShownIsUsed == shown # Absent /\ used # Absent => shown = used

\* What the user chose survives the store, a restart, the screen and the clamp
\* before a run: at no place is the value pulled to a narrower limit.
ChoiceIsKept == chosen # Absent => {held, shown, used} \subseteq {Absent, chosen}

\* Every override names a model, and a model has one at most: the run takes the
\* first it finds, so a second one would be an edit that never takes effect.
OneOverrideEach ==
  \A list \in {held, shown} : Listed /\ list # Absent =>
    \A i, j \in DOMAIN list :
      list[i].ref # Blank /\ (list[i].ref = list[j].ref => i = j)

ValuesAgree == UsedIsAllowed /\ ShownIsUsed /\ ChoiceIsKept /\ OneOverrideEach

\* The inductive invariant behind ValuesAgree: every place holds what the main
\* process makes of the file, and so does the user, once asked.
Numbers == [n : Int, whole : BOOLEAN, text : BOOLEAN]
RawValues == Numbers \cup {None, Absent}

ValueInv ==
  /\ IF Listed THEN disk \in Seq([ref : Ref \cup {Blank}, context : RawValues])
     ELSE field \in FieldNames /\ disk \in RawValues
  /\ {held, shown, used} \subseteq {Absent, MainValue}
  /\ chosen \in {Absent, MainValue}
=============================================================================
