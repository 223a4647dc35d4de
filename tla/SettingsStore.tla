---------------------------- MODULE SettingsStore ----------------------------
(***************************************************************************)
(* The settings of the desktop application: PersistenceFacade's settings   *)
(* half over JsonSettingsRepository.  Writers queue behind one another     *)
(* (#serializeWrite); readers wait for the writers queued before them and  *)
(* then run beside the later ones.  Every request loads the file anew; a   *)
(* key that an older version left in plain text is sealed on the way,      *)
(* which is a write of the reader's own.  A file that cannot be read or    *)
(* parsed gives the defaults, and the next write stores those.             *)
(*                                                                         *)
(* Of the settings the model keeps what the rules relate: the chosen model *)
(* (standing for every plain setting), the API profiles with their keys,   *)
(* the active profile and the switch of all APIs.                          *)
(***************************************************************************)
EXTENDS Naturals, SequencesExt

CONSTANTS Caller,       \* requests that may be under way at once
          Profile,      \* the ids of API profiles, Legacy among them
          Legacy,       \* the id given to the endpoint of an older version
          Key,          \* the API keys a user may enter
          Nothing,      \* no key, no profile, no file
          MaxRequests, MaxFaults   \* bounds of the model

VARIABLES file,       \* what settings.json holds, or Nothing
          request,    \* caller -> what it asked for
          at,         \* caller -> how far it is
          ahead,      \* caller -> the writers it waits for
          loaded,     \* caller -> the settings it read
          acked,      \* the model and the keys of the writes that were answered
          asked,      \* how many requests were made
          faults,     \* how many reads and writes failed
          misread,    \* whether a file that exists was read as the defaults
          overtaken,  \* whether a reader stored what it read before a write
          unsealed    \* whether the operating system refused to seal a key

settingsVars == <<file, request, at, ahead, loaded, acked, asked, faults,
                  misread, overtaken, unsealed>>

-----------------------------------------------------------------------------

\* A profile: its key, whether that key is sealed, and its switch.
Defaults == [model |-> 0, profiles |-> << >>, active |-> Nothing, apiOn |-> TRUE]

\* settings.json of an older version: one endpoint, its key in plain text.
OldFile == [model |-> 0, profiles |-> << >>, active |-> Nothing, apiOn |-> TRUE,
            plain |-> CHOOSE k \in Key : TRUE]

\* What toWpfSettingsSnapshot writes: a key that is not sealed is left out.
Stored(s) ==
  [model |-> s.model, active |-> s.active, apiOn |-> s.apiOn, plain |-> Nothing,
   profiles |-> [p \in DOMAIN s.profiles |->
     IF s.profiles[p].sealed THEN s.profiles[p]
     ELSE [s.profiles[p] EXCEPT !.key = Nothing]]]

\* What load makes of the file: the old endpoint becomes a profile.
Parsed(f) ==
  IF DOMAIN f.profiles = {} /\ f.plain # Nothing
  THEN [model |-> f.model, apiOn |-> f.apiOn, active |-> Legacy,
        profiles |-> [p \in {Legacy} |-> [key |-> f.plain, sealed |-> FALSE, on |-> TRUE]]]
  ELSE [model |-> f.model, apiOn |-> f.apiOn, active |-> f.active,
        profiles |-> f.profiles]

Unsealed(s) == {p \in DOMAIN s.profiles : s.profiles[p].key # Nothing /\ ~s.profiles[p].sealed}

\* The profiles whose plain key the operating system sealed.
Migrated(s) ==
  [s EXCEPT !.profiles = [p \in DOMAIN @ |-> [@[p] EXCEPT !.sealed = TRUE]]]

-----------------------------------------------------------------------------

\* The requests: a read; a change of the model, of the active profile or of
\* the switch; a profile saved with a new key, none or the one it has, and
\* switched on, off or left; a profile deleted.  A write names the profile it is about.
Reads == {[kind |-> "get"]}
Updates == [kind : {"update"}, model : 1..MaxRequests]
           \cup [kind : {"select"}, profile : Profile]
           \cup [kind : {"switch"}, on : BOOLEAN]
Saves == [kind : {"save"}, profile : Profile, key : Key \cup {Nothing, "same"},
          on : {"on", "off", "same"}]
Deletes == [kind : {"delete"}, profile : Profile]
IsWrite(r) == r.kind # "get"

\* validProfileId: a profile that is not there leaves the choice as it was.
ValidProfile(wanted, s) == IF wanted \in DOMAIN s.profiles THEN wanted ELSE s.active

\* The profile that a save leaves: what the request omits stays.
SavedProfile(r, s) ==
  LET existing == r.profile \in DOMAIN s.profiles
      old == s.profiles[r.profile]
  IN [key |-> IF r.key # "same" THEN r.key ELSE IF existing /\ old.sealed THEN old.key ELSE Nothing,
      sealed |-> TRUE,
      on |-> IF r.on = "same" THEN ~existing \/ old.on ELSE r.on = "on"]

\* Slip: the other profiles stay as they were.
OthersAsTheyWere(r, s) == s.profiles

\* A profile switched on while all APIs are off leaves the others off.
Others(r, s) ==
  IF r.on = "on" /\ ~s.apiOn
  THEN [p \in DOMAIN s.profiles |-> [s.profiles[p] EXCEPT !.on = FALSE]]
  ELSE s.profiles

Saved(r, s) ==
  [s EXCEPT !.profiles = [p \in DOMAIN @ \cup {r.profile} |->
                            IF p = r.profile THEN SavedProfile(r, s) ELSE Others(r, s)[p]],
            !.active = IF @ = Nothing THEN r.profile ELSE @,
            !.apiOn = @ \/ r.on = "on"]

\* Deleting the active profile leaves none active.
ActiveAfter(p, s) == IF s.active = p THEN Nothing ELSE s.active

Changed(r, s) ==
  CASE r.kind = "update" -> [s EXCEPT !.model = r.model]
    [] r.kind = "select" -> [s EXCEPT !.active = ValidProfile(r.profile, s)]
    [] r.kind = "switch" -> [s EXCEPT !.apiOn = r.on]
    [] r.kind = "save"   -> Saved(r, s)
    [] r.kind = "delete" -> [s EXCEPT !.profiles = Restrict(@, DOMAIN @ \ {r.profile}),
                                      !.active = ActiveAfter(r.profile, s)]

\* What the answered writes say the file must hold.
Acknowledged(r, s) ==
  CASE r.kind = "update" -> [acked EXCEPT !.model = r.model]
    [] r.kind \in {"save", "delete"} -> [acked EXCEPT !.keys[r.profile] =
         IF r.kind = "delete" THEN "deleted"
         ELSE IF r.key # "same" THEN r.key
         ELSE IF @ \in Key THEN @ ELSE Nothing]
    [] OTHER -> acked

-----------------------------------------------------------------------------

KnownKeys(f) == [p \in Profile |->
  IF p \in DOMAIN Parsed(f).profiles THEN Parsed(f).profiles[p].key ELSE "deleted"]

SettingsInit ==
  /\ file \in {Stored(Defaults), OldFile,
               [Stored(Defaults) EXCEPT !.apiOn = FALSE, !.active = Legacy,
                 !.profiles = [p \in {Legacy} |->
                    [key |-> CHOOSE k \in Key : TRUE, sealed |-> TRUE, on |-> TRUE]]]}
  /\ request = [c \in Caller |-> [kind |-> "get"]]
  /\ at = [c \in Caller |-> "idle"]
  /\ ahead = [c \in Caller |-> {}]
  /\ loaded = [c \in Caller |-> Defaults]
  /\ acked = [model |-> 0, keys |-> KnownKeys(file)]
  /\ asked = 0 /\ faults = 0
  /\ misread = FALSE /\ overtaken = FALSE /\ unsealed = FALSE

\* Slip: writers do not wait for one another.
QueuedUnserialized == {}

\* The writers whose turn is before that of a request made now.
Queued == {c \in Caller : at[c] # "idle" /\ IsWrite(request[c])}

Asks(c, r) ==
  /\ at[c] = "idle" /\ asked < MaxRequests
  /\ request' = [request EXCEPT ![c] = r]
  /\ at' = [at EXCEPT ![c] = "waiting"]
  /\ ahead' = [ahead EXCEPT ![c] = Queued]
  /\ asked' = asked + 1
  /\ UNCHANGED <<file, loaded, acked, faults, misread, overtaken, unsealed>>

\* A request is over: those behind it need not wait for it any longer.
Ends(c) ==
  /\ at' = [at EXCEPT ![c] = "idle"]
  /\ ahead' = [d \in Caller |-> ahead[d] \ {c}]
  /\ request' = [request EXCEPT ![c] = [kind |-> "get"]]
  /\ loaded' = [loaded EXCEPT ![c] = Defaults]

Read(c, s) ==
  /\ at[c] = "waiting" /\ ahead[c] = {}
  /\ loaded' = [loaded EXCEPT ![c] = s]

\* #loadSettings reads the file; a plain key is sealed, or stays plain.
Loads(c) ==
  LET s == Parsed(file) IN
  /\ \/ /\ Unsealed(s) = {}
        /\ Read(c, s) /\ at' = [at EXCEPT ![c] = "loaded"]
        /\ UNCHANGED unsealed
     \/ /\ Unsealed(s) # {}
        /\ Read(c, Migrated(s)) /\ at' = [at EXCEPT ![c] = "sealed"]
        /\ UNCHANGED unsealed
     \/ /\ Unsealed(s) # {}
        /\ Read(c, s) /\ at' = [at EXCEPT ![c] = "loaded"]
        /\ unsealed' = TRUE
  /\ UNCHANGED <<file, request, ahead, acked, asked, faults, misread, overtaken>>

\* A file that is locked, damaged or holds a wrong value reads as null.
Misreads(c) ==
  /\ faults < MaxFaults
  /\ Read(c, Defaults)
  /\ at' = [at EXCEPT ![c] = "loaded"]
  /\ faults' = faults + 1 /\ misread' = TRUE
  /\ UNCHANGED <<file, request, ahead, acked, asked, overtaken, unsealed>>

\* The sealed keys are stored before the request goes on.
Migrates(c) ==
  /\ at[c] = "sealed"
  /\ at' = [at EXCEPT ![c] = "loaded"]
  /\ overtaken' = (overtaken \/ Migrated(Parsed(file)) # loaded[c])
  /\ file' = Stored(loaded[c])
  /\ UNCHANGED <<request, ahead, loaded, acked, asked, faults, misread, unsealed>>

Answers(c) ==
  /\ at[c] = "loaded" /\ ~IsWrite(request[c])
  /\ Ends(c)
  /\ UNCHANGED <<file, acked, asked, faults, misread, overtaken, unsealed>>

\* deleteApiProfile of a profile that is not there; saveApiProfile with an
\* address that is not safe, or a new key that cannot be sealed.
Refuses(c) ==
  /\ at[c] = "loaded"
  /\ \/ request[c].kind = "delete" /\ request[c].profile \notin DOMAIN loaded[c].profiles
     \/ request[c].kind = "save"
  /\ Ends(c)
  /\ UNCHANGED <<file, acked, asked, faults, misread, overtaken, unsealed>>

Commits(c) ==
  LET r == request[c] IN
  /\ at[c] = "loaded" /\ IsWrite(r)
  /\ r.kind = "delete" => r.profile \in DOMAIN loaded[c].profiles
  /\ file' = Stored(Changed(r, loaded[c]))
  /\ acked' = Acknowledged(r, loaded[c])
  /\ Ends(c)
  /\ UNCHANGED <<asked, faults, misread, overtaken, unsealed>>

\* A write that fails leaves the file, and the caller is told.
SaveFails(c) ==
  /\ faults < MaxFaults
  /\ at[c] = "sealed" \/ (at[c] = "loaded" /\ IsWrite(request[c]))
  /\ faults' = faults + 1
  /\ Ends(c)
  /\ UNCHANGED <<file, acked, asked, misread, overtaken, unsealed>>

\* The program stops at any moment; the file is renamed into place whole.
Restarts ==
  /\ faults < MaxFaults
  /\ \E c \in Caller : at[c] # "idle"
  /\ faults' = faults + 1
  /\ at' = [c \in Caller |-> "idle"]
  /\ ahead' = [c \in Caller |-> {}]
  /\ request' = [c \in Caller |-> [kind |-> "get"]]
  /\ loaded' = [c \in Caller |-> Defaults]
  /\ UNCHANGED <<file, acked, asked, misread, overtaken, unsealed>>

SettingsNext ==
  \/ \E c \in Caller :
       \/ \E r \in Reads \cup Updates \cup Saves \cup Deletes : Asks(c, r)
       \/ Loads(c) \/ Misreads(c) \/ Migrates(c) \/ Answers(c)
       \/ Refuses(c) \/ Commits(c) \/ SaveFails(c)
  \/ Restarts

SettingsSpec == SettingsInit /\ [][SettingsNext]_settingsVars

-----------------------------------------------------------------------------

\* Typing of the callers and of the file.
SettingsTypeOK ==
  /\ at \in [Caller -> {"idle", "waiting", "sealed", "loaded"}]
  /\ ahead \in [Caller -> SUBSET Caller]
  /\ file.model \in 0..MaxRequests /\ DOMAIN file.profiles \subseteq Profile

\* What a write was answered with is in the file, whatever was asked at the
\* same time: unless the file was once read as the defaults, a reader that
\* sealed an old key stored what it had read before, or a key could not be
\* sealed.  (updateSettings, saveApiProfile and deleteApiProfile load, change
\* and store the whole file.)
AnsweredIsStored ==
  ~misread /\ ~overtaken /\ ~unsealed =>
     /\ file.model = acked.model
     /\ KnownKeys(file) = acked.keys

\* The profile that answers the chats is one of the profiles in the file,
\* whatever was deleted while a request to select it was waiting.
ActiveIsAProfile ==
  Parsed(file).active \in DOMAIN Parsed(file).profiles \cup {Nothing}

SettingsAreKept == SettingsTypeOK /\ AnsweredIsStored /\ ActiveIsAProfile

On(f, p) == p \in DOMAIN f.profiles /\ f.profiles[p].on /\ f.apiOn

\* No write puts an API to use that was off, except the one that asks for it:
\* a save of that profile, or the switch of all ("must not silently enable
\* other APIs").
SwitchedOnByRequest ==
  \A c \in Caller, p \in Profile :
    ~On(file, p) /\ p \in DOMAIN file.profiles /\ On(file', p)
      /\ at[c] = "loaded" /\ at'[c] = "idle" /\ ~overtaken =>
    \/ request[c].kind = "save" /\ request[c].profile = p
    \/ request[c] = [kind |-> "switch", on |-> TRUE]

\* The inductive invariant behind both: settings and file are well formed, the
\* writers stand in one queue whose head alone has read the file, and what the
\* head has read is what was answered last.
Entry == [key : Key \cup {Nothing}, sealed : BOOLEAN, on : BOOLEAN]

WellFormed(s) ==
  /\ s \in [model : 0..MaxRequests, apiOn : BOOLEAN, active : Profile \cup {Nothing},
            profiles : UNION {[D -> Entry] : D \in SUBSET Profile}]
  /\ s.active \in DOMAIN s.profiles \cup {Nothing}

FileInForm ==
  /\ WellFormed(Parsed(file)) /\ DOMAIN file.profiles \subseteq Profile
  /\ file.plain \in Key \cup {Nothing}

Writing(c) == at[c] # "idle" /\ IsWrite(request[c])
HasRead(c) == at[c] \in {"sealed", "loaded"}

InOneQueue ==
  /\ \A c, d \in Caller : Writing(c) /\ Writing(d) /\ c # d => c \in ahead[d] \/ d \in ahead[c]
  /\ \A c \in Caller : HasRead(c) => ahead[c] = {}

Keys(s) == [p \in Profile |-> IF p \in DOMAIN s.profiles THEN s.profiles[p].key ELSE "deleted"]

\* What the request at the head of the queue works with.
HeadIsCurrent ==
  \A c \in Caller : Writing(c) /\ HasRead(c) =>
    /\ ~misread /\ ~overtaken /\ ~unsealed =>
         loaded[c].model = acked.model /\ Keys(loaded[c]) = acked.keys
    /\ ~overtaken => \A p \in Profile : On(loaded[c], p) => On(Parsed(file), p)

SettingsInv ==
  /\ SettingsTypeOK /\ FileInForm /\ InOneQueue /\ AnsweredIsStored /\ HeadIsCurrent
  /\ request \in [Caller -> Reads \cup Updates \cup Saves \cup Deletes]
  /\ DOMAIN loaded = Caller /\ \A c \in Caller : WellFormed(loaded[c])
  /\ \A c \in Caller : HasRead(c) /\ (at[c] = "sealed" \/ ~unsealed) => Unsealed(loaded[c]) = {}
  /\ acked \in [model : 0..MaxRequests, keys : [Profile -> Key \cup {Nothing, "deleted"}]]
=============================================================================
