-------------------------- MODULE MCStores_proofs --------------------------
(***************************************************************************)
(* What the stores of settings and of the document context promise, and    *)
(* what the settings come to on the screen and in a run, proved for every  *)
(* value of their constants.  The sections are laid out as in              *)
(* MCServices_proofs.                                                      *)
(***************************************************************************)
EXTENDS MCServices, SequenceTheorems, FiniteSetTheorems, WellFoundedInduction, TLAPS

\* A behaviour is one of one part.
LEMMA PartStays == [Next]_all => UNCHANGED part
BY DEF Next, all, KeepAfter6, KeepAfter8, KeepAfter10, KeepAfter11, KeepAfter14, KeepAfter16

-----------------------------------------------------------------------------
(* The settings: x1 file, x2 request, x3 at, x4 ahead, x5 loaded, x6 acked, *)
(* x7 asked, x8 faults, x9 misread, x10 overtaken, x11 unsealed.            *)
LEMMA SettingsNumbers == MaxRequests \in Nat /\ Legacy \in Profile /\ Key # {} /\ "deleted" \notin Key
BY ServicesConstants

Wanted == Settings!Reads \cup Settings!Updates \cup Settings!Saves \cup Settings!Deletes

LEMMA Formed ==
  ASSUME NEW s
  PROVE  Settings!WellFormed(s) <=>
           /\ s = [model |-> s.model, apiOn |-> s.apiOn, active |-> s.active, profiles |-> s.profiles]
           /\ s.model \in 0..MaxRequests /\ s.apiOn \in BOOLEAN
           /\ DOMAIN s.profiles \subseteq Profile
           /\ s.profiles \in [DOMAIN s.profiles -> Settings!Entry]
           /\ s.active \in DOMAIN s.profiles \cup {Nothing}
<1> DEFINE P == UNION {[D -> Settings!Entry] : D \in SUBSET Profile}
<1>1. \A m : m \in P <=> DOMAIN m \subseteq Profile /\ m \in [DOMAIN m -> Settings!Entry]
  OBVIOUS
<1> HIDE DEF P
<1> QED BY <1>1 DEF Settings!WellFormed

LEMMA RecordWellFormed ==
  ASSUME NEW n \in 0..MaxRequests, NEW o \in BOOLEAN, NEW m, NEW a \in DOMAIN m \cup {Nothing},
         DOMAIN m \subseteq Profile, m \in [DOMAIN m -> Settings!Entry]
  PROVE  Settings!WellFormed([model |-> n, apiOn |-> o, active |-> a, profiles |-> m])
BY Formed

LEMMA BooleanWellFormed ==
  ASSUME NEW n \in 0..MaxRequests, NEW m, NEW a \in DOMAIN m \cup {Nothing},
         DOMAIN m \subseteq Profile, m \in [DOMAIN m -> Settings!Entry]
  PROVE  /\ Settings!WellFormed([model |-> n, apiOn |-> TRUE, active |-> a, profiles |-> m])
         /\ Settings!WellFormed([model |-> n, apiOn |-> FALSE, active |-> a, profiles |-> m])
<1>1. \A o \in BOOLEAN : Settings!WellFormed([model |-> n, apiOn |-> o, active |-> a, profiles |-> m])
  BY RecordWellFormed
<1>2. TRUE \in BOOLEAN /\ FALSE \in BOOLEAN
  OBVIOUS
<1> QED BY <1>1, <1>2

LEMMA DefaultsWellFormed == Settings!WellFormed(Settings!Defaults) /\ Settings!Unsealed(Settings!Defaults) = {}
<1>1. /\ Settings!Defaults = [model |-> 0, apiOn |-> TRUE, active |-> Nothing, profiles |-> << >>]
      /\ DOMAIN <<>> = {} /\ <<>> \in [{} -> Settings!Entry] /\ 0 \in 0..MaxRequests
  BY SettingsNumbers DEF Settings!Defaults
<1> QED BY <1>1, Formed DEF Settings!Unsealed

\* What is the same of two settings: everything but what is sealed.
Same(s, t) ==
  /\ s.model = t.model /\ s.apiOn = t.apiOn /\ s.active = t.active
  /\ DOMAIN s.profiles = DOMAIN t.profiles
  /\ \A p \in DOMAIN s.profiles : s.profiles[p].on = t.profiles[p].on
SameKeys(s, t) == \A p \in DOMAIN s.profiles : s.profiles[p].key = t.profiles[p].key

LEMMA SameSame ==
  ASSUME NEW s, NEW t, Same(s, t)
  PROVE  /\ \A p : Settings!On(s, p) <=> Settings!On(t, p)
         /\ SameKeys(s, t) => Settings!Keys(s) = Settings!Keys(t)
BY DEF Same, SameKeys, Settings!On, Settings!Keys

LEMMA SettingsRecord ==
  ASSUME NEW a, NEW b, NEW c, NEW d,
         NEW t \in [model : {a}, apiOn : {b}, active : {c}, profiles : {d}]
  PROVE  t = [model |-> a, apiOn |-> b, active |-> c, profiles |-> d]
OBVIOUS

LEMMA WithAll ==
  ASSUME NEW s, Settings!WellFormed(s), NEW m, NEW a, NEW o
  PROVE  /\ [s EXCEPT !.profiles = m, !.active = a, !.apiOn = o]
               = [model |-> s.model, apiOn |-> o, active |-> a, profiles |-> m]
         /\ [s EXCEPT !.profiles = m, !.active = a]
               = [model |-> s.model, apiOn |-> s.apiOn, active |-> a, profiles |-> m]
         /\ [s EXCEPT !.profiles = m]
               = [model |-> s.model, apiOn |-> s.apiOn, active |-> s.active, profiles |-> m]
         /\ [s EXCEPT !.active = a]
               = [model |-> s.model, apiOn |-> s.apiOn, active |-> a, profiles |-> s.profiles]
         /\ [s EXCEPT !.apiOn = o]
               = [model |-> s.model, apiOn |-> o, active |-> s.active, profiles |-> s.profiles]
         /\ [s EXCEPT !.model = a]
               = [model |-> a, apiOn |-> s.apiOn, active |-> s.active, profiles |-> s.profiles]
<1>1. s \in [model : {s.model}, apiOn : {s.apiOn}, active : {s.active}, profiles : {s.profiles}]
  BY DEF Settings!WellFormed
<1>2. [s EXCEPT !.profiles = m, !.active = a, !.apiOn = o] = [model |-> s.model, apiOn |-> o, active |-> a, profiles |-> m]
  <2>1. [s EXCEPT !.profiles = m, !.active = a, !.apiOn = o] \in [model : {s.model}, apiOn : {o}, active : {a}, profiles : {m}]
    BY <1>1
  <2> QED BY <2>1, SettingsRecord
<1>3. [s EXCEPT !.profiles = m, !.active = a] = [model |-> s.model, apiOn |-> s.apiOn, active |-> a, profiles |-> m]
  <2>1. [s EXCEPT !.profiles = m, !.active = a] \in [model : {s.model}, apiOn : {s.apiOn}, active : {a}, profiles : {m}]
    BY <1>1
  <2> QED BY <2>1, SettingsRecord
<1>4. [s EXCEPT !.profiles = m] = [model |-> s.model, apiOn |-> s.apiOn, active |-> s.active, profiles |-> m]
  <2>1. [s EXCEPT !.profiles = m] \in [model : {s.model}, apiOn : {s.apiOn}, active : {s.active}, profiles : {m}]
    BY <1>1
  <2> QED BY <2>1, SettingsRecord
<1>5. [s EXCEPT !.active = a] = [model |-> s.model, apiOn |-> s.apiOn, active |-> a, profiles |-> s.profiles]
  <2>1. [s EXCEPT !.active = a] \in [model : {s.model}, apiOn : {s.apiOn}, active : {a}, profiles : {s.profiles}]
    BY <1>1
  <2> QED BY <2>1, SettingsRecord
<1>6. [s EXCEPT !.apiOn = o] = [model |-> s.model, apiOn |-> o, active |-> s.active, profiles |-> s.profiles]
  <2>1. [s EXCEPT !.apiOn = o] \in [model : {s.model}, apiOn : {o}, active : {s.active}, profiles : {s.profiles}]
    BY <1>1
  <2> QED BY <2>1, SettingsRecord
<1>7. [s EXCEPT !.model = a] = [model |-> a, apiOn |-> s.apiOn, active |-> s.active, profiles |-> s.profiles]
  <2>1. [s EXCEPT !.model = a] \in [model : {a}, apiOn : {s.apiOn}, active : {s.active}, profiles : {s.profiles}]
    BY <1>1
  <2> QED BY <2>1, SettingsRecord
<1> QED BY <1>2, <1>3, <1>4, <1>5, <1>6, <1>7

\* Sealing the keys changes nothing else, and leaves no key unsealed.
LEMMA MigratedSame ==
  ASSUME NEW s, Settings!WellFormed(s)
  PROVE  /\ Settings!WellFormed(Settings!Migrated(s)) /\ Settings!Unsealed(Settings!Migrated(s)) = {}
         /\ Same(Settings!Migrated(s), s) /\ SameKeys(Settings!Migrated(s), s)
<1> DEFINE m == [p \in DOMAIN s.profiles |-> [s.profiles[p] EXCEPT !.sealed = TRUE]]
<1>1. Settings!Migrated(s) = [model |-> s.model, apiOn |-> s.apiOn, active |-> s.active, profiles |-> m]
  <2>1. Settings!Migrated(s) = [s EXCEPT !.profiles = m]
    BY DEF Settings!Migrated
  <2> HIDE DEF m
  <2> QED BY <2>1, WithAll
<1>2. DOMAIN m = DOMAIN s.profiles
  OBVIOUS
<1>3. ASSUME NEW p \in DOMAIN m
      PROVE  /\ m[p] \in Settings!Entry /\ m[p].sealed
             /\ m[p].on = s.profiles[p].on /\ m[p].key = s.profiles[p].key
  <2>1. s.profiles[p] \in Settings!Entry
    BY Formed
  <2> QED BY <2>1 DEF Settings!Entry
<1>7. m \in [DOMAIN m -> Settings!Entry]
  BY <1>3
<1> HIDE DEF m
<1>4. Settings!WellFormed(Settings!Migrated(s))
  <2>1. /\ s.model \in 0..MaxRequests /\ s.apiOn \in BOOLEAN /\ DOMAIN s.profiles \subseteq Profile
        /\ s.active \in DOMAIN s.profiles \cup {Nothing}
    BY Formed
  <2> QED BY <1>1, <1>2, <1>7, <2>1, Formed
<1>5. Settings!Unsealed(Settings!Migrated(s)) = {}
  BY <1>1, <1>3 DEF Settings!Unsealed
<1>6. Same(Settings!Migrated(s), s) /\ SameKeys(Settings!Migrated(s), s)
  BY <1>1, <1>2, <1>3 DEF Same, SameKeys
<1> QED BY <1>4, <1>5, <1>6

\* What is stored is read again, but for the keys that are not sealed.
LEMMA StoredSame ==
  ASSUME NEW s, Settings!WellFormed(s)
  PROVE  /\ Settings!WellFormed(Settings!Parsed(Settings!Stored(s))) /\ Same(Settings!Parsed(Settings!Stored(s)), s)
         /\ Settings!Unsealed(s) = {} => SameKeys(Settings!Parsed(Settings!Stored(s)), s)
         /\ Settings!Stored(s).plain = Nothing /\ Settings!Stored(s).model = s.model
         /\ DOMAIN Settings!Stored(s).profiles = DOMAIN s.profiles
<1> DEFINE m == [p \in DOMAIN s.profiles |->
                   IF s.profiles[p].sealed THEN s.profiles[p]
                   ELSE [s.profiles[p] EXCEPT !.key = Nothing]]
<1>1. /\ Settings!Stored(s).model = s.model /\ Settings!Stored(s).apiOn = s.apiOn /\ Settings!Stored(s).active = s.active
      /\ Settings!Stored(s).profiles = m /\ Settings!Stored(s).plain = Nothing
  BY DEF Settings!Stored
<1>2. DOMAIN m = DOMAIN s.profiles
  OBVIOUS
<1>3. ASSUME NEW p \in DOMAIN m
      PROVE  /\ m[p] \in Settings!Entry /\ m[p].on = s.profiles[p].on
             /\ Settings!Unsealed(s) = {} => m[p].key = s.profiles[p].key
  <2>1. s.profiles[p] \in Settings!Entry
    BY Formed
  <2>2. CASE s.profiles[p].sealed
    BY <2>1, <2>2
  <2>3. CASE ~s.profiles[p].sealed
    <3>1. m[p] = [s.profiles[p] EXCEPT !.key = Nothing]
      BY <2>3
    <3>2. m[p] \in Settings!Entry /\ m[p].on = s.profiles[p].on /\ m[p].key = Nothing
      BY <2>1, <3>1 DEF Settings!Entry
    <3>3. Settings!Unsealed(s) = {} => s.profiles[p].key = Nothing
      BY <2>3 DEF Settings!Unsealed
    <3> QED BY <3>2, <3>3
  <2> QED BY <2>2, <2>3
<1>8. m \in [DOMAIN m -> Settings!Entry]
  BY <1>3
<1> HIDE DEF m
<1>4. Settings!Parsed(Settings!Stored(s)) = [model |-> s.model, apiOn |-> s.apiOn, active |-> s.active, profiles |-> m]
  BY <1>1 DEF Settings!Parsed
<1>5. Settings!WellFormed(Settings!Parsed(Settings!Stored(s)))
  <2>1. /\ s.model \in 0..MaxRequests /\ s.apiOn \in BOOLEAN /\ DOMAIN s.profiles \subseteq Profile
        /\ s.active \in DOMAIN s.profiles \cup {Nothing}
    BY Formed
  <2> QED BY <1>2, <1>4, <1>8, <2>1, Formed
<1>6. Same(Settings!Parsed(Settings!Stored(s)), s)
  BY <1>2, <1>3, <1>4 DEF Same
<1>7. Settings!Unsealed(s) = {} => SameKeys(Settings!Parsed(Settings!Stored(s)), s)
  BY <1>2, <1>3, <1>4 DEF SameKeys
<1> QED BY <1>1, <1>2, <1>5, <1>6, <1>7

----------------------------------------------------------------------------
\* A change keeps settings well formed and the keys sealed; it switches on what
\* it is about and nothing else; and the keys are then those that are answered.
LEMMA SavedWell ==
  ASSUME NEW s, Settings!WellFormed(s), NEW r \in Settings!Saves
  PROVE  /\ Settings!WellFormed(Settings!Saved(r, s)) /\ (Settings!Unsealed(s) = {} => Settings!Unsealed(Settings!Saved(r, s)) = {})
         /\ \A p : p # r.profile /\ Settings!On(Settings!Saved(r, s), p) => Settings!On(s, p)
         /\ Settings!Saved(r, s).model = s.model
         /\ \A p \in Profile : p # r.profile => Settings!Keys(Settings!Saved(r, s))[p] = Settings!Keys(s)[p]
         /\ Settings!Keys(Settings!Saved(r, s))[r.profile] = Settings!SavedProfile(r, s).key
<1> DEFINE old == s.profiles[r.profile]
           others == Settings!Others(r, s)
           D == DOMAIN s.profiles \cup {r.profile}
           m == [p \in D |-> IF p = r.profile THEN Settings!SavedProfile(r, s) ELSE others[p]]
           active == IF s.active = Nothing THEN r.profile ELSE s.active
           apiOn == s.apiOn \/ r.on = "on"
<1>1. Settings!Saved(r, s) = [model |-> s.model, apiOn |-> apiOn, active |-> active, profiles |-> m]
  <2>1. Settings!Saved(r, s) = [s EXCEPT !.profiles = m, !.active = active, !.apiOn = apiOn]
    BY DEF Settings!Saved
  <2> HIDE DEF m, active, apiOn
  <2> QED BY <2>1, WithAll
<1>2. r.profile \in Profile /\ r.key \in Key \cup {Nothing, "same"} /\ r.on \in {"on", "off", "same"}
  BY DEF Settings!Saves
<1>3. Settings!SavedProfile(r, s) \in Settings!Entry /\ Settings!SavedProfile(r, s).sealed
  <2> DEFINE key == IF r.key # "same" THEN r.key
                    ELSE IF r.profile \in DOMAIN s.profiles /\ old.sealed THEN old.key ELSE Nothing
             on == IF r.on = "same" THEN r.profile \notin DOMAIN s.profiles \/ old.on ELSE r.on = "on"
  <2>1. Settings!SavedProfile(r, s) = [key |-> key, sealed |-> TRUE, on |-> on]
    BY DEF Settings!SavedProfile
  <2>2. r.profile \in DOMAIN s.profiles => old.key \in Key \cup {Nothing} /\ old.on \in BOOLEAN
    BY Formed DEF Settings!Entry
  <2>3. key \in Key \cup {Nothing}
    BY <1>2, <2>2
  <2>4. on \in BOOLEAN
    BY <2>2
  <2> HIDE DEF key, on
  <2> QED BY <2>1, <2>3, <2>4 DEF Settings!Entry
<1>4. ASSUME NEW p \in DOMAIN s.profiles
      PROVE  /\ others[p] \in Settings!Entry /\ others[p].key = s.profiles[p].key
             /\ others[p].sealed = s.profiles[p].sealed
             /\ others[p].on /\ apiOn => s.profiles[p].on /\ s.apiOn
  <2>1. s.profiles[p] \in Settings!Entry /\ s.apiOn \in BOOLEAN
    BY Formed
  <2>2. CASE r.on = "on" /\ ~s.apiOn
    <3>1. others[p] = [s.profiles[p] EXCEPT !.on = FALSE]
      BY <2>2 DEF Settings!Others
    <3> QED BY <2>1, <3>1 DEF Settings!Entry
  <2>3. CASE ~(r.on = "on" /\ ~s.apiOn)
    BY <2>1, <2>3 DEF Settings!Others
  <2> QED BY <2>2, <2>3
<1>5. DOMAIN m = D /\ m[r.profile] = Settings!SavedProfile(r, s)
      /\ \A p \in DOMAIN s.profiles : p # r.profile => m[p] = others[p]
  OBVIOUS
<1>6. /\ apiOn \in BOOLEAN /\ D \subseteq Profile /\ active \in D \cup {Nothing}
      /\ s.model \in 0..MaxRequests
  BY <1>2, Formed
<1> HIDE DEF others
<1>7. m \in [D -> Settings!Entry]
  BY <1>3, <1>4, <1>5
<1> HIDE DEF m, active, apiOn
<1>8. Settings!WellFormed(Settings!Saved(r, s))
  BY <1>1, <1>5, <1>6, <1>7, Formed
<1>9. Settings!Unsealed(s) = {} => Settings!Unsealed(Settings!Saved(r, s)) = {}
  BY <1>1, <1>3, <1>4, <1>5 DEF Settings!Unsealed
<1>10. \A p : p # r.profile /\ Settings!On(Settings!Saved(r, s), p) => Settings!On(s, p)
  BY <1>1, <1>4, <1>5 DEF Settings!On
<1>11. \A p \in Profile : p # r.profile => Settings!Keys(Settings!Saved(r, s))[p] = Settings!Keys(s)[p]
  BY <1>1, <1>4, <1>5 DEF Settings!Keys
<1>12. Settings!Keys(Settings!Saved(r, s))[r.profile] = Settings!SavedProfile(r, s).key
  BY <1>1, <1>2, <1>5 DEF Settings!Keys
<1> QED BY <1>1, <1>8, <1>9, <1>10, <1>11, <1>12

\* The other profile changed, and what is on or keyed otherwise is as it was.
NewKey(r, s, p) ==
  IF r.kind \notin {"save", "delete"} \/ p # r.profile THEN Settings!Keys(s)[p]
  ELSE IF r.kind = "save" THEN Settings!SavedProfile(r, s).key ELSE "deleted"

LEMMA ChangedWell ==
  ASSUME NEW s, Settings!WellFormed(s), NEW r \in Wanted, Settings!IsWrite(r)
  PROVE  /\ Settings!WellFormed(Settings!Changed(r, s)) /\ (Settings!Unsealed(s) = {} => Settings!Unsealed(Settings!Changed(r, s)) = {})
         /\ \A p : Settings!On(Settings!Changed(r, s), p) =>
              Settings!On(s, p) \/ (r.kind = "save" /\ r.profile = p) \/ r = [kind |-> "switch", on |-> TRUE]
         /\ Settings!Changed(r, s).model = IF r.kind = "update" THEN r.model ELSE s.model
         /\ \A p \in Profile : Settings!Keys(Settings!Changed(r, s))[p] = NewKey(r, s, p)
<1>1. CASE r \in Settings!Updates /\ r.kind = "update"
  <2>1. Settings!Changed(r, s) = [s EXCEPT !.model = r.model] /\ r.model \in 0..MaxRequests
    BY <1>1, SettingsNumbers DEF Settings!Changed, Settings!Updates
  <2>2. Settings!Changed(r, s) = [model |-> r.model, apiOn |-> s.apiOn, active |-> s.active, profiles |-> s.profiles]
    BY <2>1, WithAll
  <2>3. Settings!WellFormed(Settings!Changed(r, s))
    BY <2>1, <2>2, Formed
  <2> QED BY <1>1, <2>2, <2>3 DEF Settings!On, Settings!Unsealed, Settings!Keys, NewKey
<1>2. CASE r \in Settings!Updates /\ r.kind = "select"
  <2> DEFINE a == Settings!ValidProfile(r.profile, s)
  <2>1. Settings!Changed(r, s) = [s EXCEPT !.active = a] /\ a \in DOMAIN s.profiles \cup {Nothing}
    BY <1>2, Formed DEF Settings!Changed, Settings!ValidProfile
  <2> HIDE DEF a
  <2>2. Settings!Changed(r, s) = [model |-> s.model, apiOn |-> s.apiOn, active |-> a, profiles |-> s.profiles]
    BY <2>1, WithAll
  <2>3. Settings!WellFormed(Settings!Changed(r, s))
    BY <2>1, <2>2, Formed
  <2> QED BY <1>2, <2>2, <2>3 DEF Settings!On, Settings!Unsealed, Settings!Keys, NewKey
<1>3. CASE r \in Settings!Updates /\ r.kind = "switch"
  <2>1. /\ Settings!Changed(r, s) = [s EXCEPT !.apiOn = r.on] /\ r.on \in BOOLEAN
        /\ r = [kind |-> "switch", on |-> r.on]
    BY <1>3 DEF Settings!Changed, Settings!Updates
  <2>2. Settings!Changed(r, s) = [model |-> s.model, apiOn |-> r.on, active |-> s.active, profiles |-> s.profiles]
    BY <2>1, WithAll
  <2>3. Settings!WellFormed(Settings!Changed(r, s))
    BY <2>1, <2>2, Formed
  <2>4. /\ Settings!Unsealed(Settings!Changed(r, s)) = Settings!Unsealed(s) /\ Settings!Changed(r, s).model = s.model
        /\ \A p \in Profile : Settings!Keys(Settings!Changed(r, s))[p] = NewKey(r, s, p)
    BY <1>3, <2>2 DEF Settings!Unsealed, Settings!Keys, NewKey
  <2>7. r.kind = "switch"
    BY <1>3
  <2>5. CASE r.on = TRUE
    BY <2>1, <2>3, <2>4, <2>5, <2>7
  <2>6. CASE r.on = FALSE
    <3>1. \A p : ~Settings!On(Settings!Changed(r, s), p)
      BY <2>2, <2>6 DEF Settings!On
    <3> QED BY <2>3, <2>4, <2>7, <3>1
  <2> QED BY <2>1, <2>5, <2>6
<1>4. CASE r \in Settings!Saves
  <2>1. Settings!Changed(r, s) = Settings!Saved(r, s) /\ r.kind = "save"
    BY <1>4 DEF Settings!Changed, Settings!Saves
  <2>2. r.profile \in Profile
    BY <1>4 DEF Settings!Saves
  <2>3. \A p \in Profile : Settings!Keys(Settings!Changed(r, s))[p] = NewKey(r, s, p)
    BY <1>4, <2>1, <2>2, SavedWell DEF NewKey
  <2> QED BY <1>4, <2>1, <2>3, SavedWell
<1>5. CASE r \in Settings!Deletes
  <2> DEFINE D == DOMAIN s.profiles \ {r.profile}
             m == Settings!Restrict(s.profiles, D)
             a == Settings!ActiveAfter(r.profile, s)
  <2>1. Settings!Changed(r, s) = [s EXCEPT !.profiles = m, !.active = a]
    BY <1>5 DEF Settings!Changed, Settings!Deletes
  <2>2. /\ DOMAIN m = D /\ m \in [D -> Settings!Entry] /\ D \subseteq DOMAIN s.profiles
        /\ D \subseteq Profile /\ \A p \in D : m[p] = s.profiles[p]
    BY Formed DEF Settings!Restrict
  <2>3. a \in D \cup {Nothing} /\ s.model \in 0..MaxRequests /\ s.apiOn \in BOOLEAN
    BY Formed DEF Settings!ActiveAfter
  <2> HIDE DEF m, D, a
  <2>4. Settings!Changed(r, s) = [model |-> s.model, apiOn |-> s.apiOn, active |-> a, profiles |-> m]
    BY <2>1, WithAll
  <2>5. Settings!WellFormed(Settings!Changed(r, s))
    BY <2>2, <2>3, <2>4, Formed
  <2>6. Settings!Unsealed(s) = {} => Settings!Unsealed(Settings!Changed(r, s)) = {}
    BY <2>2, <2>4 DEF Settings!Unsealed
  <2>7. \A p : Settings!On(Settings!Changed(r, s), p) => Settings!On(s, p)
    BY <2>2, <2>4 DEF Settings!On
  <2>8. r.kind = "delete"
    BY <1>5 DEF Settings!Deletes
  <2>9. \A p \in Profile : Settings!Keys(Settings!Changed(r, s))[p] = NewKey(r, s, p)
    BY <2>2, <2>4, <2>8 DEF Settings!Keys, NewKey, D
  <2>10. Settings!Changed(r, s).model = s.model
    BY <2>4
  <2> QED BY <2>5, <2>6, <2>7, <2>8, <2>9, <2>10
<1>6. \/ r \in Settings!Updates /\ r.kind \in {"update", "select", "switch"}
      \/ r \in Settings!Saves \/ r \in Settings!Deletes
  BY DEF Wanted, Settings!Reads, Settings!IsWrite, Settings!Updates
<1> QED BY <1>1, <1>2, <1>3, <1>4, <1>5, <1>6

AckRecord == [model : 0..MaxRequests, keys : [Profile -> Key \cup {Nothing, "deleted"}]]

LEMMA AcknowledgedTyped ==
  ASSUME NEW s, NEW r \in Wanted, x6 \in AckRecord
  PROVE  Settings!Acknowledged(r, s) \in AckRecord
<1>1. CASE r \in Settings!Updates
  BY <1>1, SettingsNumbers DEF Settings!Updates, Settings!Acknowledged, AckRecord
<1>2. CASE r \in Settings!Saves
  BY <1>2 DEF Settings!Saves, Settings!Acknowledged, AckRecord
<1>3. CASE r \in Settings!Deletes
  BY <1>3 DEF Settings!Deletes, Settings!Acknowledged, AckRecord
<1>4. CASE r \in Settings!Reads
  BY <1>4 DEF Settings!Reads, Settings!Acknowledged, AckRecord
<1> QED BY <1>1, <1>2, <1>3, <1>4 DEF Wanted

\* A write of settings that are sealed and as they were answered leaves them as
\* they are answered now.
LEMMA ChangedAnswered ==
  ASSUME NEW s, Settings!WellFormed(s), Settings!Unsealed(s) = {}, NEW r \in Wanted, Settings!IsWrite(r),
         x6 \in AckRecord, s.model = x6.model, Settings!Keys(s) = x6.keys
  PROVE  Settings!Changed(r, s).model = Settings!Acknowledged(r, s).model /\ Settings!Keys(Settings!Changed(r, s)) = Settings!Acknowledged(r, s).keys
<1> DEFINE after == Settings!Acknowledged(r, s)
<1>1. /\ Settings!Changed(r, s).model = IF r.kind = "update" THEN r.model ELSE s.model
      /\ \A p \in Profile : Settings!Keys(Settings!Changed(r, s))[p] = NewKey(r, s, p)
  BY ChangedWell
<1>2. after.model = IF r.kind = "update" THEN r.model ELSE x6.model
  BY DEF Settings!Acknowledged, AckRecord
<1>3. ASSUME NEW p \in Profile PROVE after.keys[p] = NewKey(r, s, p)
  <2>1. CASE r.kind \notin {"save", "delete"} \/ p # r.profile
    BY <2>1 DEF Settings!Acknowledged, AckRecord, NewKey
  <2>2. CASE r.kind = "delete" /\ p = r.profile
    BY <2>2 DEF Settings!Acknowledged, AckRecord, NewKey
  <2>3. CASE r.kind = "save" /\ p = r.profile
    <3>1. after.keys[p] = IF r.key # "same" THEN r.key ELSE IF x6.keys[p] \in Key THEN x6.keys[p] ELSE Nothing
      BY <2>3 DEF Settings!Acknowledged, AckRecord
    <3>2. Settings!SavedProfile(r, s).key = IF r.key # "same" THEN r.key
                                   ELSE IF p \in DOMAIN s.profiles /\ s.profiles[p].sealed
                                   THEN s.profiles[p].key ELSE Nothing
      BY <2>3 DEF Settings!SavedProfile
    <3>3. x6.keys[p] = IF p \in DOMAIN s.profiles THEN s.profiles[p].key ELSE "deleted"
      <4>1. x6.keys[p] = Settings!Keys(s)[p]
        OBVIOUS
      <4> QED BY <4>1 DEF Settings!Keys
    <3>4. p \in DOMAIN s.profiles =>
            /\ s.profiles[p].key \in Key \cup {Nothing}
            /\ s.profiles[p].key # Nothing => s.profiles[p].sealed
      BY Formed DEF Settings!Unsealed, Settings!Entry
    <3>5. NewKey(r, s, p) = Settings!SavedProfile(r, s).key
      BY <2>3 DEF NewKey
    <3> QED BY <3>1, <3>2, <3>3, <3>4, <3>5, SettingsNumbers
  <2> QED BY <2>1, <2>2, <2>3
<1>4. after.keys = [p \in Profile |-> after.keys[p]]
  BY AcknowledgedTyped DEF AckRecord
<1>5. Settings!Keys(Settings!Changed(r, s)) = [p \in Profile |-> Settings!Keys(Settings!Changed(r, s))[p]]
  BY DEF Settings!Keys
<1> HIDE DEF after
<1>6. Settings!Keys(Settings!Changed(r, s)) = after.keys
  BY <1>1, <1>3, <1>4, <1>5
<1>7. Settings!Changed(r, s).model = after.model
  BY <1>1, <1>2
<1> QED BY <1>6, <1>7 DEF after

----------------------------------------------------------------------------
LEMMA SettingsInitially == Settings!SettingsInit => Settings!SettingsInv
<1> SUFFICES ASSUME Settings!SettingsInit PROVE Settings!SettingsInv
  OBVIOUS
<1> USE DEF Settings!SettingsInit
<1>1. Settings!WellFormed(Settings!Parsed(x1)) /\ DOMAIN x1.profiles \subseteq Profile
      /\ x1.plain \in Key \cup {Nothing} /\ x1.model \in 0..MaxRequests
      /\ x1.model = 0
  <2>0. /\ DOMAIN <<>> = {} /\ 0 \in 0..MaxRequests
        /\ Settings!WellFormed(Settings!Defaults) /\ Settings!Defaults = [model |-> 0, profiles |-> << >>, active |-> Nothing, apiOn |-> TRUE]
    BY SettingsNumbers, DefaultsWellFormed DEF Settings!Defaults
  <2>5. 0 \in 0..MaxRequests
    BY <2>0
  <2>1. CASE x1 = Settings!Stored(Settings!Defaults)
    BY <2>0, <2>1, StoredSame
  <2> DEFINE k == CHOOSE k \in Key : TRUE
             entry(sealed) == [key |-> k, sealed |-> sealed, on |-> TRUE]
  <2>2. k \in Key /\ \A b \in BOOLEAN : entry(b) \in Settings!Entry
    BY SettingsNumbers DEF Settings!Entry
  <2> HIDE DEF k
  <2>3. CASE x1 = Settings!OldFile
    <3>1. /\ x1.model = 0 /\ x1.profiles = <<>> /\ x1.plain = k /\ x1.apiOn = TRUE
          /\ x1.active = Nothing
      BY <2>3 DEF Settings!OldFile, k
    <3>2. CASE k = Nothing
      <4>1. Settings!Parsed(x1) = Settings!Defaults
        BY <2>0, <3>1, <3>2 DEF Settings!Parsed, Settings!Defaults
      <4> QED BY <2>0, <2>2, <3>1, <4>1
    <3>3. CASE k # Nothing
      <4> DEFINE m == [p \in {Legacy} |-> entry(FALSE)]
      <4>1. Settings!Parsed(x1) = [model |-> 0, apiOn |-> TRUE, active |-> Legacy, profiles |-> m]
        BY <2>0, <3>1, <3>3 DEF Settings!Parsed
      <4>2. DOMAIN m = {Legacy} /\ m \in [{Legacy} -> Settings!Entry]
        BY <2>2
      <4> HIDE DEF m
      <4>3. Legacy \in DOMAIN m \cup {Nothing} /\ DOMAIN m \subseteq Profile /\ m \in [DOMAIN m -> Settings!Entry]
        BY <4>2, SettingsNumbers
      <4>4. Settings!WellFormed([model |-> 0, apiOn |-> TRUE, active |-> Legacy, profiles |-> m])
        BY <2>5, <4>3, BooleanWellFormed
      <4> QED BY <2>0, <2>2, <3>1, <4>1, <4>4
    <3> QED BY <3>2, <3>3
  <2>4. CASE x1 = [Settings!Stored(Settings!Defaults) EXCEPT !.apiOn = FALSE, !.active = Legacy,
                       !.profiles = [p \in {Legacy} |-> entry(TRUE)]]
    <3> DEFINE m == [p \in {Legacy} |-> entry(TRUE)]
    <3>1. /\ x1.model = 0 /\ x1.profiles = m /\ x1.plain = Nothing /\ x1.apiOn = FALSE
          /\ x1.active = Legacy
      BY <2>4 DEF Settings!Stored, Settings!Defaults
    <3>2. DOMAIN m = {Legacy} /\ m \in [{Legacy} -> Settings!Entry]
      BY <2>2
    <3> HIDE DEF m
    <3>3. Settings!Parsed(x1) = [model |-> 0, apiOn |-> FALSE, active |-> Legacy, profiles |-> m]
      BY <3>1 DEF Settings!Parsed
    <3>4. Legacy \in DOMAIN m \cup {Nothing} /\ DOMAIN m \subseteq Profile /\ m \in [DOMAIN m -> Settings!Entry]
      BY <3>2, SettingsNumbers
    <3>5. Settings!WellFormed([model |-> 0, apiOn |-> FALSE, active |-> Legacy, profiles |-> m])
      BY <2>5, <3>4, BooleanWellFormed
    <3> QED BY <2>0, <3>1, <3>3, <3>4, <3>5
  <2> QED BY <2>1, <2>3, <2>4 DEF k
<1>2. Settings!SettingsTypeOK
  BY <1>1 DEF Settings!SettingsTypeOK
<1>3. Settings!AnsweredIsStored
  BY <1>1 DEF Settings!AnsweredIsStored
<1>4. x6 \in AckRecord
  <2>1. Settings!KnownKeys(x1) \in [Profile -> Key \cup {Nothing, "deleted"}]
    <3>1. \A p \in DOMAIN Settings!Parsed(x1).profiles : Settings!Parsed(x1).profiles[p].key \in Key \cup {Nothing}
      BY <1>1, Formed DEF Settings!Entry
    <3> QED BY <3>1 DEF Settings!KnownKeys
  <2> QED BY <2>1, SettingsNumbers DEF AckRecord
<1>5. x2 \in [Caller -> Wanted]
  BY DEF Wanted, Settings!Reads
<1>6. DOMAIN x5 = Caller /\ \A c \in Caller : Settings!WellFormed(x5[c])
  BY DefaultsWellFormed
<1>7. \A c \in Caller : ~Settings!HasRead(c) /\ ~Settings!Writing(c)
  BY DEF Settings!HasRead, Settings!Writing
<1> QED BY <1>1, <1>2, <1>3, <1>4, <1>5, <1>6, <1>7
        DEF Settings!SettingsInv, Settings!FileInForm, Settings!InOneQueue, Settings!HeadIsCurrent, Wanted, AckRecord

----------------------------------------------------------------------------
\* A file just stored is in form, and is what was stored.
LEMMA FileStored ==
  ASSUME NEW s, Settings!WellFormed(s), x1' = Settings!Stored(s)
  PROVE  /\ Settings!FileInForm' /\ x1'.model \in 0..MaxRequests /\ x1'.model = s.model
         /\ DOMAIN x1'.profiles \subseteq Profile
         /\ Same(Settings!Parsed(x1'), s) /\ (Settings!Unsealed(s) = {} => Settings!KnownKeys(x1') = Settings!Keys(s))
<1>1. /\ Settings!WellFormed(Settings!Parsed(x1')) /\ Same(Settings!Parsed(x1'), s)
      /\ Settings!Unsealed(s) = {} => SameKeys(Settings!Parsed(x1'), s)
      /\ x1'.plain = Nothing /\ x1'.model = s.model
      /\ DOMAIN x1'.profiles = DOMAIN s.profiles
  BY StoredSame
<1>2. s.model \in 0..MaxRequests /\ DOMAIN s.profiles \subseteq Profile
  BY Formed
<1>3. Settings!Unsealed(s) = {} => Settings!KnownKeys(x1') = Settings!Keys(s)
  <2>1. Settings!KnownKeys(x1') = Settings!Keys(Settings!Parsed(x1'))
    BY DEF Settings!KnownKeys, Settings!Keys
  <2> QED BY <1>1, <2>1, SameSame
<1> QED BY <1>1, <1>2, <1>3 DEF Settings!FileInForm

\* A request joins the queue behind the writers that are in it.
LEMMA AsksStep ==
  ASSUME Settings!SettingsInv, NEW c \in Caller, NEW r \in Wanted, Settings!Asks(c, r)
  PROVE  Settings!SettingsInv'
<1> USE DEF Settings!SettingsInv
<1>1. /\ x3[c] = "idle" /\ x2' = [x2 EXCEPT ![c] = r]
      /\ x3' = [x3 EXCEPT ![c] = "waiting"] /\ x4' = [x4 EXCEPT ![c] = Settings!Queued]
      /\ UNCHANGED <<x1, x5, x6, x9, x10, x11>>
  BY DEF Settings!Asks
<1>2. Settings!Queued \in SUBSET Caller
  BY DEF Settings!Queued
<1>3. Settings!SettingsTypeOK' /\ x2' \in [Caller -> Settings!Reads \cup Settings!Updates \cup Settings!Saves \cup Settings!Deletes]
  BY <1>1, <1>2 DEF Settings!SettingsTypeOK, Wanted
<1>4. \A d \in Caller : d # c =>
        /\ Settings!Writing(d)' <=> Settings!Writing(d)
        /\ Settings!HasRead(d)' <=> Settings!HasRead(d)
        /\ x4'[d] = x4[d] /\ x3'[d] = x3[d]
  BY <1>1 DEF Settings!SettingsTypeOK, Settings!Writing, Settings!HasRead
<1>5. ~Settings!HasRead(c)' /\ x3'[c] = "waiting" /\ x4'[c] = Settings!Queued
  BY <1>1 DEF Settings!HasRead, Settings!SettingsTypeOK
<1>6. Settings!InOneQueue'
  <2>1. \A d \in Caller : Settings!Writing(d) => d \in Settings!Queued
    BY DEF Settings!Queued, Settings!Writing
  <2> QED BY <1>4, <1>5, <2>1 DEF Settings!InOneQueue
<1>7. Settings!HeadIsCurrent'
  BY <1>1, <1>4, <1>5 DEF Settings!HeadIsCurrent
<1>8. \A d \in Caller : Settings!HasRead(d)' /\ (x3'[d] = "sealed" \/ ~x11') => Settings!Unsealed(x5'[d]) = {}
  BY <1>1, <1>4, <1>5
<1>9. Settings!FileInForm' /\ Settings!AnsweredIsStored'
  BY <1>1 DEF Settings!FileInForm, Settings!AnsweredIsStored
<1> QED BY <1>1, <1>3, <1>6, <1>7, <1>8, <1>9

\* The request at the head of the queue reads the file.
LEMMA ReadStep ==
  ASSUME Settings!SettingsInv, NEW c \in Caller, NEW s, Settings!WellFormed(s), Settings!Read(c, s),
         NEW stage \in {"sealed", "loaded"}, x3' = [x3 EXCEPT ![c] = stage],
         UNCHANGED <<x1, x2, x4, x6, x10>>,
         x9 => x9', x11 => x11',
         stage = "sealed" \/ ~x11' => Settings!Unsealed(s) = {},
         ~x9' => s.model = Settings!Parsed(x1).model /\ Settings!Keys(s) = Settings!KnownKeys(x1),
         \A p \in Profile : Settings!On(s, p) => Settings!On(Settings!Parsed(x1), p)
  PROVE  Settings!SettingsInv'
<1> USE DEF Settings!SettingsInv
<1>1. x3[c] = "waiting" /\ x4[c] = {} /\ x5' = [x5 EXCEPT ![c] = s]
  BY DEF Settings!Read
<1>2. Settings!SettingsTypeOK'
  BY DEF Settings!SettingsTypeOK
<1>3. \A d \in Caller : d # c =>
        /\ Settings!Writing(d)' <=> Settings!Writing(d)
        /\ Settings!HasRead(d)' <=> Settings!HasRead(d)
        /\ x3'[d] = x3[d] /\ x5'[d] = x5[d]
  BY <1>1 DEF Settings!SettingsTypeOK, Settings!Writing, Settings!HasRead
<1>4. (Settings!Writing(c)' <=> Settings!Writing(c)) /\ x3'[c] = stage /\ x5'[c] = s
  BY <1>1 DEF Settings!SettingsTypeOK, Settings!Writing
<1>5. Settings!InOneQueue'
  BY <1>1, <1>3, <1>4 DEF Settings!InOneQueue
<1>6. Settings!AnsweredIsStored'
  BY DEF Settings!AnsweredIsStored
<1>7. Settings!HeadIsCurrent'
  <2>1. Settings!Parsed(x1).model = x1.model
    BY DEF Settings!Parsed
  <2>2. ~x9' /\ ~x10' /\ ~x11' => s.model = x6.model /\ Settings!Keys(s) = x6.keys
    BY <2>1 DEF Settings!AnsweredIsStored
  <2>3. ASSUME NEW d \in Caller, Settings!Writing(d)', Settings!HasRead(d)'
        PROVE  /\ ~x9' /\ ~x10' /\ ~x11' =>
                    x5'[d].model = x6'.model /\ Settings!Keys(x5'[d]) = x6'.keys
               /\ ~x10' => \A p \in Profile : Settings!On(x5'[d], p) => Settings!On(Settings!Parsed(x1'), p)
    BY <1>3, <1>4, <2>2, <2>3 DEF Settings!HeadIsCurrent
  <2> QED BY <2>3 DEF Settings!HeadIsCurrent
<1>8. \A d \in Caller : Settings!HasRead(d)' /\ (x3'[d] = "sealed" \/ ~x11') => Settings!Unsealed(x5'[d]) = {}
  BY <1>3, <1>4
<1>9. DOMAIN x5' = Caller /\ \A d \in Caller : Settings!WellFormed(x5'[d])
  BY <1>1, <1>3, <1>4
<1>10. Settings!FileInForm'
  BY DEF Settings!FileInForm
<1> QED BY <1>2, <1>5, <1>6, <1>7, <1>8, <1>9, <1>10

LEMMA LoadsStep ==
  ASSUME Settings!SettingsInv, NEW c \in Caller, Settings!Loads(c)
  PROVE  Settings!SettingsInv'
<1> DEFINE s == Settings!Parsed(x1)
<1>1. UNCHANGED <<x1, x2, x4, x6, x9, x10>>
  BY DEF Settings!Loads
<1>2. Settings!WellFormed(s) /\ Settings!KnownKeys(x1) = Settings!Keys(s)
  BY DEF Settings!SettingsInv, Settings!FileInForm, Settings!KnownKeys, Settings!Keys
<1>3. CASE /\ Settings!Unsealed(s) = {} /\ Settings!Read(c, s)
           /\ x3' = [x3 EXCEPT ![c] = "loaded"] /\ UNCHANGED x11
  BY <1>1, <1>2, <1>3, ReadStep
<1>4. CASE /\ Settings!Unsealed(s) # {} /\ Settings!Read(c, Settings!Migrated(s))
           /\ x3' = [x3 EXCEPT ![c] = "sealed"] /\ UNCHANGED x11
  <2>1. /\ Settings!WellFormed(Settings!Migrated(s)) /\ Settings!Unsealed(Settings!Migrated(s)) = {}
        /\ Same(Settings!Migrated(s), s) /\ SameKeys(Settings!Migrated(s), s)
    BY <1>2, MigratedSame
  <2>2. /\ Settings!Keys(Settings!Migrated(s)) = Settings!Keys(s) /\ Settings!Migrated(s).model = s.model
        /\ \A p \in Profile : Settings!On(Settings!Migrated(s), p) => Settings!On(s, p)
    BY <2>1, SameSame DEF Same
  <2> HIDE DEF s
  <2> DEFINE m == Settings!Migrated(s)
  <2> HIDE DEF m
  <2>3. /\ Settings!WellFormed(m) /\ Settings!Unsealed(m) = {} /\ Settings!Keys(m) = Settings!Keys(s) /\ m.model = s.model
        /\ \A p \in Profile : Settings!On(m, p) => Settings!On(s, p)
        /\ Settings!Read(c, m)
    BY <1>4, <2>1, <2>2 DEF m
  <2> USE DEF s
  <2> QED BY <1>1, <1>2, <1>4, <2>3, ReadStep
<1>5. CASE /\ Settings!Unsealed(s) # {} /\ Settings!Read(c, s)
           /\ x3' = [x3 EXCEPT ![c] = "loaded"] /\ x11' = TRUE
  BY <1>1, <1>2, <1>5, ReadStep
<1> QED BY <1>3, <1>4, <1>5 DEF Settings!Loads

LEMMA MisreadsStep ==
  ASSUME Settings!SettingsInv, NEW c \in Caller, Settings!Misreads(c)
  PROVE  Settings!SettingsInv'
<1>1. /\ Settings!Read(c, Settings!Defaults) /\ x3' = [x3 EXCEPT ![c] = "loaded"] /\ x9' = TRUE
      /\ UNCHANGED <<x1, x2, x4, x6, x10, x11>>
  BY DEF Settings!Misreads
<1>2. \A p \in Profile : ~Settings!On(Settings!Defaults, p)
  BY DEF Settings!Defaults, Settings!On
<1> QED BY <1>1, <1>2, DefaultsWellFormed, ReadStep

\* The sealed keys are stored: what the file says stays as it is, unless the
\* request had read it before another wrote.
LEMMA MigratesStep ==
  ASSUME Settings!SettingsInv, NEW c \in Caller, Settings!Migrates(c)
  PROVE  Settings!SettingsInv'
<1> USE DEF Settings!SettingsInv
<1>1. /\ x3[c] = "sealed" /\ x3' = [x3 EXCEPT ![c] = "loaded"] /\ x1' = Settings!Stored(x5[c])
      /\ x10' = (x10 \/ Settings!Migrated(Settings!Parsed(x1)) # x5[c])
      /\ UNCHANGED <<x2, x4, x5, x6, x9, x11>>
  BY DEF Settings!Migrates
<1>2. Settings!WellFormed(x5[c]) /\ Settings!Unsealed(x5[c]) = {}
  BY <1>1 DEF Settings!HasRead
<1>3. /\ Settings!FileInForm' /\ x1'.model \in 0..MaxRequests /\ x1'.model = x5[c].model
      /\ DOMAIN x1'.profiles \subseteq Profile
      /\ Same(Settings!Parsed(x1'), x5[c]) /\ Settings!KnownKeys(x1') = Settings!Keys(x5[c])
  BY <1>1, <1>2, FileStored
<1>4. ~x10' => /\ ~x10
               /\ Same(x5[c], Settings!Parsed(x1)) /\ SameKeys(x5[c], Settings!Parsed(x1))
  <2>1. Settings!WellFormed(Settings!Parsed(x1))
    BY DEF Settings!FileInForm
  <2> QED BY <1>1, <2>1, MigratedSame
<1>5. ASSUME ~x10'
      PROVE  /\ x1'.model = x1.model /\ Settings!KnownKeys(x1') = Settings!KnownKeys(x1)
             /\ \A p \in Profile : Settings!On(Settings!Parsed(x1), p) => Settings!On(Settings!Parsed(x1'), p)
  <2>1. Settings!Keys(Settings!Parsed(x1)) = Settings!KnownKeys(x1) /\ Settings!Parsed(x1).model = x1.model
    BY DEF Settings!Keys, Settings!KnownKeys, Settings!Parsed
  <2>2. \A p : Settings!On(Settings!Parsed(x1'), p) <=> Settings!On(x5[c], p)
    BY <1>3, SameSame
  <2>3. Same(x5[c], Settings!Parsed(x1)) /\ SameKeys(x5[c], Settings!Parsed(x1))
    BY <1>4, <1>5
  <2>4. /\ \A p : Settings!On(x5[c], p) <=> Settings!On(Settings!Parsed(x1), p)
        /\ Settings!Keys(x5[c]) = Settings!Keys(Settings!Parsed(x1))
    BY <2>3, SameSame
  <2>5. x5[c].model = Settings!Parsed(x1).model
    BY <2>3 DEF Same
  <2>6. Settings!KnownKeys(x1') = Settings!KnownKeys(x1) /\ x1'.model = x1.model
    BY <1>3, <2>1, <2>4, <2>5
  <2>7. \A p \in Profile : Settings!On(Settings!Parsed(x1), p) => Settings!On(Settings!Parsed(x1'), p)
    BY <2>2, <2>4
  <2> QED BY <2>6, <2>7
<1>6. \A d \in Caller : (Settings!Writing(d)' <=> Settings!Writing(d)) /\ (Settings!HasRead(d)' <=> Settings!HasRead(d))
  BY <1>1 DEF Settings!SettingsTypeOK, Settings!Writing, Settings!HasRead
<1>7. Settings!SettingsTypeOK'
  BY <1>1, <1>3 DEF Settings!SettingsTypeOK
<1>8. Settings!InOneQueue'
  BY <1>1, <1>6 DEF Settings!InOneQueue
<1>9. Settings!AnsweredIsStored'
  BY <1>1, <1>4, <1>5 DEF Settings!AnsweredIsStored
<1>10. Settings!HeadIsCurrent'
  BY <1>1, <1>4, <1>5, <1>6 DEF Settings!HeadIsCurrent
<1>11. \A d \in Caller : Settings!HasRead(d)' /\ (x3'[d] = "sealed" \/ ~x11') => Settings!Unsealed(x5'[d]) = {}
  <2>1. x3'[c] = "loaded" /\ \A d \in Caller : d # c => x3'[d] = x3[d]
    BY <1>1 DEF Settings!SettingsTypeOK
  <2> QED BY <1>1, <1>2, <1>6, <2>1
<1> QED BY <1>1, <1>3, <1>7, <1>8, <1>9, <1>10, <1>11

\* A request is over, and the file holds what is to be in it.
LEMMA EndsStep ==
  ASSUME Settings!SettingsInv, NEW c \in Caller, Settings!Ends(c), UNCHANGED <<x9, x10, x11>>,
         \/ UNCHANGED <<x1, x6>>
         \/ /\ Settings!Writing(c) /\ Settings!HasRead(c)
            /\ Settings!FileInForm' /\ x1'.model \in 0..MaxRequests /\ DOMAIN x1'.profiles \subseteq Profile
            /\ x6' \in AckRecord /\ Settings!AnsweredIsStored'
  PROVE  Settings!SettingsInv'
<1> USE DEF Settings!SettingsInv
<1>1. /\ x3' = [x3 EXCEPT ![c] = "idle"] /\ x4' = [d \in Caller |-> x4[d] \ {c}]
      /\ x2' = [x2 EXCEPT ![c] = [kind |-> "get"]]
      /\ x5' = [x5 EXCEPT ![c] = Settings!Defaults]
  BY DEF Settings!Ends
<1>2. [kind |-> "get"] \in Wanted
  BY DEF Wanted, Settings!Reads
<1>3. Settings!SettingsTypeOK' /\ x2' \in [Caller -> Settings!Reads \cup Settings!Updates \cup Settings!Saves \cup Settings!Deletes]
  BY <1>1, <1>2 DEF Settings!SettingsTypeOK, Wanted
<1>4. /\ DOMAIN x5' = Caller /\ \A d \in Caller : Settings!WellFormed(x5'[d])
      /\ ~Settings!Writing(c)' /\ ~Settings!HasRead(c)'
      /\ \A d \in Caller : d # c =>
           /\ Settings!Writing(d)' <=> Settings!Writing(d)
           /\ Settings!HasRead(d)' <=> Settings!HasRead(d)
           /\ x5'[d] = x5[d] /\ x3'[d] = x3[d]
  BY <1>1, DefaultsWellFormed DEF Settings!SettingsTypeOK, Settings!Writing, Settings!HasRead
<1>5. Settings!InOneQueue'
  <2>1. \A d \in Caller : x4'[d] = x4[d] \ {c}
    BY <1>1
  <2> QED BY <1>4, <2>1 DEF Settings!InOneQueue
<1>6. Settings!AnsweredIsStored' /\ Settings!FileInForm' /\ x6' \in AckRecord
  BY DEF Settings!AnsweredIsStored, Settings!FileInForm, AckRecord
<1>7. Settings!HeadIsCurrent'
  <2>1. CASE UNCHANGED <<x1, x6>>
    BY <1>4, <2>1 DEF Settings!HeadIsCurrent
  <2>2. CASE Settings!Writing(c) /\ Settings!HasRead(c)
    <3>1. \A d \in Caller : ~(Settings!Writing(d)' /\ Settings!HasRead(d)')
      BY <1>4, <2>2 DEF Settings!InOneQueue
    <3> QED BY <3>1 DEF Settings!HeadIsCurrent
  <2> QED BY <2>1, <2>2
<1>8. \A d \in Caller : Settings!HasRead(d)' /\ (x3'[d] = "sealed" \/ ~x11') => Settings!Unsealed(x5'[d]) = {}
  BY <1>4
<1> QED BY <1>3, <1>4, <1>5, <1>6, <1>7, <1>8 DEF AckRecord

LEMMA CommitsStep ==
  ASSUME Settings!SettingsInv, NEW c \in Caller, Settings!Commits(c)
  PROVE  Settings!SettingsInv'
<1> DEFINE r == x2[c]
           s == x5[c]
<1>1. /\ x3[c] = "loaded" /\ Settings!IsWrite(r) /\ r \in Wanted /\ Settings!WellFormed(s)
      /\ x1' = Settings!Stored(Settings!Changed(r, s)) /\ x6' = Settings!Acknowledged(r, s) /\ Settings!Ends(c)
      /\ UNCHANGED <<x9, x10, x11>>
      /\ x6 \in AckRecord /\ Settings!Writing(c) /\ Settings!HasRead(c)
  BY DEF Settings!Commits, Settings!SettingsInv, Wanted, AckRecord, Settings!Writing, Settings!HasRead
<1> HIDE DEF r, s
<1>2. /\ Settings!WellFormed(Settings!Changed(r, s)) /\ (Settings!Unsealed(s) = {} => Settings!Unsealed(Settings!Changed(r, s)) = {})
  BY <1>1, ChangedWell
<1>3. /\ Settings!FileInForm' /\ x1'.model \in 0..MaxRequests /\ x1'.model = Settings!Changed(r, s).model
      /\ DOMAIN x1'.profiles \subseteq Profile
      /\ Settings!Unsealed(Settings!Changed(r, s)) = {} => Settings!KnownKeys(x1') = Settings!Keys(Settings!Changed(r, s))
  BY <1>1, <1>2, FileStored
<1>4. x6' \in AckRecord
  BY <1>1, AcknowledgedTyped
<1>5. Settings!AnsweredIsStored'
  <2>1. SUFFICES ASSUME ~x9, ~x10, ~x11
                 PROVE  x1'.model = x6'.model /\ Settings!KnownKeys(x1') = x6'.keys
    BY <1>1 DEF Settings!AnsweredIsStored
  <2>2. Settings!Unsealed(s) = {} /\ s.model = x6.model /\ Settings!Keys(s) = x6.keys
    BY <1>1, <2>1 DEF Settings!SettingsInv, Settings!HeadIsCurrent, s
  <2>3. Settings!Changed(r, s).model = Settings!Acknowledged(r, s).model /\ Settings!Keys(Settings!Changed(r, s)) = Settings!Acknowledged(r, s).keys
    BY <1>1, <2>2, ChangedAnswered
  <2> QED BY <1>1, <1>2, <1>3, <2>2, <2>3
<1> QED BY <1>1, <1>3, <1>4, <1>5, EndsStep

LEMMA RestartsStep ==
  ASSUME Settings!SettingsInv, Settings!Restarts
  PROVE  Settings!SettingsInv'
<1> USE DEF Settings!SettingsInv
<1>1. /\ x3' = [c \in Caller |-> "idle"] /\ x4' = [c \in Caller |-> {}]
      /\ x2' = [c \in Caller |-> [kind |-> "get"]]
      /\ x5' = [c \in Caller |-> Settings!Defaults]
      /\ UNCHANGED <<x1, x6, x9, x10, x11>>
  BY DEF Settings!Restarts
<1>2. [kind |-> "get"] \in Settings!Reads \cup Settings!Updates \cup Settings!Saves \cup Settings!Deletes
  BY DEF Settings!Reads
<1>3. \A d \in Caller : ~Settings!Writing(d)' /\ ~Settings!HasRead(d)' /\ x5'[d] = Settings!Defaults
  BY <1>1 DEF Settings!Writing, Settings!HasRead
<1>4. Settings!SettingsTypeOK' /\ Settings!FileInForm' /\ Settings!AnsweredIsStored'
  BY <1>1 DEF Settings!SettingsTypeOK, Settings!FileInForm, Settings!AnsweredIsStored
<1>5. Settings!InOneQueue' /\ Settings!HeadIsCurrent'
  BY <1>3 DEF Settings!InOneQueue, Settings!HeadIsCurrent
<1>6. DOMAIN x5' = Caller /\ \A d \in Caller : Settings!WellFormed(x5'[d])
  BY <1>1, DefaultsWellFormed
<1> QED BY <1>1, <1>2, <1>3, <1>4, <1>5, <1>6

LEMMA SettingsStep ==
  ASSUME Settings!SettingsInv, [Settings!SettingsNext]_(Settings!settingsVars)
  PROVE  Settings!SettingsInv'
<1>1. CASE UNCHANGED Settings!settingsVars
  BY <1>1 DEF Settings!settingsVars, Settings!SettingsInv, Settings!SettingsTypeOK, Settings!FileInForm, Settings!AnsweredIsStored, Settings!InOneQueue,
              Settings!HeadIsCurrent, Settings!Writing, Settings!HasRead
<1>2. ASSUME NEW c \in Caller, Settings!Answers(c) \/ Settings!Refuses(c) \/ Settings!SaveFails(c)
      PROVE  Settings!SettingsInv'
  <2>1. Settings!Ends(c) /\ UNCHANGED <<x1, x6, x9, x10, x11>>
    BY <1>2 DEF Settings!Answers, Settings!Refuses, Settings!SaveFails
  <2> QED BY <2>1, EndsStep
<1>3. ASSUME NEW c \in Caller, NEW r \in Settings!Reads \cup Settings!Updates \cup Settings!Saves \cup Settings!Deletes, Settings!Asks(c, r)
      PROVE  Settings!SettingsInv'
  BY <1>3, AsksStep DEF Wanted
<1>4. CASE Settings!SettingsNext
  BY <1>2, <1>3, <1>4, LoadsStep, MisreadsStep, MigratesStep, CommitsStep, RestartsStep DEF Settings!SettingsNext
<1> QED BY <1>1, <1>4

LEMMA SettingsKept == Settings!SettingsInv => Settings!SettingsAreKept
<1> SUFFICES ASSUME Settings!SettingsInv PROVE Settings!SettingsAreKept
  OBVIOUS
<1>1. Settings!ActiveIsAProfile
  BY Formed DEF Settings!SettingsInv, Settings!FileInForm, Settings!ActiveIsAProfile
<1> QED BY <1>1 DEF Settings!SettingsInv, Settings!SettingsAreKept

\* A write works with what the file says is on, and adds what it is about.
LEMMA NothingElseOn ==
  ASSUME Settings!SettingsInv, [Settings!SettingsNext]_(Settings!settingsVars)
  PROVE  Settings!SwitchedOnByRequest
<1> SUFFICES ASSUME NEW c \in Caller, NEW p \in Profile, ~Settings!On(x1, p), p \in DOMAIN x1.profiles,
                    Settings!On(x1', p), x3[c] = "loaded", x3'[c] = "idle", ~x10
             PROVE  \/ x2[c].kind = "save" /\ x2[c].profile = p
                    \/ x2[c] = [kind |-> "switch", on |-> TRUE]
  BY DEF Settings!SwitchedOnByRequest
<1>1. ~UNCHANGED x1
  OBVIOUS
<1>2. Settings!Commits(c)
  <2>1. \A d \in Caller : ~Settings!Migrates(d)
    BY DEF Settings!Migrates, Settings!SettingsInv, Settings!SettingsTypeOK
  <2>2. \A d \in Caller : Settings!Commits(d) => d = c
    BY DEF Settings!Commits, Settings!Ends, Settings!SettingsInv, Settings!SettingsTypeOK
  <2> QED BY <1>1, <2>1, <2>2 DEF Settings!SettingsNext, Settings!settingsVars, Settings!Asks, Settings!Loads, Settings!Misreads, Settings!Answers,
                                  Settings!Refuses, Settings!SaveFails, Settings!Restarts
<1>3. /\ Settings!IsWrite(x2[c]) /\ x1' = Settings!Stored(Settings!Changed(x2[c], x5[c]))
      /\ x2[c] \in Wanted /\ Settings!WellFormed(x5[c]) /\ Settings!Writing(c) /\ Settings!HasRead(c)
  BY <1>2 DEF Settings!Commits, Settings!SettingsInv, Wanted, Settings!Writing, Settings!HasRead
<1>4. Settings!On(Settings!Changed(x2[c], x5[c]), p)
  <2> DEFINE new == Settings!Changed(x2[c], x5[c])
  <2>1. Settings!WellFormed(new)
    BY <1>3, ChangedWell
  <2> HIDE DEF new
  <2>2. x1' = Settings!Stored(new) /\ Same(Settings!Parsed(Settings!Stored(new)), new) /\ Settings!Stored(new).plain = Nothing
    BY <1>3, <2>1, StoredSame DEF new
  <2>3. Settings!On(Settings!Parsed(x1'), p)
    BY <2>2 DEF Settings!Parsed, Settings!On
  <2> QED BY <2>2, <2>3, SameSame DEF new
<1>5. ~Settings!On(x5[c], p)
  <2>1. ~Settings!On(Settings!Parsed(x1), p)
    BY DEF Settings!Parsed, Settings!On
  <2> QED BY <1>3, <2>1 DEF Settings!SettingsInv, Settings!HeadIsCurrent
<1> QED BY <1>3, <1>4, <1>5, ChangedWell

SettingsPart == part = "settings" => Settings!SettingsInv

LEMMA SettingsAlone ==
  part = "settings" /\ [Next]_all => [Settings!SettingsNext]_(Settings!settingsVars)
BY DEF Next, all, Settings!settingsVars

\* What an answered write asked for is in the settings file, and the active
\* profile is one of its profiles (PersistenceFacade's settings).
THEOREM SettingsAlwaysKept == Spec => []SettingsAreKept
<1>1. Init => SettingsPart
  BY SettingsInitially DEF Init, SettingsPart
<1>2. SettingsPart /\ [Next]_all => SettingsPart'
  BY PartStays, SettingsAlone, SettingsStep DEF SettingsPart
<1>3. SettingsPart => SettingsAreKept
  BY SettingsKept DEF SettingsPart, SettingsAreKept
<1> QED BY <1>1, <1>2, <1>3, PTL DEF Spec

\* No write puts an API to use that was off, but the one that asks for it.
THEOREM NothingElseSwitchedOn == Spec => NothingSwitchedOn
<1>1. Init => SettingsPart
  BY SettingsInitially DEF Init, SettingsPart
<1>2. SettingsPart /\ [Next]_all =>
        SettingsPart' /\ [part = "settings" => Settings!SwitchedOnByRequest]_all
  BY PartStays, SettingsAlone, SettingsStep, NothingElseOn DEF SettingsPart
<1> QED BY <1>1, <1>2, PTL DEF Spec, NothingSwitchedOn

-----------------------------------------------------------------------------
(* The document context: x1 host, x2 opened, x3 moves, x4 found, x5 scan,   *)
(* x6 awaiting, x7 selected, x8 current, x9 transitions, x10 lastActive,    *)
(* x11 lastSeen, x12 kept, x13 run, x14 told, x15 refreshes, x16 runs.      *)
LEMMA Identities ==
  /\ Documents!Nobody \notin Instance /\ "never" \notin Documents!Instances
  /\ Documents!Unobserved \in Documents!DocumentIdentity
  /\ Documents!NoDocument \in Documents!DocumentIdentity /\ Documents!NoDocument # Documents!Unobserved
  /\ \A i, b \in Documents!Instances, d \in Int :
       Documents!Identity(i, b, d) \in Documents!DocumentIdentity /\ Documents!Identity(i, b, d) # Documents!Unobserved
BY ServicesConstants DEF Documents!Nobody, Documents!Instances, Documents!Unobserved, Documents!NoDocument, Documents!Identity, Documents!DocumentIdentity

LEMMA StatusTyped ==
  ASSUME Documents!DocumentTypeOK, NEW i \in Documents!Instances
  PROVE  Documents!StatusOf(i) \in Documents!DocumentIdentity /\ Documents!StatusOf(i) # Documents!Unobserved
<1>1. CASE Documents!StatusOf(i) = Documents!NoDocument
  BY <1>1, Identities
<1>2. CASE i # Documents!Nobody /\ Documents!Connected(i)
  <2>1. Documents!StatusOf(i) = Documents!Identity(i, i, x4[i].doc)
    BY <1>2 DEF Documents!StatusOf
  <2>2. x4[i].doc \in Int
    BY <1>2 DEF Documents!DocumentTypeOK, Documents!InstanceState, Documents!Connected, Documents!Instances
  <2> QED BY <2>1, <2>2, Identities
<1> QED BY <1>1, <1>2 DEF Documents!StatusOf

LEMMA ChosenTyped ==
  ASSUME Documents!DocumentTypeOK
  PROVE  Documents!Chosen \in Documents!Instances
<1>1. CASE x7 = Documents!Nobody /\ \E i \in Instance : {j \in Instance : Documents!Connected(j)} = {i}
  <2>1. \E i \in Instance : Documents!Connected(i)
    BY <1>1
  <2> QED BY <1>1, <2>1 DEF Documents!Chosen, Documents!Instances
<1>2. CASE ~(x7 = Documents!Nobody /\ \E i \in Instance : {j \in Instance : Documents!Connected(j)} = {i})
  BY <1>2 DEF Documents!Chosen, Documents!DocumentTypeOK
<1> QED BY <1>1, <1>2

\* A known document at a revision, in the history that a step leaves.
KnownIn(document, r, history, now) ==
  IF r = Len(history) THEN document = now
  ELSE document.doc # 0 => history[r + 1].from = document

\* A step goes on from the history there is: what is known of it stays so.
Onward ==
  /\ Len(x9) <= Len(x9')
  /\ \A d \in Documents!DocumentIdentity : \A r \in 0..Len(x9) :
       d # Documents!Unobserved /\ Documents!AtRevision(d, r) => KnownIn(d, r, x9', x8')

\* What may have changed of the document context: nothing, or another document
\* was observed.
LEMMA ContextStays ==
  ASSUME Documents!DocumentInv, UNCHANGED Documents!stateVars
  PROVE  /\ Onward /\ Documents!KeptForCurrent' /\ (x8' = Documents!Unobserved => x9' = <<>>)
         /\ x8' \in Documents!DocumentIdentity /\ x10' \in Documents!DocumentIdentity
         /\ x9' \in Seq(Documents!Change) /\ Len(x9') \in Nat
<1>1. x9 \in Seq(Documents!Change) /\ Len(x9) \in Nat
  BY DEF Documents!DocumentInv, Documents!DocumentTypeOK
<1>2. Onward
  BY <1>1 DEF Onward, Documents!AtRevision, KnownIn, Documents!stateVars
<1> QED BY <1>1, <1>2 DEF Documents!DocumentInv, Documents!DocumentTypeOK, Documents!stateVars, Documents!KeptForCurrent

LEMMA ContextMoves ==
  ASSUME Documents!DocumentInv, NEW next \in Documents!DocumentIdentity, next # Documents!Unobserved, Documents!Observe(next)
  PROVE  /\ Onward /\ Documents!KeptForCurrent' /\ x8' = next
         /\ x8' \in Documents!DocumentIdentity /\ x10' \in Documents!DocumentIdentity
         /\ x9' \in Seq(Documents!Change) /\ Len(x9') \in Nat
<1>1. /\ x8' = next /\ x12' = Documents!KeptAfter(next)
      /\ x10' = IF Documents!HasDocument(next) THEN next ELSE x10
      /\ x9' = IF x8 = Documents!Unobserved \/ next = x8 THEN x9
                        ELSE Append(x9, Documents!Transition(next))
      /\ x9 \in Seq(Documents!Change) /\ Len(x9) \in Nat
      /\ x8 \in Documents!DocumentIdentity /\ x10 \in Documents!DocumentIdentity
  BY DEF Documents!Observe, Documents!DocumentInv, Documents!DocumentTypeOK
<1>2. Documents!KeptForCurrent'
  BY <1>1 DEF Documents!DocumentInv, Documents!KeptForCurrent, Documents!KeptAfter, Documents!Scope
<1>3. CASE next = x8
  BY <1>1, <1>2, <1>3 DEF Onward, Documents!AtRevision, KnownIn
<1>4. CASE next # x8 /\ x8 = Documents!Unobserved
  <2>1. x9 = <<>> /\ x9' = <<>> /\ Len(x9) = 0
    BY <1>1, <1>4 DEF Documents!DocumentInv
  <2>2. Onward
    BY <1>4, <2>1 DEF Onward, Documents!AtRevision, KnownIn
  <2>3. x9' = x9
    BY <1>1, <1>4
  <2> QED BY <1>1, <1>2, <2>2, <2>3
<1>5. CASE next # x8 /\ x8 # Documents!Unobserved
  <2> DEFINE t == Documents!Transition(next)
  <2>1. x9' = Append(x9, t)
    BY <1>1, <1>5
  <2>2. t \in Documents!Change /\ (Documents!HasDocument(x8) => t.from = x8)
    BY <1>1 DEF Documents!Transition, Documents!Change
  <2> HIDE DEF t
  <2>3. /\ x9' \in Seq(Documents!Change) /\ Len(x9') = Len(x9) + 1
        /\ x9'[Len(x9) + 1] = t
        /\ \A r \in 0..Len(x9) : r # Len(x9) =>
             x9'[r + 1] = x9[r + 1]
    BY <1>1, <2>1, <2>2
  <2>4. ASSUME NEW d \in Documents!DocumentIdentity, NEW r \in 0..Len(x9), Documents!AtRevision(d, r)
        PROVE  KnownIn(d, r, x9', x8')
    <3>1. r # Len(x9')
      BY <1>1, <2>3
    <3>2. CASE r = Len(x9)
      BY <2>2, <2>3, <2>4, <3>1, <3>2 DEF Documents!AtRevision, KnownIn, Documents!HasDocument
    <3>3. CASE r # Len(x9)
      BY <2>3, <2>4, <3>1, <3>3 DEF Documents!AtRevision, KnownIn
    <3> QED BY <3>2, <3>3
  <2>5. Onward
    BY <1>1, <2>3, <2>4 DEF Onward
  <2> QED BY <1>1, <1>2, <2>3, <2>5
<1> QED BY <1>3, <1>4, <1>5

\* What a step leaves alone is still so at the revisions it was of.
LEMMA ToldOnward ==
  ASSUME Documents!DocumentInv, Onward, Len(x9') \in Nat, NEW s \in Session,
         x11'[s] = x11[s], x14'[s] = x14[s]
  PROVE  Documents!ToldAtRevision(s)'
<1>1. /\ x11[s] \in -1..Len(x9) /\ x14[s] \in Documents!DocumentIdentity
      /\ x14[s] # Documents!Unobserved => x11[s] # -1 /\ Documents!AtRevision(x14[s], x11[s])
      /\ Len(x9) \in Nat
  BY DEF Documents!DocumentInv, Documents!ToldAtRevision, Documents!DocumentTypeOK
<1>2. x14[s] # Documents!Unobserved => KnownIn(x14[s], x11[s], x9', x8')
  BY <1>1 DEF Onward
<1>3. x11[s] \in -1..Len(x9')
  BY <1>1 DEF Onward
<1> QED BY <1>1, <1>2, <1>3 DEF Documents!ToldAtRevision, Documents!AtRevision, KnownIn

LEMMA RunOnward ==
  ASSUME Documents!DocumentInv, Onward, Len(x9') \in Nat, NEW s \in Session,
         x11'[s] = x11[s], x14'[s] = x14[s], x13'[s] = x13[s]
  PROVE  Documents!RunAtRevision(s)' /\ Documents!Announced(s)'
<1>1. Documents!Announced(s)'
  BY DEF Documents!DocumentInv, Documents!Announced
<1>2. x13'[s].phase \in {"binding", "calling", "answered"} => x13'[s].target \in Instance
  BY DEF Documents!DocumentInv, Documents!RunAtRevision
<1>3. ASSUME x13[s].phase \in {"prepared", "running", "calling", "answered"}
      PROVE  /\ x13[s].document # Documents!Unobserved
             /\ KnownIn(x13[s].document, x13[s].revision, x9', x8')
             /\ x13[s].revision \in 0..Len(x9') /\ x11[s] <= x13[s].revision
  <2>1. /\ x13[s].document # Documents!Unobserved /\ Documents!AtRevision(x13[s].document, x13[s].revision)
        /\ x13[s].revision \in 0..Len(x9) /\ x11[s] <= x13[s].revision
        /\ x13[s].document \in Documents!DocumentIdentity /\ Len(x9) \in Nat
    BY <1>3 DEF Documents!DocumentInv, Documents!RunAtRevision, Documents!DocumentTypeOK, Documents!RunRecord
  <2> QED BY <2>1 DEF Onward
<1> QED BY <1>1, <1>2, <1>3 DEF Documents!RunAtRevision, Documents!AtRevision, KnownIn

\* A step that has no part in a run.
LEMMA NoRunMoves ==
  ASSUME Documents!DocumentInv, Documents!DocumentTypeOK', Onward, Documents!KeptForCurrent', Len(x9') \in Nat,
         x8' = Documents!Unobserved => x9' = <<>>, UNCHANGED <<x11, x14, x13>>
  PROVE  Documents!DocumentInv'
<1>1. \A s \in Session : Documents!ToldAtRevision(s)' /\ Documents!RunAtRevision(s)' /\ Documents!Announced(s)'
  BY ToldOnward, RunOnward
<1> QED BY <1>1 DEF Documents!DocumentInv

\* A step of the run of one session, which tells that session nothing new.
LEMMA OneRunMoves ==
  ASSUME Documents!DocumentInv, NEW s \in Session, NEW r \in Documents!RunRecord, x13' = [x13 EXCEPT ![s] = r],
         UNCHANGED <<Documents!hostVars, x4, x11, x14>>,
         x5' = x5 \/ x5' \in [Instance -> Documents!InstanceState \cup {[is |-> "unread"]}],
         x7' \in Documents!Instances,
         Onward, Documents!KeptForCurrent', x8' = Documents!Unobserved => x9' = <<>>,
         x8' \in Documents!DocumentIdentity, x10' \in Documents!DocumentIdentity,
         x9' \in Seq(Documents!Change), Len(x9') \in Nat,
         r.phase \in {"prepared", "running", "calling", "answered"} =>
           /\ r.document # Documents!Unobserved /\ KnownIn(r.document, r.revision, x9', x8')
           /\ r.revision \in 0..Len(x9') /\ x11[s] <= r.revision,
         r.phase \in {"binding", "calling", "answered"} => r.target \in Instance,
         r.phase \in {"running", "calling", "answered"} /\ x14[s] # Documents!Unobserved /\ r.document # x14[s] =>
           r.notice # <<>> /\ (x14[s].doc # 0 => r.notice[1].from = x14[s])
  PROVE  Documents!DocumentInv'
<1>1. x13 \in [Session -> Documents!RunRecord]
  BY DEF Documents!DocumentInv, Documents!DocumentTypeOK
<1>2. x13' \in [Session -> Documents!RunRecord] /\ x13'[s] = r /\ \A t \in Session : t # s => x13'[t] = x13[t]
  BY <1>1
<1>3. Documents!DocumentTypeOK'
  BY <1>2 DEF Documents!DocumentInv, Documents!DocumentTypeOK, Documents!hostVars
<1>4. Documents!RunAtRevision(s)' /\ Documents!Announced(s)'
  BY <1>2 DEF Documents!RunAtRevision, Documents!Announced, Documents!AtRevision, KnownIn
<1>5. \A t \in Session : Documents!ToldAtRevision(t)' /\ Documents!RunAtRevision(t)' /\ Documents!Announced(t)'
  BY <1>2, <1>4, ToldOnward, RunOnward
<1> QED BY <1>3, <1>5 DEF Documents!DocumentInv

----------------------------------------------------------------------------
LEMMA DocumentInitially == Documents!DocumentInit => Documents!DocumentInv
<1> SUFFICES ASSUME Documents!DocumentInit PROVE Documents!DocumentInv
  OBVIOUS
<1> USE DEF Documents!DocumentInit
<1>1. Documents!NoRun \in Documents!RunRecord /\ Documents!NoRun.phase = "idle"
  <2>1. <<>> \in Seq(Documents!Change) /\ Documents!Nobody \in Documents!Instances
    BY DEF Documents!Instances
  <2> QED BY <2>1, Identities DEF Documents!NoRun, Documents!RunRecord
<1>2. Documents!DocumentTypeOK
  <2>1. x1 \in [Instance -> Int]
    BY DEF Documents!Absent
  <2>2. x4 \in [Instance -> Documents!InstanceState] /\ Documents!Nobody \in Documents!Instances
    BY DEF Documents!InstanceState, Documents!Instances
  <2>3. x9 \in Seq(Documents!Change)
    OBVIOUS
  <2> QED BY <1>1, <2>1, <2>2, <2>3, Identities DEF Documents!DocumentTypeOK
<1>3. Documents!KeptForCurrent
  BY DEF Documents!KeptForCurrent
<1>4. ASSUME NEW s \in Session PROVE Documents!ToldAtRevision(s) /\ Documents!RunAtRevision(s) /\ Documents!Announced(s)
  <2>1. x11[s] \in -1..Len(x9) /\ x14[s] = Documents!Unobserved /\ x13[s].phase = "idle"
    BY <1>1
  <2> QED BY <2>1 DEF Documents!ToldAtRevision, Documents!RunAtRevision, Documents!Announced
<1> QED BY <1>2, <1>3, <1>4 DEF Documents!DocumentInv

\* Navisworks, discovery and choice.
LEMMA HostStep ==
  ASSUME Documents!DocumentInv, NEW i \in Instance, Documents!HostChanges(i)
  PROVE  Documents!DocumentInv'
<1>1. UNCHANGED <<Documents!registryVars, x7, Documents!stateVars, x11, x13, x14>>
  BY DEF Documents!HostChanges
<1>2. x1' \in [Instance -> Int] /\ x2' \in Int
  <2>1. x1 \in [Instance -> Int] /\ x2 \in Int
    BY DEF Documents!DocumentInv, Documents!DocumentTypeOK
  <2> QED BY <2>1 DEF Documents!HostChanges, Documents!Absent, Documents!Deaf
<1>3. Documents!DocumentTypeOK'
  BY <1>1, <1>2 DEF Documents!DocumentInv, Documents!DocumentTypeOK, Documents!registryVars, Documents!stateVars
<1> QED BY <1>1, <1>3, ContextStays, NoRunMoves

LEMMA InspectStep ==
  ASSUME Documents!DocumentInv, NEW i \in Instance, Documents!Inspect(i)
  PROVE  Documents!DocumentInv'
<1>1. /\ x5 # Documents!NoScan /\ x5' = [x5 EXCEPT ![i] = Documents!Inspected(i)]
      /\ UNCHANGED <<Documents!hostVars, x4, x7, Documents!stateVars, x11, x13, x14>>
  BY DEF Documents!Inspect
<1>2. Documents!Inspected(i) \in Documents!InstanceState
  <2>1. x4[i] \in Documents!InstanceState /\ x1[i] \in Int
    BY DEF Documents!DocumentInv, Documents!DocumentTypeOK
  <2> QED BY <2>1 DEF Documents!Inspected, Documents!InstanceState, Documents!Known
<1>3. Documents!DocumentTypeOK'
  BY <1>1, <1>2 DEF Documents!DocumentInv, Documents!DocumentTypeOK, Documents!hostVars, Documents!stateVars
<1> QED BY <1>1, <1>3, ContextStays, NoRunMoves

LEMMA RefreshedStep ==
  ASSUME Documents!DocumentInv, Documents!Refreshed
  PROVE  Documents!DocumentInv'
<1>1. /\ x5 # Documents!NoScan /\ \A i \in Instance : x5[i] # [is |-> "unread"]
      /\ x4' = x5 /\ x5' = Documents!NoScan
      /\ UNCHANGED <<Documents!hostVars, x7, Documents!stateVars, x11, x13, x14>>
  BY DEF Documents!Refreshed
<1>2. x4' \in [Instance -> Documents!InstanceState]
  BY <1>1 DEF Documents!DocumentInv, Documents!DocumentTypeOK
<1>3. Documents!DocumentTypeOK'
  BY <1>1, <1>2 DEF Documents!DocumentInv, Documents!DocumentTypeOK, Documents!hostVars, Documents!stateVars
<1> QED BY <1>1, <1>3, ContextStays, NoRunMoves

LEMMA RefreshTyped ==
  ASSUME NEW who, Documents!Refresh(who)
  PROVE  /\ x4' = x4
         /\ x5' = x5 \/ x5' \in [Instance -> Documents!InstanceState \cup {[is |-> "unread"]}]
BY DEF Documents!Refresh

LEMMA StartsStep ==
  ASSUME Documents!DocumentInv, Documents!PollStarts \/ Documents!SelectStarts
  PROVE  Documents!DocumentInv'
<1>1. /\ Documents!Refresh(Documents!Poll) \/ Documents!Refresh(Documents!User)
      /\ UNCHANGED <<Documents!hostVars, x7, Documents!stateVars, x11, x13, x14>>
  BY DEF Documents!PollStarts, Documents!SelectStarts
<1>2. Documents!DocumentTypeOK'
  BY <1>1, RefreshTyped DEF Documents!DocumentInv, Documents!DocumentTypeOK, Documents!hostVars, Documents!stateVars
<1> QED BY <1>1, <1>2, ContextStays, NoRunMoves

LEMMA ChoiceStep ==
  ASSUME Documents!DocumentInv, Documents!PollResumes \/ \E i \in Instance : Documents!SelectResumes(i)
  PROVE  Documents!DocumentInv'
<1>1. UNCHANGED <<Documents!hostVars, x4, x5, x11, x13, x14>>
  BY DEF Documents!PollResumes, Documents!SelectResumes, Documents!Resumes
<1>2. Documents!Chosen \in Documents!Instances /\ Instance \subseteq Documents!Instances
  BY ChosenTyped DEF Documents!DocumentInv, Documents!Instances
<1>3. x7' \in Documents!Instances /\
      (UNCHANGED Documents!stateVars \/ \E c \in Documents!Instances : Documents!Observe(Documents!StatusOf(c)))
  BY <1>2 DEF Documents!PollResumes, Documents!SelectResumes
<1>4. CASE UNCHANGED Documents!stateVars
  <2>1. Documents!DocumentTypeOK'
    BY <1>1, <1>3, <1>4 DEF Documents!DocumentInv, Documents!DocumentTypeOK, Documents!hostVars, Documents!stateVars
  <2> QED BY <1>1, <1>4, <2>1, ContextStays, NoRunMoves
<1>5. ASSUME NEW c \in Documents!Instances, Documents!Observe(Documents!StatusOf(c)) PROVE Documents!DocumentInv'
  <2>1. Documents!StatusOf(c) \in Documents!DocumentIdentity /\ Documents!StatusOf(c) # Documents!Unobserved
    BY StatusTyped DEF Documents!DocumentInv
  <2>2. /\ Onward /\ Documents!KeptForCurrent' /\ x8' # Documents!Unobserved
        /\ x8' \in Documents!DocumentIdentity /\ x10' \in Documents!DocumentIdentity
        /\ x9' \in Seq(Documents!Change) /\ Len(x9') \in Nat
    BY <1>5, <2>1, ContextMoves
  <2>3. Documents!DocumentTypeOK'
    BY <1>1, <1>3, <2>2 DEF Documents!DocumentInv, Documents!DocumentTypeOK, Documents!hostVars
  <2> QED BY <1>1, <2>2, <2>3, NoRunMoves
<1> QED BY <1>3, <1>4, <1>5

----------------------------------------------------------------------------
\* The steps of a run: it gets another phase, and at most a target or a notice.
LEMMA StateLeft ==
  ASSUME Documents!DocumentInv, NEW s \in Session, NEW r \in Documents!RunRecord, x13' = [x13 EXCEPT ![s] = r],
         UNCHANGED <<Documents!hostVars, x4, x7, Documents!stateVars, x11, x14>>,
         x5' = x5 \/ x5' \in [Instance -> Documents!InstanceState \cup {[is |-> "unread"]}],
         r.phase \in {"prepared", "running", "calling", "answered"} =>
           /\ x13[s].phase \in {"prepared", "running", "calling", "answered"}
           /\ r.document = x13[s].document /\ r.revision = x13[s].revision,
         r.phase \in {"binding", "calling", "answered"} => r.target \in Instance,
         r.phase \in {"running", "calling", "answered"} /\ x14[s] # Documents!Unobserved /\ r.document # x14[s] =>
           r.notice # <<>> /\ (x14[s].doc # 0 => r.notice[1].from = x14[s])
  PROVE  Documents!DocumentInv'
<1>1. x7' \in Documents!Instances
  BY DEF Documents!DocumentInv, Documents!DocumentTypeOK
<1>2. /\ Onward /\ Documents!KeptForCurrent' /\ (x8' = Documents!Unobserved => x9' = <<>>)
      /\ x8' \in Documents!DocumentIdentity /\ x10' \in Documents!DocumentIdentity
      /\ x9' \in Seq(Documents!Change) /\ Len(x9') \in Nat
  BY ContextStays
<1>3. ASSUME r.phase \in {"prepared", "running", "calling", "answered"}
      PROVE  /\ r.document # Documents!Unobserved /\ KnownIn(r.document, r.revision, x9', x8')
             /\ r.revision \in 0..Len(x9') /\ x11[s] <= r.revision
  <2>1. Documents!RunAtRevision(s) /\ x9' = x9 /\ x8' = x8
    BY DEF Documents!DocumentInv, Documents!stateVars
  <2> QED BY <1>3, <2>1 DEF Documents!RunAtRevision, Documents!AtRevision, KnownIn
<1> QED BY <1>1, <1>2, <1>3, OneRunMoves

LEMMA PhaseStep ==
  ASSUME Documents!DocumentInv, NEW s \in Session, Documents!RunStarts(s) \/ Documents!BindFails(s) \/ Documents!RunFails(s)
  PROVE  Documents!DocumentInv'
<1>1. /\ UNCHANGED <<Documents!hostVars, x7, Documents!stateVars, x11, x14>>
      /\ UNCHANGED <<x4, x5>> \/ Documents!Refresh(Documents!RunOf(s))
  BY DEF Documents!RunStarts, Documents!BindFails, Documents!RunFails, Documents!registryVars
<1>2. /\ UNCHANGED x4
      /\ x5' = x5 \/ x5' \in [Instance -> Documents!InstanceState \cup {[is |-> "unread"]}]
  BY <1>1, RefreshTyped
<1>3. x13[s] \in Documents!RunRecord /\ Documents!NoRun \in Documents!RunRecord /\ Documents!Nobody \in Documents!Instances
  <2>1. <<>> \in Seq(Documents!Change) /\ Documents!Nobody \in Documents!Instances
    BY DEF Documents!Instances
  <2> QED BY <2>1, Identities DEF Documents!NoRun, Documents!RunRecord, Documents!DocumentInv, Documents!DocumentTypeOK
<1>4. \E r \in Documents!RunRecord : /\ x13' = [x13 EXCEPT ![s] = r]
                                     /\ r.phase \in {"refreshing", "unprepared", "idle"}
  <2>1. CASE Documents!RunStarts(s)
    <3>1. x13' = [x13 EXCEPT ![s] = [x13[s] EXCEPT !.phase = "refreshing"]]
      BY <2>1 DEF Documents!RunStarts, Documents!DocumentInv, Documents!DocumentTypeOK
    <3>2. /\ [x13[s] EXCEPT !.phase = "refreshing"] \in Documents!RunRecord
          /\ [x13[s] EXCEPT !.phase = "refreshing"].phase = "refreshing"
      BY <1>3 DEF Documents!RunRecord
    <3> QED BY <3>1, <3>2
  <2>2. CASE Documents!BindFails(s)
    <3>1. x13' = [x13 EXCEPT ![s] = [x13[s] EXCEPT !.phase = "unprepared", !.target = Documents!Nobody]]
      BY <2>2 DEF Documents!BindFails, Documents!DocumentInv, Documents!DocumentTypeOK
    <3>2. /\ [x13[s] EXCEPT !.phase = "unprepared", !.target = Documents!Nobody] \in Documents!RunRecord
          /\ [x13[s] EXCEPT !.phase = "unprepared", !.target = Documents!Nobody].phase = "unprepared"
      BY <1>3 DEF Documents!RunRecord
    <3> QED BY <3>1, <3>2
  <2>3. CASE Documents!RunFails(s)
    BY <1>3, <2>3 DEF Documents!RunFails, Documents!NoRun
  <2> QED BY <2>1, <2>2, <2>3
<1> QED BY <1>1, <1>2, <1>4, StateLeft

\* A run that is prepared knows the document as it is then.
LEMMA PreparedRun ==
  ASSUME Documents!DocumentInv, NEW s \in Session, NEW target \in Documents!Instances, Documents!Prepared(s, target),
         UNCHANGED <<Documents!hostVars, x4, x5, x11, x14>>, x7' \in Documents!Instances,
         NEW next \in Documents!DocumentIdentity, next # Documents!Unobserved, Documents!Observe(next)
  PROVE  Documents!DocumentInv'
<1>1. /\ Onward /\ Documents!KeptForCurrent' /\ x8' = next
      /\ x8' \in Documents!DocumentIdentity /\ x10' \in Documents!DocumentIdentity
      /\ x9' \in Seq(Documents!Change) /\ Len(x9') \in Nat
  BY ContextMoves
<1> DEFINE r == [x13[s] EXCEPT !.phase = "prepared", !.target = target,
                               !.document = x8', !.revision = Len(x9')]
<1>2. x13[s] \in Documents!RunRecord /\ x13' = [x13 EXCEPT ![s] = r]
  BY DEF Documents!Prepared, Documents!DocumentInv, Documents!DocumentTypeOK
<1>3. /\ r \in Documents!RunRecord /\ r.phase = "prepared" /\ r.document = x8'
      /\ r.revision = Len(x9')
  <2>1. Len(x9') \in Int
    BY <1>1
  <2>2. PICK d \in Documents!DocumentIdentity : d = x8'
    BY <1>1
  <2>3. PICK n \in Int : n = Len(x9')
    BY <2>1
  <2>4. r = [x13[s] EXCEPT !.phase = "prepared", !.target = target, !.document = d, !.revision = n]
    BY <2>2, <2>3
  <2> HIDE DEF r
  <2>5. x13[s] \in Documents!RunRecord
    BY <1>2
  <2>6. r \in Documents!RunRecord /\ r.phase = "prepared" /\ r.document = d /\ r.revision = n
    BY <2>4, <2>5 DEF Documents!RunRecord
  <2> QED BY <2>2, <2>3, <2>6
<1>4. x11[s] <= Len(x9')
  BY <1>1 DEF Documents!DocumentInv, Documents!ToldAtRevision, Documents!DocumentTypeOK, Onward
<1> HIDE DEF r
<1>5. KnownIn(r.document, r.revision, x9', x8') /\ r.revision \in 0..Len(x9')
  BY <1>1, <1>3 DEF KnownIn
<1> QED BY <1>1, <1>2, <1>3, <1>4, <1>5, OneRunMoves

LEMMA PreflightStep ==
  ASSUME Documents!DocumentInv, NEW s \in Session, Documents!PreflightResumes(s)
  PROVE  Documents!DocumentInv'
<1>1. /\ UNCHANGED <<Documents!hostVars, x4, x5, x11, x14>> /\ x7' = Documents!Chosen
      /\ Documents!Chosen \in Documents!Instances /\ Documents!Nobody \in Documents!Instances
  BY ChosenTyped DEF Documents!PreflightResumes, Documents!Resumes, Documents!DocumentInv, Documents!Instances
<1>2. CASE Documents!Chosen # Documents!Nobody /\ Documents!Connected(Documents!Chosen)
  <2> DEFINE r == [x13[s] EXCEPT !.phase = "binding", !.target = Documents!Chosen]
  <2>1. /\ x13' = [x13 EXCEPT ![s] = r] /\ UNCHANGED Documents!stateVars
        /\ x13[s] \in Documents!RunRecord /\ Documents!Chosen \in Instance
    BY <1>1, <1>2 DEF Documents!PreflightResumes, Documents!DocumentInv, Documents!DocumentTypeOK, Documents!Instances
  <2>2. r \in Documents!RunRecord /\ r.phase = "binding" /\ r.target = Documents!Chosen
    BY <1>1, <2>1 DEF Documents!RunRecord
  <2> HIDE DEF r
  <2>3. /\ Onward /\ Documents!KeptForCurrent' /\ (x8' = Documents!Unobserved => x9' = <<>>)
        /\ x8' \in Documents!DocumentIdentity /\ x10' \in Documents!DocumentIdentity
        /\ x9' \in Seq(Documents!Change) /\ Len(x9') \in Nat
    BY <2>1, ContextStays
  <2> QED BY <1>1, <2>1, <2>2, <2>3, OneRunMoves
<1>3. CASE ~(Documents!Chosen # Documents!Nobody /\ Documents!Connected(Documents!Chosen))
  <2>1. Documents!Observe(Documents!NoDocument) /\ Documents!Prepared(s, Documents!Nobody)
    BY <1>3 DEF Documents!PreflightResumes
  <2> QED BY <1>1, <2>1, Identities, PreparedRun
<1> QED BY <1>2, <1>3

LEMMA BindStep ==
  ASSUME Documents!DocumentInv, NEW s \in Session, Documents!Bind(s)
  PROVE  Documents!DocumentInv'
<1> DEFINE i == x13[s].target
           next == Documents!Identity(i, i, x1[i])
<1>1. /\ i \in Instance /\ i \in Documents!Instances
      /\ UNCHANGED <<Documents!hostVars, x4, x5, x7, x11, x14>>
      /\ Documents!Observe(next) /\ Documents!Prepared(s, i) /\ x7 \in Documents!Instances
  BY DEF Documents!Bind, Documents!registryVars, Documents!DocumentInv, Documents!DocumentTypeOK, Documents!RunAtRevision, Documents!Instances
<1>2. x1[i] \in Int
  BY <1>1 DEF Documents!DocumentInv, Documents!DocumentTypeOK
<1>3. next \in Documents!DocumentIdentity /\ next # Documents!Unobserved
  BY <1>1, <1>2, Identities
<1> HIDE DEF i, next
<1> QED BY <1>1, <1>3, PreparedRun

\* The notice of a run: it says that the document is another one than the
\* session knows, and starts from that one.
LEMMA ContributeStep ==
  ASSUME Documents!DocumentInv, NEW s \in Session, Documents!Contribute(s)
  PROVE  Documents!DocumentInv'
<1> DEFINE r == [x13[s] EXCEPT !.phase = "running", !.notice = Documents!Notice(s)]
<1>1. /\ x13[s].phase = "prepared" /\ x13' = [x13 EXCEPT ![s] = r] /\ x13[s] \in Documents!RunRecord
      /\ UNCHANGED <<Documents!hostVars, x4, x5, x7, Documents!stateVars, x11, x14>>
  BY DEF Documents!Contribute, Documents!registryVars, Documents!DocumentInv, Documents!DocumentTypeOK
<1>2. /\ x9 \in Seq(Documents!Change) /\ Len(x9) \in Nat
      /\ x11[s] \in -1..Len(x9)
      /\ x14[s] # Documents!Unobserved => x11[s] # -1 /\ Documents!AtRevision(x14[s], x11[s])
      /\ Documents!AtRevision(x13[s].document, x13[s].revision) /\ x13[s].revision \in 0..Len(x9)
      /\ x11[s] <= x13[s].revision
  BY <1>1 DEF Documents!DocumentInv, Documents!DocumentTypeOK, Documents!ToldAtRevision, Documents!RunAtRevision
<1>3. CASE x11[s] = -1 \/ x11[s] >= Len(x9)
  <2>1. Documents!Notice(s) = <<>> /\ Documents!Notice(s) \in Seq(Documents!Change)
    BY <1>3 DEF Documents!Notice
  <2>2. x14[s] # Documents!Unobserved => x13[s].document = x14[s]
    BY <1>2, <1>3 DEF Documents!AtRevision
  <2>3. /\ r \in Documents!RunRecord /\ r.phase = "running" /\ r.document = x13[s].document
        /\ r.revision = x13[s].revision
    BY <1>1, <2>1 DEF Documents!RunRecord
  <2> HIDE DEF r
  <2> QED BY <1>1, <2>2, <2>3, StateLeft
<1>4. CASE ~(x11[s] = -1 \/ x11[s] >= Len(x9))
  <2> DEFINE first == x9[x11[s] + 1]
             change == [from |-> first.from, to |-> x9[Len(x9)].to]
  <2>1. Documents!Notice(s) = <<change>>
    BY <1>4 DEF Documents!Notice
  <2>2. first \in Documents!Change /\ x9[Len(x9)] \in Documents!Change
    <3>1. x11[s] + 1 \in 1..Len(x9) /\ Len(x9) \in 1..Len(x9)
      BY <1>2, <1>4
    <3> QED BY <1>2, <3>1
  <2>3. change \in Documents!Change /\ change.from = first.from
    BY <2>2 DEF Documents!Change
  <2>4. x14[s] # Documents!Unobserved /\ x14[s].doc # 0 => first.from = x14[s]
    BY <1>2, <1>4 DEF Documents!AtRevision
  <2> HIDE DEF change, first
  <2>5. Documents!Notice(s) \in Seq(Documents!Change) /\ Documents!Notice(s) # <<>> /\ Documents!Notice(s)[1] = change
    BY <2>1, <2>3
  <2>6. /\ r \in Documents!RunRecord /\ r.phase = "running" /\ r.document = x13[s].document
        /\ r.revision = x13[s].revision /\ r.notice = Documents!Notice(s)
    BY <1>1, <2>5 DEF Documents!RunRecord
  <2> HIDE DEF r
  <2> QED BY <1>1, <2>3, <2>4, <2>5, <2>6, StateLeft
<1> QED BY <1>3, <1>4

LEMMA CallStep ==
  ASSUME Documents!DocumentInv, NEW s \in Session, Documents!Check(s) \/ Documents!Answer(s)
  PROVE  Documents!DocumentInv'
<1>1. /\ UNCHANGED <<Documents!hostVars, x4, x5, x7, Documents!stateVars, x11, x14>>
      /\ x13[s] \in Documents!RunRecord /\ x13[s].phase \in {"running", "calling"}
      /\ Documents!RunAtRevision(s) /\ Documents!Announced(s)
  BY DEF Documents!Check, Documents!Answer, Documents!registryVars, Documents!DocumentInv, Documents!DocumentTypeOK
<1>2. PICK r \in Documents!RunRecord : /\ x13' = [x13 EXCEPT ![s] = r] /\ r.phase \in {"calling", "answered"}
                                       /\ r.target = x13[s].target /\ r.target \in Instance
                                       /\ r.document = x13[s].document /\ r.revision = x13[s].revision
                                       /\ r.notice = x13[s].notice
  <2>1. CASE Documents!Check(s)
    <3> DEFINE r == [x13[s] EXCEPT !.phase = "calling"]
    <3>1. x13' = [x13 EXCEPT ![s] = r] /\ x13[s].target # Documents!Nobody
      BY <2>1 DEF Documents!Check, Documents!DocumentInv, Documents!DocumentTypeOK
    <3>2. /\ r \in Documents!RunRecord /\ r.phase = "calling" /\ r.target = x13[s].target
          /\ r.document = x13[s].document /\ r.revision = x13[s].revision /\ r.notice = x13[s].notice
      BY <1>1 DEF Documents!RunRecord
    <3>3. x13[s].target \in Instance
      BY <1>1, <3>1 DEF Documents!RunRecord, Documents!Instances
    <3> HIDE DEF r
    <3> QED BY <3>1, <3>2, <3>3
  <2>2. CASE Documents!Answer(s)
    <3> DEFINE n == x1[x13[s].target]
               r == [x13[s] EXCEPT !.phase = "answered", !.result = n]
    <3>1. x13' = [x13 EXCEPT ![s] = r] /\ x13[s].phase = "calling"
      BY <2>2 DEF Documents!Answer, Documents!DocumentInv, Documents!DocumentTypeOK
    <3>2. x13[s].target \in Instance /\ n \in Int
      BY <1>1, <3>1 DEF Documents!RunAtRevision, Documents!DocumentInv, Documents!DocumentTypeOK
    <3> HIDE DEF n
    <3>3. /\ r \in Documents!RunRecord /\ r.phase = "answered" /\ r.target = x13[s].target
          /\ r.document = x13[s].document /\ r.revision = x13[s].revision /\ r.notice = x13[s].notice
      BY <1>1, <3>2 DEF Documents!RunRecord
    <3> HIDE DEF r
    <3> QED BY <3>1, <3>2, <3>3
  <2> QED BY <2>1, <2>2
<1>3. x14[s] # Documents!Unobserved /\ r.document # x14[s] =>
        r.notice # <<>> /\ (x14[s].doc # 0 => r.notice[1].from = x14[s])
  BY <1>1, <1>2 DEF Documents!Announced
<1> QED BY <1>1, <1>2, <1>3, StateLeft

\* What a result says is filed, or another document is observed in its status.
LEMMA IngestStep ==
  ASSUME Documents!DocumentInv, NEW s \in Session, Documents!Ingest(s) \/ Documents!IngestStatus(s)
  PROVE  Documents!DocumentInv'
<1> DEFINE r == [x13[s] EXCEPT !.phase = "running"]
<1>1. /\ UNCHANGED <<Documents!hostVars, x4, x5, x7, x11, x14>> /\ x7 \in Documents!Instances
      /\ x13[s] \in Documents!RunRecord /\ x13[s].phase = "answered" /\ x13' = [x13 EXCEPT ![s] = r]
      /\ Documents!RunAtRevision(s) /\ Documents!Announced(s) /\ x13[s].target \in Instance
  BY DEF Documents!Ingest, Documents!IngestStatus, Documents!registryVars, Documents!DocumentInv, Documents!DocumentTypeOK, Documents!RunAtRevision
<1>2. /\ r \in Documents!RunRecord /\ r.phase = "running"
      /\ r.document = x13[s].document /\ r.revision = x13[s].revision /\ r.notice = x13[s].notice
  BY <1>1 DEF Documents!RunRecord
<1> HIDE DEF r
<1>3. /\ Onward /\ Documents!KeptForCurrent' /\ (x8' = Documents!Unobserved => x9' = <<>>)
      /\ x8' \in Documents!DocumentIdentity /\ x10' \in Documents!DocumentIdentity
      /\ x9' \in Seq(Documents!Change) /\ Len(x9') \in Nat
  <2>1. CASE Documents!Ingest(s)
    <3>1. UNCHANGED <<x8, x9, x10>>
      BY <2>1 DEF Documents!Ingest
    <3>2. \A k \in x12' : k \in x12 \/ k.scope = Documents!Scope(x8)
      BY <2>1 DEF Documents!Ingest, Documents!Fact, Documents!Reference
    <3>3. Documents!KeptForCurrent'
      BY <3>1, <3>2 DEF Documents!KeptForCurrent, Documents!DocumentInv, Documents!Scope
    <3>4. Onward /\ Len(x9) \in Nat
      BY <3>1 DEF Onward, Documents!AtRevision, KnownIn, Documents!DocumentInv, Documents!DocumentTypeOK
    <3> QED BY <3>1, <3>3, <3>4 DEF Documents!DocumentInv, Documents!DocumentTypeOK
  <2>2. CASE Documents!IngestStatus(s)
    <3> DEFINE i == IF x8.bridge = x13[s].target THEN x8.instance ELSE Documents!Nobody
               next == Documents!Identity(i, x13[s].target, x13[s].result)
    <3>1. Documents!Observe(next)
      BY <2>2 DEF Documents!IngestStatus
    <3>2. i \in Documents!Instances \cup {"never"} /\ x13[s].target \in Documents!Instances /\ x13[s].result \in Int
      BY <1>1 DEF Documents!DocumentInv, Documents!DocumentTypeOK, Documents!DocumentIdentity, Documents!RunRecord, Documents!Instances
    <3>3. next \in Documents!DocumentIdentity /\ next # Documents!Unobserved
      BY <1>1, <3>2, Identities DEF Documents!Identity, Documents!DocumentIdentity, Documents!Unobserved
    <3> HIDE DEF next
    <3> QED BY <3>1, <3>3, ContextMoves
  <2> QED BY <2>1, <2>2
<1>4. /\ r.document # Documents!Unobserved /\ KnownIn(r.document, r.revision, x9', x8')
      /\ r.revision \in 0..Len(x9') /\ x11[s] <= r.revision
  <2>1. /\ x13[s].document # Documents!Unobserved /\ Documents!AtRevision(x13[s].document, x13[s].revision)
        /\ x13[s].revision \in 0..Len(x9) /\ x11[s] <= x13[s].revision
        /\ x13[s].document \in Documents!DocumentIdentity /\ Len(x9) \in Nat
    BY <1>1 DEF Documents!RunAtRevision, Documents!RunRecord, Documents!DocumentInv, Documents!DocumentTypeOK
  <2> QED BY <1>2, <1>3, <2>1 DEF Onward
<1>5. x14[s] # Documents!Unobserved /\ r.document # x14[s] =>
        r.notice # <<>> /\ (x14[s].doc # 0 => r.notice[1].from = x14[s])
  BY <1>1, <1>2 DEF Documents!Announced
<1> QED BY <1>1, <1>2, <1>3, <1>4, <1>5, OneRunMoves

\* A session has been told of the document its completed run was prepared with.
LEMMA CompletesStep ==
  ASSUME Documents!DocumentInv, NEW s \in Session, Documents!Completes(s)
  PROVE  Documents!DocumentInv'
<1>1. /\ x13[s].phase \in {"running", "unprepared"} /\ x13' = [x13 EXCEPT ![s] = Documents!NoRun]
      /\ UNCHANGED <<Documents!hostVars, x4, x5, x7, Documents!stateVars>> /\ x13[s] \in Documents!RunRecord
  BY DEF Documents!Completes, Documents!registryVars, Documents!DocumentInv, Documents!DocumentTypeOK
<1>2. Documents!NoRun \in Documents!RunRecord /\ Documents!NoRun.phase = "idle"
  <2>1. <<>> \in Seq(Documents!Change) /\ Documents!Nobody \in Documents!Instances
    BY DEF Documents!Instances
  <2> QED BY <2>1, Identities DEF Documents!NoRun, Documents!RunRecord
<1>3. CASE x13[s].phase = "unprepared"
  <2>1. UNCHANGED <<x11, x14>>
    BY <1>3 DEF Documents!Completes
  <2> QED BY <1>1, <1>2, <2>1, StateLeft
<1>4. CASE x13[s].phase = "running"
  <2>1. /\ x11' = [x11 EXCEPT ![s] = Documents!Seen(s)]
        /\ x14' = [x14 EXCEPT ![s] = x13[s].document]
    BY <1>4 DEF Documents!Completes
  <2>2. /\ Documents!AtRevision(x13[s].document, x13[s].revision) /\ x13[s].document \in Documents!DocumentIdentity
        /\ x13[s].revision \in 0..Len(x9) /\ x11[s] <= x13[s].revision
        /\ Len(x9) \in Nat /\ x11 \in [Session -> Int]
        /\ x14 \in [Session -> Documents!DocumentIdentity]
    <3>1. Documents!RunAtRevision(s) /\ x13[s].document \in Documents!DocumentIdentity
      BY <1>1 DEF Documents!DocumentInv, Documents!RunRecord
    <3>2. /\ Len(x9) \in Nat /\ x11 \in [Session -> Int]
          /\ x14 \in [Session -> Documents!DocumentIdentity]
      BY DEF Documents!DocumentInv, Documents!DocumentTypeOK
    <3> QED BY <1>4, <3>1, <3>2 DEF Documents!RunAtRevision
  <2>3. Documents!Seen(s) = x13[s].revision
    BY <2>2 DEF Documents!Seen, Documents!Larger
  <2>4. /\ x11' \in [Session -> Int] /\ x14' \in [Session -> Documents!DocumentIdentity]
        /\ x13' \in [Session -> Documents!RunRecord]
    BY <1>1, <1>2, <2>1, <2>2, <2>3 DEF Documents!DocumentInv, Documents!DocumentTypeOK
  <2>5. Documents!DocumentTypeOK'
    BY <1>1, <2>4 DEF Documents!DocumentInv, Documents!DocumentTypeOK, Documents!hostVars, Documents!stateVars
  <2>6. /\ Onward /\ Documents!KeptForCurrent' /\ (x8' = Documents!Unobserved => x9' = <<>>)
        /\ Len(x9') \in Nat
    BY <1>1, ContextStays
  <2>7. ASSUME NEW t \in Session PROVE Documents!ToldAtRevision(t)' /\ Documents!RunAtRevision(t)' /\ Documents!Announced(t)'
    <3>1. CASE t # s
      <4>1. x11'[t] = x11[t] /\ x14'[t] = x14[t] /\ x13'[t] = x13[t]
        BY <1>1, <2>1, <2>2, <3>1 DEF Documents!DocumentInv, Documents!DocumentTypeOK
      <4> QED BY <2>6, <4>1, ToldOnward, RunOnward
    <3>2. CASE t = s
      <4>1. /\ x11'[s] = x13[s].revision /\ x14'[s] = x13[s].document /\ x13'[s] = Documents!NoRun
            /\ x9' = x9 /\ x8' = x8
        BY <1>1, <2>1, <2>2, <2>3 DEF Documents!DocumentInv, Documents!DocumentTypeOK, Documents!stateVars
      <4>2. Documents!ToldAtRevision(s)'
        BY <2>2, <4>1 DEF Documents!ToldAtRevision, Documents!AtRevision
      <4>3. Documents!RunAtRevision(s)' /\ Documents!Announced(s)'
        BY <1>2, <4>1 DEF Documents!RunAtRevision, Documents!Announced
      <4> QED BY <3>2, <4>2, <4>3
    <3> QED BY <3>1, <3>2
  <2> QED BY <2>5, <2>6, <2>7 DEF Documents!DocumentInv
<1> QED BY <1>1, <1>3, <1>4

LEMMA ForgetStep ==
  ASSUME Documents!DocumentInv, NEW s \in Session, Documents!Forget(s)
  PROVE  Documents!DocumentInv'
<1>1. /\ x13[s] = Documents!NoRun /\ x11' = [x11 EXCEPT ![s] = -1]
      /\ x14' = [x14 EXCEPT ![s] = Documents!Unobserved] /\ x12' = {k \in x12 : k.by # s}
      /\ UNCHANGED <<Documents!hostVars, x4, x5, x7, x8, x9, x10, x13>>
  BY DEF Documents!Forget, Documents!registryVars
<1>2. Len(x9) \in Nat /\ x9 \in Seq(Documents!Change)
  BY DEF Documents!DocumentInv, Documents!DocumentTypeOK
<1>3. x11' \in [Session -> Int] /\ x14' \in [Session -> Documents!DocumentIdentity]
  BY <1>1, Identities DEF Documents!DocumentInv, Documents!DocumentTypeOK
<1>4. Documents!DocumentTypeOK'
  BY <1>1, <1>3 DEF Documents!DocumentInv, Documents!DocumentTypeOK, Documents!hostVars
<1>5. Documents!KeptForCurrent'
  BY <1>1 DEF Documents!DocumentInv, Documents!KeptForCurrent
<1>6. Onward
  BY <1>1, <1>2 DEF Onward, Documents!AtRevision, KnownIn
<1>7. ASSUME NEW t \in Session PROVE Documents!ToldAtRevision(t)' /\ Documents!RunAtRevision(t)' /\ Documents!Announced(t)'
  <2>1. CASE t # s
    <3>1. x11'[t] = x11[t] /\ x14'[t] = x14[t] /\ x13'[t] = x13[t]
      BY <1>1, <2>1 DEF Documents!DocumentInv, Documents!DocumentTypeOK
    <3> QED BY <1>1, <1>2, <1>6, <3>1, ToldOnward, RunOnward
  <2>2. CASE t = s
    <3>1. /\ x11'[s] = -1 /\ x14'[s] = Documents!Unobserved /\ x13'[s].phase = "idle"
          /\ x9' = x9
      BY <1>1 DEF Documents!DocumentInv, Documents!DocumentTypeOK, Documents!NoRun
    <3> QED BY <1>2, <2>2, <3>1 DEF Documents!ToldAtRevision, Documents!RunAtRevision, Documents!Announced
  <2> QED BY <2>1, <2>2
<1> QED BY <1>1, <1>4, <1>5, <1>6, <1>7 DEF Documents!DocumentInv

LEMMA DocumentStep ==
  ASSUME Documents!DocumentInv, [Documents!DocumentNext]_(Documents!documentVars)
  PROVE  Documents!DocumentInv'
<1>1. CASE UNCHANGED Documents!documentVars
  <2>1. UNCHANGED <<Documents!hostVars, x4, x5, x7, Documents!stateVars, x11, x13, x14>>
    BY <1>1 DEF Documents!documentVars, Documents!registryVars
  <2>2. Documents!DocumentTypeOK'
    BY <2>1 DEF Documents!DocumentInv, Documents!DocumentTypeOK, Documents!hostVars, Documents!stateVars
  <2> QED BY <2>1, <2>2, ContextStays, NoRunMoves
<1>2. ASSUME NEW s \in Session, Documents!RunDocumentStep(s) PROVE Documents!DocumentInv'
  BY <1>2, PhaseStep, PreflightStep, BindStep, ContributeStep, CallStep, IngestStep, CompletesStep,
     ForgetStep DEF Documents!RunDocumentStep
<1>3. CASE Documents!DocumentNext
  BY <1>2, <1>3, HostStep, InspectStep, RefreshedStep, StartsStep, ChoiceStep DEF Documents!DocumentNext
<1> QED BY <1>1, <1>3

LEMMA DocumentCurrent == Documents!DocumentInv => Documents!DocumentIsCurrent
BY DEF Documents!DocumentInv, Documents!DocumentIsCurrent, Documents!ChangeIsAnnounced, Documents!Announced

DocumentPart == part = "documents" => Documents!DocumentInv

LEMMA DocumentsAlone ==
  part = "documents" /\ [Next]_all => [Documents!DocumentNext]_(Documents!documentVars)
BY DEF Next, all, Documents!documentVars, Documents!hostVars, Documents!registryVars,
       Documents!stateVars

\* What is remembered is of the current document, and a run that works with
\* another document than its session was told of says so, from the one it was
\* told of (ContextState, documentNoticeForSession).
THEOREM DocumentAlwaysCurrent == Spec => []DocumentIsCurrent
<1>1. Init => DocumentPart
  BY DocumentInitially DEF Init, DocumentPart
<1>2. DocumentPart /\ [Next]_all => DocumentPart'
  BY PartStays, DocumentsAlone, DocumentStep DEF DocumentPart
<1>3. DocumentPart => DocumentIsCurrent
  BY DocumentCurrent DEF DocumentPart, DocumentIsCurrent
<1> QED BY <1>1, <1>2, <1>3, PTL DEF Spec

-----------------------------------------------------------------------------
(* The model on the screen and in a run: x1 settings, x2 asks, x3 answers, *)
(* x4 info, x5 crossed, x6 usage, x7 run, x8 changes.                      *)

LEMMA InfoIsInfo ==
  ASSUME NEW s \in Window!StoredSettings
  PROVE  Window!Info(s) \in Window!Infos
<1> DEFINE base == Window!Base(s)
           c == s.configured[base.ref]
<1>1. base \in Window!Infos
  <2>1. CASE Window!UsesApi(s)
    <3>1. s.profile # Unused /\ s.profile.window \in Window!Limits
      BY <2>1 DEF Window!UsesApi, Window!StoredSettings, Window!Profiles
    <3> QED BY <2>1, <3>1 DEF Window!Base, Window!ApiInfo, Window!Infos, Window!Limits
  <2>2. CASE ~Window!UsesApi(s)
    BY <2>2 DEF Window!Base, Window!LocalInfo, Window!Infos, Window!Limits
  <2> QED BY <2>1, <2>2
<1>2. base.ref \in {"api", "ollama"}
  BY <1>1 DEF Window!Infos
<1>3. c \in Window!Configurations
  BY <1>2 DEF Window!StoredSettings
<1>4. CASE c = Unused
  BY <1>1, <1>4 DEF Window!Info
<1>5. CASE c # Unused
  <2>1. c.context \in Window!Limits /\ c.output \in Window!Limits
    BY <1>3, <1>5 DEF Window!Configurations
  <2>2. Window!Info(s) = [base EXCEPT !.context = Window!Over(c.context, @), !.output = Window!Over(c.output, @),
                     !.source = IF c.context = Unused /\ c.output = Unused THEN @ ELSE "model"]
    BY <1>5 DEF Window!Info
  <2> HIDE DEF base, c
  <2> QED BY <1>1, <2>1, <2>2 DEF Window!Infos, Window!Over
<1> QED BY <1>4, <1>5

LEMMA WindowInitially ==
  ASSUME Window!WindowInit
  PROVE  Window!WindowInv
<1>1. x1 \in Window!StoredSettings
  BY DEF Window!WindowInit, Window!StoredSettings, Window!Profiles, Window!Configurations, Window!Effort
<1> QED BY <1>1 DEF Window!WindowInit, Window!WindowInv, Window!ReserveLeavesRoom

\* What the steps that change the settings change.
LEMMA ChangeStep ==
  ASSUME Window!WindowInv, NEW s \in Window!StoredSettings, Window!Changes(s)
  PROVE  Window!WindowInv'
<1>1. /\ x1' = s /\ x2' = x2 + 1 /\ UNCHANGED <<x3, x4, x5, x6, x7>>
      /\ x2 \in Nat
  BY DEF Window!Changes, Window!WindowInv
<1>2. x2' \in Nat /\ x2' # 0
  BY <1>1
<1> QED BY <1>1, <1>2 DEF Window!WindowInv, Window!ReserveLeavesRoom

LEMMA StoredStep ==
  ASSUME Window!WindowInv, Window!ChangesSwitches \/ Window!ChangesLocalModel \/ Window!ChangesProfile \/ Window!Configures \/ Window!PicksEffort
  PROVE  Window!WindowInv'
<1>0. x1 \in Window!StoredSettings
  BY DEF Window!WindowInv
<1>1. CASE Window!ChangesSwitches
  <2>1. \A p, o, a \in BOOLEAN : [x1 EXCEPT !.prefer = p, !.ollamaOn = o, !.apiOn = a] \in Window!StoredSettings
    BY <1>0 DEF Window!StoredSettings
  <2> QED BY <1>1, <2>1, ChangeStep DEF Window!ChangesSwitches
<1>2. CASE Window!ChangesProfile
  <2>1. \A p \in Window!Profiles : [x1 EXCEPT !.profile = p] \in Window!StoredSettings
    BY <1>0 DEF Window!StoredSettings
  <2> QED BY <1>2, <2>1, ChangeStep DEF Window!ChangesProfile
<1>3. CASE Window!Configures
  <2>1. \A r \in {"api", "ollama"}, c \in Window!Configurations :
          [x1 EXCEPT !.configured[r] = c] \in Window!StoredSettings
    BY <1>0 DEF Window!StoredSettings
  <2> QED BY <1>3, <2>1, ChangeStep DEF Window!Configures
<1>4. CASE Window!PicksEffort
  <2>1. \A e \in Window!Effort : [x1 EXCEPT !.effort = e] \in Window!StoredSettings
    BY <1>0 DEF Window!StoredSettings
  <2> QED BY <1>4, <2>1, ChangeStep DEF Window!PicksEffort
<1>5. CASE Window!ChangesLocalModel
  <2>1. \A m \in BOOLEAN : [x1 EXCEPT !.localModel = m] \in Window!StoredSettings
    BY <1>0 DEF Window!StoredSettings
  <2> QED BY <1>5, <2>1, ChangeStep DEF Window!ChangesLocalModel
<1> QED BY <1>1, <1>2, <1>3, <1>4, <1>5

LEMMA ResolveStep ==
  ASSUME Window!WindowInv, Window!Resolves
  PROVE  Window!WindowInv'
<1> DEFINE a == IF Window!Available(x1) THEN Window!Info(x1) ELSE Unused
<1>1. /\ x3' = Append(x3, a) /\ x2' = x2 - 1 /\ x2 > 0 /\ x2 \in Nat
      /\ UNCHANGED <<x1, x4, x5, x6, x7>>
  BY DEF Window!Resolves, Window!WindowInv
<1>2. a \in Window!Infos \cup {Unused}
  BY InfoIsInfo DEF Window!WindowInv
<1>3. Window!Available(x1) => a = Window!Info(x1)
  OBVIOUS
<1> HIDE DEF a
<1>4. /\ x3' \in Seq(Window!Infos \cup {Unused}) /\ x3' # << >>
      /\ Len(x3') = Len(x3) + 1 /\ x3'[Len(x3')] = a
  BY <1>1, <1>2 DEF Window!WindowInv
<1> QED BY <1>1, <1>3, <1>4 DEF Window!WindowInv, Window!Latest, Window!ReserveLeavesRoom

LEMMA ShowStep ==
  ASSUME Window!WindowInv, NEW i \in 1..Len(x3), Window!Shows(i)
  PROVE  Window!WindowInv'
<1> DEFINE T == Window!Infos \cup {Unused}
           n == Len(x3)
           rest == [j \in 1..(n - 1) |-> IF j < i THEN x3[j] ELSE x3[j + 1]]
<1>1. /\ x4' = x3[i] /\ x3' = rest /\ x5' = (x5 \/ i # 1)
      /\ UNCHANGED <<x1, x2, x6, x7>>
  BY DEF Window!Shows
<1>2. x3 \in Seq(T) /\ n \in Nat /\ DOMAIN x3 = 1..n /\ n - 1 \in Nat
  BY DEF Window!WindowInv
<1> HIDE DEF T, n
<1>3. ASSUME NEW j \in 1..(n - 1) PROVE rest[j] \in T
  <2>1. j \in 1..n /\ j + 1 \in 1..n
    BY <1>2
  <2>2. x3[j] \in T /\ x3[j + 1] \in T
    BY <1>2, <2>1
  <2> QED BY <2>2
<1>4. rest \in Seq(T) /\ Len(rest) = n - 1
  <2>1. rest \in [1..(n - 1) -> T]
    BY <1>3
  <2> HIDE DEF rest
  <2> QED BY <1>2, <2>1
<1>5. ASSUME ~x5' PROVE Window!Latest' = Window!Latest
  <2>1. i = 1 /\ n \in 1..n
    <3>1. i \in 1..n /\ i = 1
      BY <1>1, <1>5 DEF n
    <3> QED BY <1>2, <3>1
  <2>2. CASE n = 1
    <3>1. rest = << >> /\ x3 # << >>
      BY <1>2, <1>4, <2>2 DEF n
    <3> QED BY <1>1, <2>1, <2>2, <3>1 DEF Window!Latest, n
  <2>3. CASE n # 1
    <3>1. n - 1 \in 1..(n - 1) /\ (n - 1) + 1 = n /\ ~(n - 1 < 1)
      BY <1>2, <2>1, <2>3
    <3>2. rest[n - 1] = x3[n]
      BY <2>1, <3>1
    <3>3. rest # << >> /\ x3 # << >>
      <4>1. Len(rest) # 0 /\ Len(x3) # 0
        BY <1>2, <1>4, <2>1, <2>3 DEF n
      <4>2. Len(<< >>) = 0
        OBVIOUS
      <4> HIDE DEF rest
      <4> QED BY <4>1, <4>2
    <3> HIDE DEF rest
    <3> QED BY <1>1, <1>4, <3>2, <3>3 DEF Window!Latest, n
  <2> QED BY <2>2, <2>3
<1> HIDE DEF rest
<1>6. x5 => x5'
  BY <1>1
<1> QED BY <1>1, <1>4, <1>5, <1>6 DEF Window!WindowInv, Window!ReserveLeavesRoom, T

LEMMA CapsAreNumbers ==
  ASSUME NEW s \in Window!StoredSettings,
         Size \cup {LocalWindow, FallbackWindow, LocalPredict} \subseteq Nat, Lowest \in Nat \ {0}
  PROVE  Window!Window(s).size \in Nat /\ (Window!OutputCap(s) # Unused => Window!OutputCap(s) \in Nat)
<1>1. Window!Info(s) \in Window!Infos
  BY InfoIsInfo
<1>2. Window!UsesApi(s) => s.profile # Unused /\ s.profile.window \in Window!Limits /\ s.profile.output \in Window!Limits
  BY DEF Window!UsesApi, Window!Profiles, Window!StoredSettings
<1>3. Window!Info(s).context \in Window!Limits \cup {LocalWindow} /\ Window!Info(s).output \in Window!Limits
  BY <1>1 DEF Window!Infos
<1>4. \A w \in Nat : Window!AtLeast(w) \in Nat
  BY DEF Window!AtLeast
<1>5. \A w \in Window!Limits \cup {LocalWindow} : w # Unused => w \in Nat
  BY DEF Window!Limits
<1>6. Window!RunsOnApi(s) => Window!ApiWindow(s.profile).size \in Nat
  BY <1>2, <1>4, <1>5 DEF Window!RunsOnApi, Window!ApiWindow
<1>7. Window!Window(s).size \in Nat
  BY <1>3, <1>4, <1>5, <1>6 DEF Window!Window
<1> QED BY <1>2, <1>3, <1>5, <1>7 DEF Window!OutputCap, Window!RunsOnApi

LEMMA ChatStep ==
  ASSUME Window!WindowInv, Window!Chats,
         Size \cup {LocalWindow, FallbackWindow, LocalPredict} \subseteq Nat, Lowest \in Nat \ {0}
  PROVE  Window!WindowInv'
<1>1. x7' = Window!Run(x1) /\ UNCHANGED <<x1, x2, x3, x4, x5>>
  BY DEF Window!Chats
<1>2. Window!ReserveLeavesRoom'
  <2> DEFINE w == Window!Window(x1).size
             c == Window!OutputCap(x1)
  <2>1. x7'.cap = c /\ x7'.window = w /\ x7'.reserve = Window!Reserve(c, w)
    BY <1>1 DEF Window!Run
  <2>2. w \in Nat /\ (c # Unused => c \in Nat)
    BY CapsAreNumbers DEF Window!WindowInv
  <2> HIDE DEF w, c
  <2>3. c # Unused /\ w > Lowest => Window!Reserve(c, w) < w
    BY <2>2 DEF Window!Reserve
  <2> QED BY <2>1, <2>3 DEF Window!ReserveLeavesRoom
<1> QED BY <1>1, <1>2 DEF Window!WindowInv, Window!Latest

LEMMA WindowStep ==
  ASSUME Window!WindowInv, [Window!WindowNext]_(Window!windowVars),
         Size \cup {LocalWindow, FallbackWindow, LocalPredict} \subseteq Nat, Lowest \in Nat \ {0}
  PROVE  Window!WindowInv'
<1>1. CASE UNCHANGED Window!windowVars
  BY <1>1 DEF Window!windowVars, Window!WindowInv, Window!Latest, Window!ReserveLeavesRoom
<1>2. CASE Window!WindowNext
  BY <1>2, StoredStep, ResolveStep, ShowStep, ChatStep DEF Window!WindowNext
<1> QED BY <1>1, <1>2

LEMMA WindowIsTheShown ==
  ASSUME Window!WindowInv, Unused \notin Window!Infos
  PROVE  Window!WindowIsShown
<1>1. Window!ShownIsWhatRuns
  <2> SUFFICES ASSUME Window!Current
               PROVE  /\ Window!Ring.of = "model" => /\ Window!AtLeast(Window!Ring.total) = Window!Window(x1).size
                                                     /\ Window!Ring.source = Window!Window(x1).source
                      /\ Window!ShownEffort = Window!Nearest(x1.effort, Window!Info(x1).modes)
    BY DEF Window!ShownIsWhatRuns
  <2>1. x4 = Window!Info(x1)
    BY DEF Window!Current, Window!WindowInv, Window!Latest
  <2>2. x4 # Unused
    BY <2>1, InfoIsInfo DEF Window!WindowInv
  <2>3. ASSUME Window!Ring.of = "model"
        PROVE  Window!AtLeast(Window!Ring.total) = Window!Window(x1).size /\ Window!Ring.source = Window!Window(x1).source
    <3>1. x4.context # Unused /\ x4.source # "unknown"
      BY <2>3 DEF Window!Ring
    <3>2. Window!Ring.total = x4.context /\ Window!Ring.source = x4.source
      BY <2>2, <3>1 DEF Window!Ring
    <3> QED BY <2>1, <3>1, <3>2 DEF Window!Window
  <2> QED BY <2>1, <2>2, <2>3 DEF Window!ShownEffort
<1>2. Window!NoForeignWindow
  <2> SUFFICES ASSUME x4 # Unused, Window!Ring.of = "report" PROVE x6.ref = x4.ref
    BY DEF Window!NoForeignWindow
  <2>1. x6 # Unused /\ Window!OfThisModel(x6, x4)
    BY DEF Window!Ring
  <2> QED BY <2>1 DEF Window!OfThisModel
<1> QED BY <1>1, <1>2 DEF Window!WindowInv, Window!WindowIsShown

WindowPart == part = "window" => Window!WindowInv

LEMMA WindowKept == WindowPart /\ [Next]_all => WindowPart'
<1>1. part = "window" /\ [Next]_all => [Window!WindowNext]_(Window!windowVars)
  BY DEF Next, all, Window!windowVars, KeepAfter8
<1> QED BY <1>1, PartStays, WindowStep, WindowConstants DEF WindowPart

LEMMA WindowIsAlwaysShown == Spec => [](part = "window" => Window!WindowIsShown)
<1>1. Init => WindowPart
  BY WindowInitially DEF Init, WindowPart
<1>2. WindowPart => (part = "window" => Window!WindowIsShown)
  BY WindowIsTheShown, WindowConstants DEF WindowPart
<1> QED BY <1>1, <1>2, WindowKept, PTL DEF Spec

-----------------------------------------------------------------------------
(* One setting on its way: x1 field, x2 disk, x3 held, x4 shown, x5 used,  *)
(* x6 chosen.                                                              *)

\* A set of numbers with a member has a least one: what stands in for induction.
LEMMA Least ==
  ASSUME NEW T, T \subseteq Nat, T # {}
  PROVE  \E n \in T : \A m \in T : n <= m
<1>1. PICK n \in T : \A m \in T : <<m, n>> \notin OpToRel(<, Nat)
  BY NatLessThanWellFounded, WFMin
<1>2. ASSUME NEW m \in T PROVE n <= m
  <2>1. m \in Nat /\ n \in Nat
    OBVIOUS
  <2>2. ~(m < n)
    BY <1>1, <2>1 DEF OpToRel
  <2> QED BY <2>1, <2>2
<1> QED BY <1>2

\* What the schemas say of a setting that has one number or none.
IsField(f) ==
  /\ f.low \in Int /\ f.high \in Int /\ f.low <= f.high
  /\ \/ f.standard \in f.low..f.high
     \/ f.standard = Unused /\ f.nullable

LEMMA WholeIsAField ==
  ASSUME NEW l \in Int, NEW h \in Int, NEW s \in l..h
  PROVE  IsField(Values!Whole(l, h, s)) /\ IsField(Values!Optional(l, h, s)) /\ IsField(Values!Optional(l, h, Unused))
BY SMT DEF Values!Optional, Values!Whole, IsField

LEMMA HeldIsAField ==
  ASSUME NEW l \in Int, NEW h \in Int, NEW s \in l..h
  PROVE  IsField(Values!AsHeld(Values!Whole(l, h, s))) /\ IsField(Values!AsHeld(Values!Optional(l, h, Unused)))
BY SMT DEF Values!AsHeld, Values!Optional, Values!Whole, IsField

LEMMA FieldsAreFields ==
  ASSUME NEW name \in Values!FieldNames
  PROVE  IsField(Values!Field(name)) /\ name # "overrides"
<1>1. CASE name \in DOMAIN Values!ExecutionFields
  <2>1. /\ IsField(Values!Whole(1, 64, 8)) /\ IsField(Values!Whole(0, 20, 1)) /\ IsField(Values!Whole(2000, 200000, 30000))
        /\ IsField(Values!Whole(1, 5, 2)) /\ IsField(Values!Whole(1, 32, 10)) /\ IsField(Values!Whole(2, 50, 12))
        /\ IsField(Values!Whole(0, 16, 2)) /\ IsField(Values!Optional(4, 1000, Unused)) /\ IsField(Values!Optional(500, 200000, Unused))
        /\ IsField(Values!Optional(256, 200000, 2048))
    BY WholeIsAField, SMT
  <2> QED BY <1>1, <2>1, SMT DEF Values!Field, Values!ExecutionFields
<1>2. CASE name \notin DOMAIN Values!ExecutionFields /\ name \in DOMAIN Values!StorageFields
  <2>1. IsField(Values!AsHeld(Values!Whole(0, 10000, 30))) /\ IsField(Values!AsHeld(Values!Whole(0, 10000, 100)))
    BY HeldIsAField, SMT
  <2>2. Values!Field(name) = Values!StorageFields[name]
    BY <1>2 DEF Values!Field
  <2> QED BY <1>2, <2>1, <2>2, SMT DEF Values!StorageFields
<1>3. CASE name \notin DOMAIN Values!ExecutionFields /\ name \notin DOMAIN Values!StorageFields /\ name \in DOMAIN Values!ProfileFields
  <2>1. /\ IsField(Values!AsHeld(Values!Optional(1024, 2000000, Unused))) /\ IsField(Values!AsHeld(Values!Optional(128, 1000000, Unused)))
        /\ IsField(Values!AsHeld(Values!Whole(5000, 600000, 300000)))
    BY HeldIsAField, SMT
  <2>2. Values!Field(name) = Values!ProfileFields[name]
    BY <1>3 DEF Values!Field
  <2> QED BY <1>3, <2>1, <2>2, SMT DEF Values!ProfileFields
<1> QED BY <1>1, <1>2, <1>3 DEF Values!FieldNames

LEMMA OverrideIsAField == IsField(Values!OverrideField) /\ Values!OverrideField.nullable /\ Values!OverrideField.standard = Unused
BY SMT DEF Values!OverrideField, Values!AsHeld, Values!Optional, IsField

LEMMA BoundIsWithin ==
  ASSUME NEW f, IsField(f), NEW n \in Int
  PROVE  Values!Bound(f, n) \in f.low..f.high /\ (n \in f.low..f.high => Values!Bound(f, n) = n)
BY DEF IsField, Values!Bound

\* What the main process makes of any value is allowed, is None only where None is
\* standard, and is kept by the screen and by a run.
LEMMA MainIsAllowed ==
  ASSUME NEW f, IsField(f), NEW raw \in Values!RawValues, Unused \notin Int
  PROVE  /\ Values!Allowed(f, Values!Main(f, raw))
         /\ Values!Main(f, raw) = Unused => f.standard = Unused
         /\ Values!Main(f, raw) # Unused => Values!Main(f, raw) \in f.low..f.high
<1>1. ASSUME NEW other \in f.low..f.high
      PROVE  Values!ClampInteger(f, raw, other) \in f.low..f.high
  <2>1. CASE raw = Unused \/ raw = AbsentValue \/ raw.text \/ ~raw.whole
    BY <2>1 DEF Values!ClampInteger
  <2>2. CASE ~(raw = Unused \/ raw = AbsentValue \/ raw.text \/ ~raw.whole)
    <3>1. raw.n \in Int
      BY <2>2 DEF Values!RawValues, Values!Numbers
    <3> QED BY <2>2, <3>1, BoundIsWithin DEF Values!ClampInteger
  <2> QED BY <2>1, <2>2
<1>2. f.low \in f.low..f.high /\ f.low \in Int /\ f.high \in Int
  BY DEF IsField
<1>3. Unused \notin f.low..f.high
  BY <1>2
<1>4. CASE f.nullable /\ f.standard = Unused
  <2>1. Values!Main(f, raw) = Unused \/ Values!Main(f, raw) \in f.low..f.high
    BY <1>1, <1>2, <1>4 DEF Values!Main
  <2> QED BY <1>4, <2>1 DEF Values!Allowed
<1>5. CASE ~(f.nullable /\ f.standard = Unused)
  <2>1. f.standard \in f.low..f.high
    BY <1>5 DEF IsField
  <2>2. Values!Main(f, raw) \in f.low..f.high
    BY <1>1, <1>5, <2>1 DEF Values!Main
  <2> QED BY <1>3, <2>2 DEF Values!Allowed
<1> QED BY <1>4, <1>5

LEMMA PlacesKeep ==
  ASSUME NEW f, IsField(f), NEW v, v = Unused => f.standard = Unused /\ f.nullable, v # Unused => v \in f.low..f.high
  PROVE  Values!Screen(f, v) = v /\ Values!Runtime(f, v) = v
<1>1. v # Unused => Values!Bound(f, v) = v
  BY BoundIsWithin DEF IsField
<1> QED BY <1>1 DEF Values!Screen, Values!Runtime

\* A choice the dialog offers is what the main process reads of it.
LEMMA ChoiceIsStored ==
  ASSUME NEW f, IsField(f), NEW v,
         v = Unused => f.standard = Unused /\ f.nullable, v # Unused => v \in f.low..f.high,
         {Unused, AbsentValue} \cap Values!Numbers = {}, Unused \notin Int, AbsentValue \notin Int
  PROVE  Values!Plain(v) \in Values!RawValues /\ Values!Main(f, Values!Plain(v)) = v
<1>1. CASE v = Unused
  BY <1>1 DEF Values!Plain, Values!RawValues, Values!Main
<1>2. CASE v # Unused
  <2> DEFINE raw == Values!Number(v, TRUE, FALSE)
  <2>1. v \in f.low..f.high /\ v \in Int
    BY <1>2 DEF IsField
  <2>2. raw \in Values!Numbers /\ raw.n = v /\ raw.whole = TRUE /\ raw.text = FALSE
    BY <2>1 DEF Values!Number, Values!Numbers
  <2>3. Values!Plain(v) = raw
    BY <1>2, <2>1 DEF Values!Plain
  <2> HIDE DEF raw
  <2>4. raw # Unused /\ raw # AbsentValue
    BY <2>2
  <2>5. \A other : Values!ClampInteger(f, raw, other) = v
    BY <2>1, <2>2, <2>4, BoundIsWithin DEF Values!ClampInteger
  <2> QED BY <2>2, <2>3, <2>4, <2>5 DEF Values!Main, Values!RawValues
<1> QED BY <1>1, <1>2

-----------------------------------------------------------------------------
\* What is kept of a list at I is written k[0], k[1], ...

Keeps(k, list, I, m) ==
  k[0] = << >> /\ \A n \in 1..m : k[n] = IF n \in I THEN Append(k[n - 1], list[n]) ELSE k[n - 1]

\* k[n] is made of members of the list, at places of I, in their order.
KeptWell(kept, list, I, n) ==
  /\ kept \in Seq({list[i] : i \in DOMAIN list})
  /\ \E at \in [1..Len(kept) -> I \cap (1..n)] :
       /\ \A i \in 1..Len(kept) : kept[i] = list[at[i]]
       /\ \A i, j \in 1..Len(kept) : i < j => at[i] < at[j]

LEMMA KeepsExists ==
  ASSUME NEW list, NEW I, NEW l \in Nat
  PROVE  \E k : Keeps(k, list, I, l)
<1> DEFINE Bad == {m \in 0..l : ~\E k : Keeps(k, list, I, m)}
<1>1. ASSUME NEW m \in Bad, \A n \in Bad : m <= n PROVE FALSE
  <2>0. m \in Nat /\ m \in 0..l /\ ~\E k : Keeps(k, list, I, m)
    OBVIOUS
  <2>1. CASE m = 0
    <3>1. Keeps([n \in {0} |-> << >>], list, I, m)
      BY <2>1 DEF Keeps
    <3> QED BY <2>0, <3>1
  <2>2. CASE m # 0
    <3>1. m - 1 \in 0..l /\ m - 1 \in Nat /\ ~(m <= m - 1)
      BY <2>0, <2>2
    <3>2. PICK k : Keeps(k, list, I, m - 1)
      BY <3>1, <1>1
    <3> DEFINE new == IF m \in I THEN Append(k[m - 1], list[m]) ELSE k[m - 1]
               g == [n \in 0..m |-> IF n = m THEN new ELSE k[n]]
    <3>3. g[0] = << >>
      BY <2>0, <2>2, <3>2 DEF Keeps
    <3>4. ASSUME NEW n \in 1..m
          PROVE  g[n] = IF n \in I THEN Append(g[n - 1], list[n]) ELSE g[n - 1]
      <4>1. n \in 0..m /\ n - 1 \in 0..m /\ n - 1 # m
        BY <2>0
      <4>2. g[n - 1] = k[n - 1]
        BY <4>1
      <4>3. CASE n = m
        BY <4>1, <4>2, <4>3
      <4>4. CASE n # m
        <5>1. n \in 1..(m - 1) /\ g[n] = k[n]
          BY <2>0, <4>1, <4>4
        <5> HIDE DEF g
        <5> QED BY <3>2, <4>2, <5>1 DEF Keeps
      <4> QED BY <4>3, <4>4
    <3> HIDE DEF g
    <3>5. Keeps(g, list, I, m)
      BY <3>3, <3>4 DEF Keeps
    <3> QED BY <2>0, <3>5
  <2> QED BY <2>1, <2>2
<1>2. Bad = {}
  <2> SUFFICES ASSUME Bad # {} PROVE FALSE
    OBVIOUS
  <2>1. Bad \subseteq Nat
    OBVIOUS
  <2>2. PICK m \in Bad : \A n \in Bad : m <= n
    BY <2>1, Least
  <2> QED BY <2>2, <1>1
<1>3. l \in 0..l
  OBVIOUS
<1> QED BY <1>2, <1>3

\* The function that Filtered is made of exists, and is one that keeps.
LEMMA FilteredKeeps ==
  ASSUME NEW list, NEW I, Len(list) \in Nat
  PROVE  \E k : Keeps(k, list, I, Len(list)) /\ Values!Filtered(list, I) = k[Len(list)]
<1> DEFINE After(g) == [n \in 0..Len(list) |->
                         IF n = 0 THEN << >>
                         ELSE IF n \in I THEN Append(g[n - 1], list[n]) ELSE g[n - 1]]
           h == CHOOSE g : g = After(g)
<1>1. Values!Filtered(list, I) = h[Len(list)]
  BY DEF Values!Filtered
<1>2. \E g : g = After(g)
  <2>0. PICK k : Keeps(k, list, I, Len(list))
    BY KeepsExists
  <2> DEFINE g == [n \in 0..Len(list) |-> k[n]]
  <2>1. ASSUME NEW n \in 0..Len(list)
        PROVE  k[n] = IF n = 0 THEN << >>
                      ELSE IF n \in I THEN Append(g[n - 1], list[n]) ELSE g[n - 1]
    <3>1. CASE n = 0
      BY <2>0, <3>1 DEF Keeps
    <3>2. CASE n # 0
      <4>1. n \in 1..Len(list) /\ n - 1 \in 0..Len(list)
        BY <3>2
      <4>2. g[n - 1] = k[n - 1]
        BY <4>1
      <4> HIDE DEF g
      <4> QED BY <2>0, <3>2, <4>1, <4>2 DEF Keeps
    <3> QED BY <3>1, <3>2
  <2>2. g = After(g)
    BY <2>1
  <2> QED BY <2>2
<1>3. h = After(h)
  <2> HIDE DEF After
  <2> QED BY <1>2
<1>4. Keeps(h, list, I, Len(list))
  <2>1. h[0] = << >>
    <3>1. 0 \in 0..Len(list)
      OBVIOUS
    <3> HIDE DEF h
    <3> QED BY <1>3, <3>1
  <2>2. ASSUME NEW n \in 1..Len(list)
        PROVE  h[n] = IF n \in I THEN Append(h[n - 1], list[n]) ELSE h[n - 1]
    <3>1. n \in 0..Len(list) /\ n # 0
      OBVIOUS
    <3> HIDE DEF h
    <3> QED BY <1>3, <3>1
  <2> HIDE DEF h
  <2> QED BY <2>1, <2>2 DEF Keeps
<1> HIDE DEF h
<1> QED BY <1>1, <1>4

LEMMA KeptOneMore ==
  ASSUME NEW list, NEW I, NEW n \in Nat \ {0}, n \in DOMAIN list, NEW kept, KeptWell(kept, list, I, n - 1)
  PROVE  KeptWell(IF n \in I THEN Append(kept, list[n]) ELSE kept, list, I, n)
<1> DEFINE S == {list[i] : i \in DOMAIN list}
           l == Len(kept)
<1>1. PICK at \in [1..l -> I \cap (1..(n - 1))] :
        /\ \A i \in 1..l : kept[i] = list[at[i]]
        /\ \A i, j \in 1..l : i < j => at[i] < at[j]
  BY DEF KeptWell
<1>2. kept \in Seq(S) /\ l \in Nat
  BY DEF KeptWell
<1>3. CASE n \notin I
  <2>1. at \in [1..l -> I \cap (1..n)]
    BY <1>1
  <2> HIDE DEF S, l
  <2> QED BY <1>1, <1>2, <1>3, <2>1 DEF KeptWell, S, l
<1>4. CASE n \in I
  <2> DEFINE new == Append(kept, list[n])
             to == [i \in 1..(l + 1) |-> IF i = l + 1 THEN n ELSE at[i]]
  <2>1. /\ new \in Seq(S) /\ Len(new) = l + 1 /\ new[l + 1] = list[n]
        /\ \A i \in 1..l : new[i] = kept[i]
    <3>1. list[n] \in S
      OBVIOUS
    <3> HIDE DEF S
    <3> QED BY <1>2, <3>1
  <2>2. \A i \in 1..l : at[i] \in I /\ at[i] \in Nat /\ at[i] < n /\ at[i] \in 1..n
    BY <1>1
  <2>3. \A i \in 1..(l + 1) : i = l + 1 \/ i \in 1..l
    BY <1>2
  <2>4. to \in [1..(l + 1) -> I \cap (1..n)]
    BY <1>4, <2>2, <2>3
  <2>5. to[l + 1] = n /\ \A i \in 1..l : to[i] = at[i]
    BY <1>2
  <2> HIDE DEF to, new, S, l
  <2>6. \A i \in 1..(l + 1) : new[i] = list[to[i]]
    BY <1>1, <2>1, <2>3, <2>5
  <2>7. \A i, j \in 1..(l + 1) : i < j => to[i] < to[j]
    <3> SUFFICES ASSUME NEW i \in 1..(l + 1), NEW j \in 1..(l + 1), i < j PROVE to[i] < to[j]
      OBVIOUS
    <3>1. i \in 1..l
      BY <1>2
    <3>2. CASE j = l + 1
      BY <2>2, <2>5, <3>1, <3>2
    <3>3. CASE j \in 1..l
      BY <1>1, <2>5, <3>1, <3>3
    <3> QED BY <2>3, <3>2, <3>3
  <2> QED BY <1>4, <2>1, <2>4, <2>6, <2>7 DEF KeptWell, new, S
<1> QED BY <1>3, <1>4

\* Filtered: members of the list, at places of I and in their order; the list
\* itself when I leaves out no place.
LEMMA FilteredIsKept ==
  ASSUME NEW S, NEW list \in Seq(S), NEW I
  PROVE  /\ KeptWell(Values!Filtered(list, I), list, I, Len(list))
         /\ DOMAIN list \subseteq I => Values!Filtered(list, I) = list
<1> DEFINE l == Len(list)
<1>1. PICK k : Keeps(k, list, I, l) /\ Values!Filtered(list, I) = k[l]
  BY FilteredKeeps
<1>2. l \in Nat /\ DOMAIN list = 1..l
  OBVIOUS
<1> DEFINE Good(m) == /\ KeptWell(k[m], list, I, m)
                      /\ DOMAIN list \subseteq I => k[m] = SubSeq(list, 1, m)
           Bad == {m \in 0..l : ~Good(m)}
<1> HIDE DEF l
<1>3. ASSUME NEW m \in Bad, \A n \in Bad : m <= n PROVE FALSE
  <2>0. m \in Nat /\ m \in 0..l /\ ~Good(m)
    <3>1. m \in 0..l /\ ~Good(m)
      BY Zenon
    <3> QED BY <1>2, <3>1
  <2>1. CASE m = 0
    <3>1. k[m] = << >>
      BY <1>1, <2>1 DEF Keeps
    <3>2. KeptWell(<< >>, list, I, 0)
      <4>1. 1..Len(<< >>) = {} /\ << >> \in Seq({list[i] : i \in DOMAIN list})
        OBVIOUS
      <4>2. [i \in {} |-> 0] \in [1..Len(<< >>) -> I \cap (1..0)]
        BY <4>1
      <4> QED BY <4>1, <4>2 DEF KeptWell
    <3>3. SubSeq(list, 1, 0) = << >>
      OBVIOUS
    <3> QED BY <2>0, <2>1, <3>1, <3>2, <3>3
  <2>2. CASE m # 0
    <3>1. m - 1 \in 0..l /\ ~(m <= m - 1) /\ m \in 1..l /\ m \in Nat \ {0} /\ m \in DOMAIN list
      BY <1>2, <2>0, <2>2
    <3>2. Good(m - 1)
      BY <3>1, <1>3
    <3>3. k[m] = IF m \in I THEN Append(k[m - 1], list[m]) ELSE k[m - 1]
      BY <1>1, <3>1 DEF Keeps
    <3>4. KeptWell(k[m], list, I, m)
      BY <3>1, <3>2, <3>3, KeptOneMore
    <3>5. ASSUME DOMAIN list \subseteq I PROVE k[m] = SubSeq(list, 1, m)
      <4>1. k[m] = Append(SubSeq(list, 1, m - 1), list[m])
        BY <3>1, <3>2, <3>3, <3>5
      <4>2. SubSeq(list, 1, m) = Append(SubSeq(list, 1, m - 1), list[m])
        <5> HIDE DEF Good, Bad
        <5> QED BY <3>1 DEF l
      <4> QED BY <4>1, <4>2
    <3> QED BY <2>0, <3>4, <3>5
  <2> QED BY <2>1, <2>2
<1>4. Bad = {}
  <2> SUFFICES ASSUME Bad # {} PROVE FALSE
    OBVIOUS
  <2>1. Bad \subseteq Nat
    BY <1>2
  <2>2. PICK m \in Bad : \A n \in Bad : m <= n
    BY <2>1, Least
  <2> QED BY <2>2, <1>3
<1>5. Good(l)
  BY <1>2, <1>4
<1>6. SubSeq(list, 1, l) = list
  BY DEF l
<1> QED BY <1>1, <1>5, <1>6 DEF l

-----------------------------------------------------------------------------

Distinct(list) ==
  \A i, j \in DOMAIN list : list[i].ref # Blank /\ (list[i].ref = list[j].ref => i = j)

\* A list as the main process holds it.
Settled(list) ==
  /\ list \in Seq([ref : Ref \cup {Blank}, context : Int \cup {Unused}])
  /\ Distinct(list)
  /\ \A i \in DOMAIN list : Values!Allowed(Values!OverrideField, list[i].context)

LEMMA FilteredIsPart ==
  ASSUME NEW S, NEW list \in Seq(S), NEW I \in SUBSET (DOMAIN list)
  PROVE  /\ Values!Filtered(list, I) \in Seq(S)
         /\ \E at \in [DOMAIN Values!Filtered(list, I) -> I] :
              /\ \A i \in DOMAIN Values!Filtered(list, I) : Values!Filtered(list, I)[i] = list[at[i]]
              /\ \A i, j \in DOMAIN Values!Filtered(list, I) : at[i] = at[j] => i = j
         /\ I = DOMAIN list => Values!Filtered(list, I) = list
<1> DEFINE F == Values!Filtered(list, I)
           T == {list[i] : i \in DOMAIN list}
<1>1. KeptWell(F, list, I, Len(list)) /\ (DOMAIN list \subseteq I => F = list)
  BY FilteredIsKept
<1>2. T \subseteq S
  OBVIOUS
<1> HIDE DEF F
<1>3. PICK at \in [1..Len(F) -> I \cap (1..Len(list))] :
        /\ \A i \in 1..Len(F) : F[i] = list[at[i]]
        /\ \A i, j \in 1..Len(F) : i < j => at[i] < at[j]
  BY <1>1 DEF KeptWell
<1>4. F \in Seq(T)
  BY <1>1 DEF KeptWell
<1> HIDE DEF T
<1>5. F \in Seq(S) /\ DOMAIN F = 1..Len(F) /\ Len(F) \in Nat
  BY <1>2, <1>4
<1>6. \A i, j \in 1..Len(F) : at[i] = at[j] => i = j
  <2> SUFFICES ASSUME NEW i \in 1..Len(F), NEW j \in 1..Len(F), at[i] = at[j] PROVE i = j
    OBVIOUS
  <2>1. at[i] \in Int
    BY <1>3
  <2>2. ~(i < j) /\ ~(j < i)
    BY <1>3, <2>1
  <2> QED BY <1>5, <2>2
<1>7. at \in [DOMAIN F -> I]
  BY <1>3, <1>5
<1>8. I = DOMAIN list => F = list
  BY <1>1
<1> QED BY <1>3, <1>5, <1>6, <1>7, <1>8 DEF F

LEMMA FirstOfEachIsDistinct ==
  ASSUME NEW S, NEW list \in Seq(S)
  PROVE  /\ Values!FirstOfEach(list) \in Seq(S) /\ Distinct(Values!FirstOfEach(list))
         /\ Distinct(list) => Values!FirstOfEach(list) = list
<1> DEFINE I == {i \in DOMAIN list : list[i].ref # Blank
                                     /\ \A j \in 1..(i - 1) : list[j].ref # list[i].ref}
           F == Values!Filtered(list, I)
<1>1. Values!FirstOfEach(list) = F
  BY DEF Values!FirstOfEach
<1>2. I \in SUBSET (DOMAIN list) /\ DOMAIN list = 1..Len(list) /\ Len(list) \in Nat
  OBVIOUS
<1>3. \A i \in I : list[i].ref # Blank
  OBVIOUS
<1>4. \A i, j \in I : list[i].ref = list[j].ref => i = j
  <2> SUFFICES ASSUME NEW i \in I, NEW j \in I, list[i].ref = list[j].ref PROVE i = j
    OBVIOUS
  <2>1. i \in 1..Len(list) /\ j \in 1..Len(list)
    BY <1>2
  <2>2. ~(i \in 1..(j - 1)) /\ ~(j \in 1..(i - 1))
    OBVIOUS
  <2> HIDE DEF I
  <2> QED BY <1>2, <2>1, <2>2
<1>5. Distinct(list) => I = DOMAIN list
  <2> SUFFICES ASSUME Distinct(list), NEW i \in DOMAIN list, NEW j \in 1..(i - 1)
               PROVE  list[j].ref # list[i].ref
    BY DEF Distinct
  <2>1. j \in DOMAIN list /\ j # i
    BY <1>2
  <2> QED BY <2>1 DEF Distinct
<1> HIDE DEF I
<1>6. F \in Seq(S) /\ (I = DOMAIN list => F = list)
  BY <1>2, FilteredIsPart
<1>7. PICK at \in [DOMAIN F -> I] : /\ \A i \in DOMAIN F : F[i] = list[at[i]]
                                    /\ \A i, j \in DOMAIN F : at[i] = at[j] => i = j
  BY <1>2, FilteredIsPart
<1> HIDE DEF F
<1>8. Distinct(F)
  <2> SUFFICES ASSUME NEW i \in DOMAIN F, NEW j \in DOMAIN F
               PROVE  F[i].ref # Blank /\ (F[i].ref = F[j].ref => i = j)
    BY DEF Distinct
  <2>1. at[i] \in I /\ at[j] \in I /\ F[i] = list[at[i]] /\ F[j] = list[at[j]]
    BY <1>7
  <2> QED BY <1>3, <1>4, <1>7, <2>1
<1> QED BY <1>1, <1>5, <1>6, <1>8

LEMMA WithoutIsDistinct ==
  ASSUME NEW S, NEW list \in Seq(S), NEW refs, Distinct(list)
  PROVE  /\ Values!Without(list, refs) \in Seq(S) /\ Distinct(Values!Without(list, refs))
         /\ \A i \in DOMAIN Values!Without(list, refs) :
              /\ Values!Without(list, refs)[i].ref \notin refs
              /\ \E j \in DOMAIN list : Values!Without(list, refs)[i] = list[j]
<1> DEFINE I == {i \in DOMAIN list : list[i].ref \notin refs}
           F == Values!Filtered(list, I)
<1>1. Values!Without(list, refs) = F
  BY DEF Values!Without
<1>2. I \in SUBSET (DOMAIN list) /\ \A i \in I : list[i].ref \notin refs
  OBVIOUS
<1> HIDE DEF I
<1>3. F \in Seq(S)
  BY <1>2, FilteredIsPart
<1>4. PICK at \in [DOMAIN F -> I] : /\ \A i \in DOMAIN F : F[i] = list[at[i]]
                                    /\ \A i, j \in DOMAIN F : at[i] = at[j] => i = j
  BY <1>2, FilteredIsPart
<1> HIDE DEF F
<1>5. \A i \in DOMAIN F : at[i] \in I /\ at[i] \in DOMAIN list /\ F[i] = list[at[i]]
  BY <1>2, <1>4
<1>6. Distinct(F)
  BY <1>4, <1>5 DEF Distinct
<1>7. \A i \in DOMAIN F : F[i].ref \notin refs /\ \E j \in DOMAIN list : F[i] = list[j]
  BY <1>2, <1>5
<1> QED BY <1>1, <1>3, <1>6, <1>7

Override(C) == [ref : Ref \cup {Blank}, context : C]

\* The main process makes a settled list of any list in the file.
LEMMA MainListIsSettled ==
  ASSUME NEW list \in Seq(Override(Values!RawValues)), Unused \notin Int
  PROVE  Settled(Values!MainList(list))
<1> DEFINE F == Values!FirstOfEach(list)
           G(o) == [o EXCEPT !.context = Values!Main(Values!OverrideField, @)]
           M == [i \in DOMAIN F |-> G(F[i])]
<1>1. Values!MainList(list) = M
  BY DEF Values!MainList, Values!Each
<1>2. F \in Seq(Override(Values!RawValues)) /\ Distinct(F)
  BY FirstOfEachIsDistinct
<1>3. ASSUME NEW o \in Override(Values!RawValues)
      PROVE  /\ G(o) \in Override(Int \cup {Unused}) /\ G(o).ref = o.ref
             /\ Values!Allowed(Values!OverrideField, G(o).context)
  <2> DEFINE c == Values!Main(Values!OverrideField, o.context)
  <2>1. o.context \in Values!RawValues /\ o.ref \in Ref \cup {Blank}
    BY DEF Override
  <2>2. Values!Allowed(Values!OverrideField, c) /\ (c # Unused => c \in Values!OverrideField.low..Values!OverrideField.high)
    BY <2>1, OverrideIsAField, MainIsAllowed
  <2>3. c \in Int \cup {Unused}
    BY <2>2, OverrideIsAField DEF IsField
  <2>4. G(o) = [ref |-> o.ref, context |-> c]
    BY DEF Override
  <2> HIDE DEF c, G
  <2> QED BY <2>1, <2>2, <2>3, <2>4 DEF Override
<1> HIDE DEF F, G
<1>4. M \in Seq(Override(Int \cup {Unused})) /\ DOMAIN M = DOMAIN F
  <2>1. DOMAIN F = 1..Len(F) /\ Len(F) \in Nat /\ \A i \in 1..Len(F) : F[i] \in Override(Values!RawValues)
    BY <1>2
  <2> DEFINE T == Override(Int \cup {Unused})
  <2>2. M \in [1..Len(F) -> T]
    BY <1>3, <2>1
  <2> HIDE DEF M, T
  <2>3. M \in Seq(T) /\ DOMAIN M = 1..Len(F)
    BY <2>1, <2>2
  <2> QED BY <2>1, <2>3 DEF T
<1>5. \A i \in DOMAIN F : M[i].ref = F[i].ref /\ Values!Allowed(Values!OverrideField, M[i].context)
  <2> SUFFICES ASSUME NEW i \in DOMAIN F
               PROVE  M[i].ref = F[i].ref /\ Values!Allowed(Values!OverrideField, M[i].context)
    OBVIOUS
  <2>1. F[i] \in Override(Values!RawValues)
    BY <1>2
  <2> QED BY <1>3, <2>1
<1> HIDE DEF M
<1>6. Distinct(M)
  BY <1>2, <1>4, <1>5 DEF Distinct
<1> QED BY <1>1, <1>4, <1>5, <1>6 DEF Settled, Override

LEMMA SettledMember ==
  ASSUME NEW list, Settled(list), NEW i \in DOMAIN list
  PROVE  /\ list[i] \in [ref : Ref \cup {Blank}, context : Int \cup {Unused}]
         /\ Values!Allowed(Values!OverrideField, list[i].context)
<1> DEFINE S == [ref : Ref \cup {Blank}, context : Int \cup {Unused}]
<1>1. list \in Seq(S) /\ Values!Allowed(Values!OverrideField, list[i].context)
  BY DEF Settled
<1> HIDE DEF S
<1>2. list[i] \in S
  BY <1>1
<1> QED BY <1>1, <1>2 DEF S

\* The screen shows a settled list as it is.
LEMMA ScreenKeeps ==
  ASSUME NEW list, Settled(list)
  PROVE  Values!ScreenList(list) = list
<1> DEFINE G(o) == [o EXCEPT !.context = IF @ = Unused THEN Unused ELSE Values!Bound(Values!OverrideField, @)]
<1>1. Values!FirstOfEach(list) = list
  BY FirstOfEachIsDistinct DEF Settled
<1>2. Values!ScreenList(list) = [i \in DOMAIN list |-> G(list[i])]
  BY <1>1 DEF Values!ScreenList, Values!Each
<1>3. \A i \in DOMAIN list : G(list[i]) = list[i]
  <2> SUFFICES ASSUME NEW i \in DOMAIN list PROVE G(list[i]) = list[i]
    OBVIOUS
  <2> DEFINE o == list[i]
             c == o.context
  <2>1. o \in [ref : Ref \cup {Blank}, context : Int \cup {Unused}] /\ Values!Allowed(Values!OverrideField, c)
    BY SettledMember
  <2> HIDE DEF o
  <2>2. (IF c = Unused THEN Unused ELSE Values!Bound(Values!OverrideField, c)) = c
    <3>1. CASE c = Unused
      BY <3>1
    <3>2. CASE c # Unused
      <4>1. c \in Values!OverrideField.low..Values!OverrideField.high /\ c \in Int
        BY <2>1, <3>2 DEF Values!Allowed
      <4> QED BY <3>2, <4>1, BoundIsWithin, OverrideIsAField
    <3> QED BY <3>1, <3>2
  <2>3. o = [ref |-> o.ref, context |-> c]
    BY <2>1
  <2>4. G(o) = [ref |-> o.ref, context |-> IF c = Unused THEN Unused ELSE Values!Bound(Values!OverrideField, c)]
    BY <2>3
  <2>5. G(o) = o
    BY <2>2, <2>3, <2>4
  <2> QED BY <2>5 DEF o
<1>4. list = [i \in DOMAIN list |-> list[i]]
  BY DEF Settled
<1> HIDE DEF G
<1> QED BY <1>2, <1>3, <1>4

\* A settled list is stored so that the main process reads it back.
LEMMA ListIsStored ==
  ASSUME NEW list, Settled(list),
         {Unused, AbsentValue} \cap Values!Numbers = {}, Unused \notin Int, AbsentValue \notin Int
  PROVE  LET stored == Values!Each(Values!FirstOfEach(list), Values!Plain)
         IN stored \in Seq(Override(Values!RawValues)) /\ Values!MainList(stored) = list
<1> DEFINE G(o) == [o EXCEPT !.context = Values!Plain(@)]
           D == [i \in DOMAIN list |-> G(list[i])]
           H(o) == [o EXCEPT !.context = Values!Main(Values!OverrideField, @)]
<1>1. Values!FirstOfEach(list) = list
  BY FirstOfEachIsDistinct DEF Settled
<1>2. Values!Each(Values!FirstOfEach(list), Values!Plain) = D
  BY <1>1 DEF Values!Each
<1>3. ASSUME NEW i \in DOMAIN list
      PROVE  G(list[i]) \in Override(Values!RawValues) /\ G(list[i]).ref = list[i].ref /\ H(G(list[i])) = list[i]
  <2> DEFINE o == list[i]
             c == o.context
  <2>1. o \in [ref : Ref \cup {Blank}, context : Int \cup {Unused}] /\ Values!Allowed(Values!OverrideField, c)
    BY SettledMember
  <2> HIDE DEF o
  <2>2. Values!Plain(c) \in Values!RawValues /\ Values!Main(Values!OverrideField, Values!Plain(c)) = c
    BY <2>1, OverrideIsAField, ChoiceIsStored DEF Values!Allowed
  <2>3. o = [ref |-> o.ref, context |-> c]
    BY <2>1
  <2>4. G(o) = [ref |-> o.ref, context |-> Values!Plain(c)]
    BY <2>3
  <2>5. H(G(o)) = o
    BY <2>2, <2>3, <2>4
  <2> HIDE DEF G, H
  <2>6. G(o) \in Override(Values!RawValues) /\ G(o).ref = o.ref
    BY <2>1, <2>2, <2>4 DEF Override
  <2> QED BY <2>5, <2>6 DEF o
<1> HIDE DEF G, H
<1>4. DOMAIN list = 1..Len(list) /\ Len(list) \in Nat
  BY DEF Settled
<1>5. D \in Seq(Override(Values!RawValues)) /\ DOMAIN D = DOMAIN list
  <2>1. D \in [1..Len(list) -> Override(Values!RawValues)]
    BY <1>3, <1>4
  <2> HIDE DEF D
  <2> QED BY <1>4, <2>1
<1>6. Distinct(D)
  <2>1. \A i \in DOMAIN list : D[i].ref = list[i].ref
    BY <1>3
  <2> HIDE DEF D
  <2> QED BY <1>5, <2>1 DEF Settled, Distinct
<1>7. \A i \in DOMAIN D : H(D[i]) = list[i]
  BY <1>3
<1> HIDE DEF D
<1>8. Values!FirstOfEach(D) = D
  BY <1>5, <1>6, FirstOfEachIsDistinct
<1>9. Values!MainList(D) = [i \in DOMAIN D |-> H(D[i])]
  BY <1>8 DEF Values!MainList, Values!Each, H
<1>10. list = [i \in DOMAIN list |-> list[i]]
  BY DEF Settled
<1>11. Values!MainList(D) = list
  BY <1>5, <1>7, <1>9, <1>10
<1> QED BY <1>2, <1>5, <1>11

\* A patch of a settled list is settled.
LEMMA PatchIsSettled ==
  ASSUME NEW list, Settled(list), NEW v \in Values!Patches(list), Blank \notin Ref
  PROVE  Settled(v)
<1> DEFINE S == [ref : Ref \cup {Blank}, context : Int \cup {Unused}]
<1>1. ASSUME NEW refs
      PROVE  /\ Settled(Values!Without(list, refs))
             /\ \A i \in DOMAIN Values!Without(list, refs) : Values!Without(list, refs)[i].ref \notin refs
  BY WithoutIsDistinct DEF Settled
<1>2. CASE \E from \in Ref : v = Values!Cleared(list, from)
  BY <1>1, <1>2 DEF Values!Cleared
<1>3. CASE \E from \in Ref, o \in [ref : Ref, context : {Unused, 1024, 4096}] : v = Values!Edited(list, from, o)
  <2>1. PICK from \in Ref, o \in [ref : Ref, context : {Unused, 1024, 4096}] : v = Values!Edited(list, from, o)
    BY <1>3
  <2> DEFINE w == Values!Without(list, {from, o.ref})
  <2>2. Settled(w) /\ \A i \in DOMAIN w : w[i].ref # o.ref
    BY <1>1
  <2>3. v = Append(w, o)
    BY <2>1 DEF Values!Edited
  <2>4. o \in S /\ o.ref # Blank
    BY SMT
  <2>5. Values!Allowed(Values!OverrideField, o.context)
    BY SMT DEF Values!Allowed, Values!OverrideField, Values!AsHeld, Values!Optional
  <2> HIDE DEF w
  <2>6. w \in Seq(S)
    BY <2>2 DEF Settled
  <2> HIDE DEF S
  <2>7. /\ v \in Seq(S) /\ DOMAIN v = 1..(Len(w) + 1) /\ v[Len(w) + 1] = o
        /\ \A i \in 1..Len(w) : v[i] = w[i]
        /\ DOMAIN w = 1..Len(w) /\ Len(w) \in Nat
    BY <2>3, <2>4, <2>6
  <2>8. \A i \in DOMAIN v : i = Len(w) + 1 \/ i \in DOMAIN w
    BY <2>7
  <2>9. Distinct(v)
    BY <2>2, <2>4, <2>7, <2>8 DEF Distinct, Settled
  <2>10. \A i \in DOMAIN v : Values!Allowed(Values!OverrideField, v[i].context)
    BY <2>2, <2>5, <2>7, <2>8 DEF Settled
  <2> QED BY <2>7, <2>9, <2>10 DEF Settled, S
<1> QED BY <1>2, <1>3 DEF Values!Patches

-----------------------------------------------------------------------------

LEMMA ValueInitially ==
  ASSUME Values!ValueInit
  PROVE  Values!ValueInv
<1>1. CASE x1 \in Values!FieldNames /\ x2 \in Values!Raws(Values!Field(x1))
  <2>1. IsField(Values!Field(x1)) /\ ~Values!Listed
    BY <1>1, FieldsAreFields DEF Values!Listed
  <2>2. x2 \in Values!RawValues
    BY <1>1, <2>1 DEF Values!Raws, Values!Edges, Values!Number, Values!RawValues, Values!Numbers, IsField
  <2> QED BY <1>1, <2>1, <2>2 DEF Values!ValueInit, Values!ValueInv
<1>2. CASE x1 = "overrides" /\ x2 \in Values!RawLists
  <2>1. Values!RawOverrides \subseteq Override(Values!RawValues)
    <3> DEFINE C == {AbsentValue, Values!Number(4096, TRUE, TRUE), Values!Number(1, TRUE, FALSE), Values!Number(4096, TRUE, FALSE)}
    <3>1. C \subseteq Values!RawValues
      BY SMT DEF Values!RawValues, Values!Numbers, Values!Number
    <3>2. Values!RawOverrides = [ref : Ref \cup {Blank}, context : C]
      BY ZenonT(20) DEF Values!RawOverrides
    <3> HIDE DEF C
    <3> QED BY <3>1, <3>2 DEF Override
  <2>2. PICK n \in 0..MaxList : x2 \in [1..n -> Values!RawOverrides]
    BY <1>2 DEF Values!RawLists
  <2>3. n \in Nat
    BY <2>2
  <2> DEFINE S == Override(Values!RawValues)
  <2> HIDE DEF S
  <2>4. x2 \in [1..n -> S]
    BY <2>1, <2>2 DEF S
  <2>5. x2 \in Seq(S)
    BY <2>3, <2>4
  <2> QED BY <1>2, <2>5 DEF Values!ValueInit, Values!ValueInv, Values!Listed, S, Override
<1> QED BY <1>1, <1>2 DEF Values!ValueInit

\* What the main process makes of the file is what every place keeps of it.
Agreed(v) ==
  IF Values!Listed THEN Settled(v) /\ Values!ScreenList(v) = v
  ELSE /\ Values!Allowed(Values!Field(x1), v) /\ (v = Unused => Values!Field(x1).standard = Unused)
       /\ Values!Screen(Values!Field(x1), v) = v /\ Values!Runtime(Values!Field(x1), v) = v

LEMMA MainAgrees ==
  ASSUME Values!ValueInv, Unused \notin Int
  PROVE  Agreed(Values!MainValue)
<1>1. CASE Values!Listed
  <2>1. x2 \in Seq(Override(Values!RawValues))
    BY <1>1 DEF Values!ValueInv, Override
  <2>2. Settled(Values!MainList(x2))
    BY <2>1, MainListIsSettled
  <2> QED BY <1>1, <2>2, ScreenKeeps DEF Agreed, Values!MainValue
<1>2. CASE ~Values!Listed
  <2> DEFINE f == Values!Field(x1)
             v == Values!Main(f, x2)
  <2>1. IsField(f) /\ x2 \in Values!RawValues
    BY <1>2, FieldsAreFields DEF Values!ValueInv
  <2> HIDE DEF f
  <2>2. Values!Allowed(f, v) /\ (v = Unused => f.standard = Unused) /\ (v # Unused => v \in f.low..f.high)
    BY <2>1, MainIsAllowed
  <2>3. v = Unused => f.nullable
    BY <2>2 DEF Values!Allowed
  <2> HIDE DEF v
  <2>4. Values!Screen(f, v) = v /\ Values!Runtime(f, v) = v
    BY <2>1, <2>2, <2>3, PlacesKeep
  <2> QED BY <1>2, <2>2, <2>4 DEF Agreed, Values!MainValue, f, v
<1> QED BY <1>1, <1>2

LEMMA ChooseStep ==
  ASSUME Values!ValueInv, Values!Choose, {Unused, AbsentValue} \cap Values!Numbers = {}, Unused \notin Int, AbsentValue \notin Int,
         Blank \notin Ref
  PROVE  Values!ValueInv'
<1>1. /\ x4 = Values!MainValue /\ x3' = AbsentValue /\ x4' = AbsentValue /\ x5' = AbsentValue /\ x1' = x1
      /\ Agreed(Values!MainValue)
  BY MainAgrees DEF Values!Choose, Values!ValueInv
<1>2. Values!Listed' = Values!Listed /\ Values!Field(x1)' = Values!Field(x1)
  BY <1>1 DEF Values!Listed, Values!Field, Values!ExecutionFields, Values!StorageFields, Values!ProfileFields
<1>3. CASE Values!Listed
  <2>1. PICK v \in Values!Patches(x4) : x6' = v /\ x2' = Values!Stored(v)
    BY <1>3 DEF Values!Choose
  <2>2. Settled(v)
    BY <1>1, <1>3, <2>1, PatchIsSettled DEF Agreed
  <2>3. x2' = Values!Each(Values!FirstOfEach(v), Values!Plain)
    BY <1>3, <2>1 DEF Values!Stored
  <2>4. x2' \in Seq(Override(Values!RawValues)) /\ Values!MainList(x2') = v
    BY <2>2, <2>3, ListIsStored
  <2>5. Values!MainValue' = v
    BY <1>2, <1>3, <2>4 DEF Values!MainValue
  <2> QED BY <1>1, <1>2, <1>3, <2>1, <2>4, <2>5 DEF Values!ValueInv, Override
<1>4. CASE ~Values!Listed
  <2> DEFINE f == Values!Field(x1)
  <2>1. PICK v \in Values!Selectable(f) : x6' = v /\ x2' = Values!Stored(v)
    BY <1>4 DEF Values!Choose
  <2>2. IsField(f) /\ x1 \in Values!FieldNames
    BY <1>4, FieldsAreFields DEF Values!ValueInv
  <2>3. x2' = Values!Plain(Values!Main(f, Values!Plain(v)))
    BY <1>4, <2>1 DEF Values!Stored
  <2>4. Values!MainValue' = Values!Main(f, x2')
    BY <1>2, <1>4 DEF Values!MainValue
  <2> HIDE DEF f
  <2>5. (v = Unused => f.standard = Unused /\ f.nullable) /\ (v # Unused => v \in f.low..f.high)
    BY <2>1 DEF Values!Selectable, Values!Allowed
  <2>6. Values!Plain(v) \in Values!RawValues /\ Values!Main(f, Values!Plain(v)) = v
    BY <2>2, <2>5, ChoiceIsStored
  <2>7. x2' \in Values!RawValues /\ Values!MainValue' = v
    BY <2>3, <2>4, <2>6
  <2> QED BY <1>1, <1>2, <1>4, <2>1, <2>2, <2>7 DEF Values!ValueInv
<1> QED BY <1>3, <1>4

LEMMA ValueStep ==
  ASSUME Values!ValueInv, [Values!ValueNext]_(Values!valueVars), {Unused, AbsentValue} \cap Values!Numbers = {},
         Unused \notin Int, AbsentValue \notin Int, Blank \notin Ref
  PROVE  Values!ValueInv'
<1>1. Agreed(Values!MainValue)
  BY MainAgrees
<1>2. ASSUME x1' = x1, x2' = x2 PROVE Values!MainValue' = Values!MainValue /\ Values!Listed' = Values!Listed
  BY <1>2 DEF Values!MainValue, Values!Listed
<1>3. CASE Values!Read
  BY <1>2, <1>3 DEF Values!Read, Values!ValueInv
<1>4. CASE Values!Show
  <2>1. x4' = Values!MainValue
    BY <1>1, <1>4 DEF Values!Show, Values!ValueInv, Agreed, Values!MainValue
  <2> QED BY <1>2, <1>4, <2>1 DEF Values!Show, Values!ValueInv
<1>5. CASE Values!Use
  <2>1. x5' = Values!MainValue
    BY <1>1, <1>5 DEF Values!Use, Values!ValueInv, Agreed, Values!MainValue
  <2> QED BY <1>2, <1>5, <2>1 DEF Values!Use, Values!ValueInv
<1>6. CASE Values!Choose
  BY <1>6, ChooseStep
<1>7. CASE UNCHANGED Values!valueVars
  BY <1>2, <1>7 DEF Values!valueVars, Values!ValueInv
<1> QED BY <1>3, <1>4, <1>5, <1>6, <1>7 DEF Values!ValueNext

LEMMA ValuesAreAgreed ==
  ASSUME Values!ValueInv, Unused \notin Int
  PROVE  Values!ValuesAgree
<1>1. Agreed(Values!MainValue) /\ {x3, x4, x5} \subseteq {AbsentValue, Values!MainValue}
      /\ x6 \in {AbsentValue, Values!MainValue}
  BY MainAgrees DEF Values!ValueInv
<1>2. Values!UsedIsAllowed
  BY <1>1 DEF Values!UsedIsAllowed, Agreed, Settled
<1>3. Values!ShownIsUsed
  BY <1>1 DEF Values!ShownIsUsed
<1>4. Values!ChoiceIsKept
  BY <1>1 DEF Values!ChoiceIsKept
<1>5. Values!OneOverrideEach
  BY <1>1 DEF Values!OneOverrideEach, Agreed, Settled, Distinct
<1> QED BY <1>2, <1>3, <1>4, <1>5 DEF Values!ValuesAgree

ValuesPart == part = "values" => Values!ValueInv

LEMMA ValuesKept == ValuesPart /\ [Next]_all => ValuesPart'
<1>1. part = "values" /\ [Next]_all => [Values!ValueNext]_(Values!valueVars)
  BY DEF Next, all, Values!valueVars, KeepAfter6
<1>2. /\ {Unused, AbsentValue} \cap Values!Numbers = {} /\ Unused \notin Int /\ AbsentValue \notin Int
      /\ Blank \notin Ref
  BY ValueConstants
<1> QED BY <1>1, <1>2, PartStays, ValueStep DEF ValuesPart

\* What the screen shows of the model and of every setting is what the next run
\* works with, within the limits of the schema, and a choice survives the store
\* (the model catalog, App and the three clamps of a setting).
THEOREM ShownAlwaysRuns == Spec => []ShownIsWhatRuns
<1>1. Init => ValuesPart
  BY ValueInitially DEF Init, ValuesPart
<1>2. ValuesPart => (part = "values" => Values!ValuesAgree)
  BY ValuesAreAgreed, ValueConstants DEF ValuesPart
<1>3. (part = "window" => Window!WindowIsShown) /\ (part = "values" => Values!ValuesAgree)
        => ShownIsWhatRuns
  BY DEF ShownIsWhatRuns
<1> QED BY <1>1, <1>2, <1>3, ValuesKept, WindowIsAlwaysShown, PTL DEF Spec
=============================================================================
