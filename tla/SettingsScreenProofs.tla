-------------------------- MODULE SettingsScreenProofs --------------------------
(***************************************************************************)
(* Proofs about SettingsScreen, for any fields, values typed, PATCHes of   *)
(* other devices and number of saves in flight: the types, what a served   *)
(* save shows, what a step may do to the stored row and to what was typed. *)
(***************************************************************************)
EXTENDS SettingsScreen, SequenceFacts

-----------------------------------------------------------------------------
(* Types *)

SettingsRows == [AlertParams -> Int \cup {Null}]
Inputs == Int \cup {Null, BadNumber}
Forms == [Params -> Inputs]
Patches == UNION {[P -> Inputs] : P \in SUBSET Params}
Fetches == [stage : {"none", "sent", "served"}, reply : SettingsRows \cup {Null}]
Saves == [stage : {"sent", "served"}, own : BOOLEAN, body : Patches,
          reply : SettingsRows \cup {Null}]

(* What makes SavedShowsAsTyped inductive: the row that answers a body has *)
(* the body's values.                                                      *)
Stored(s) ==
    /\ s.body # <<>>
    /\ s.stage = "served" <=> s.reply # Null
    /\ s.stage = "served" =>
          \A p \in DOMAIN s.body : s.body[p] # BadNumber /\ s.reply[p] = s.body[p]

OneOwn(list) == \A i, j \in DOMAIN list : list[i].own /\ list[j].own => i = j

(* The types of the requests, and then of the rest.                        *)
SavesTyped ==
    /\ saves \in Seq(Saves) /\ Len(saves) <= MaxSaves
    /\ \A i \in DOMAIN saves : Stored(saves[i]) /\ (saves[i].own => mounted)
    /\ OneOwn(saves)
Typing ==
    /\ settings \in SettingsRows \cup {Null} /\ data \in SettingsRows \cup {Null}
    /\ failed \in BOOLEAN /\ mounted \in BOOLEAN
    /\ fetch \in Fetches /\ (fetch.stage = "served" <=> fetch.reply # Null)
    /\ edited \in Forms \cup {Null} /\ (edited # Null => mounted)
    /\ edited # Null => \A p \in DOMAIN seen : p \in Params /\ edited[p] = seen[p]
    /\ edited = Null => seen = <<>>

(* Rows and forms are values of their own. *)
LEMMA NotNull ==
    Null \notin SettingsRows /\ Null \notin Forms
<1>1. ASSUME NEW f \in SettingsRows
      PROVE  f \in [AlertParams -> Int \cup {Null, BadNumber}]
  BY DEF SettingsRows
<1> QED
  BY <1>1, NumbersAssumption, ParamsAssumption DEF Forms, Inputs

(* What a served PATCH leaves in the row. *)
LEMMA UpdateTyped ==
    ASSUME NEW row \in SettingsRows \cup {Null}, NEW body,
           \A p \in AlertParams \cap DOMAIN body : body[p] \in Int \cup {Null}
    PROVE  UpdateUserSettings(row, body) \in SettingsRows
BY DEF UpdateUserSettings, EnsureUserSettings, SettingsRows

(* What a field shows of a value. *)
LEMMA ShownIs ==
    ASSUME NEW p, NEW x \in Int \cup {Null}
    PROVE  /\ Shown(p, x) \in Int \cup {Null}
           /\ x = Null \/ p = "cooldown_hours" => Shown(p, x) = x
           /\ x # Null => Shown(p, x) \in Int /\ Shown(p, x) - x \in -5 .. 5
           /\ x # Null /\ x % 10 = 0 => Shown(p, x) = x
<1>1. CASE x = Null \/ p = "cooldown_hours"
  BY <1>1, NumbersAssumption DEF Shown
<1>2. CASE x # Null /\ p # "cooldown_hours"
  <2>1. x \in Int /\ Shown(p, x) = 10 * Percent(x)
    BY <1>2 DEF Shown
  <2>2. CASE x % 10 = 5 /\ x \in FallsShort
    BY <1>2, <2>1, <2>2 DEF Percent
  <2>3. CASE ~(x % 10 = 5 /\ x \in FallsShort)
    <3>1. Percent(x) = (x + 5) \div 10
      BY <2>3 DEF Percent
    <3> QED
      BY <1>2, <2>1, <3>1
  <2> QED
    BY <2>2, <2>3
<1> QED
  BY <1>1, <1>2

(* A value that is shown is shown as it is. *)
LEMMA ShownAgain ==
    ASSUME NEW p, NEW x \in Int \cup {Null}
    PROVE  Shown(p, Shown(p, x)) = Shown(p, x)
<1>1. CASE x = Null \/ p = "cooldown_hours"
  BY <1>1 DEF Shown
<1>2. CASE x # Null /\ p # "cooldown_hours"
  <2> DEFINE y == Shown(p, x)
  <2>1. y = 10 * Percent(x) /\ y \in Int
    BY <1>2, ShownIs DEF Shown
  <2>2. Percent(x) \in Int
    BY <1>2 DEF Percent
  <2>3. y % 10 = 0
    <3> HIDE DEF y
    <3> QED
      BY <2>1, <2>2
  <2>4. y # Null
    BY <2>1, NumbersAssumption
  <2> HIDE DEF y
  <2>5. Shown(p, y) = y
    BY <2>1, <2>3, <2>4, ShownIs
  <2> QED
    BY <2>5 DEF y
<1> QED
  BY <1>1, <1>2

(* What the form shows of a row, and what it sends. *)
LEMMA ShownTyped ==
    ASSUME Typing, Usable
    PROVE  original \in Forms /\ values \in Forms
<1>1. ASSUME NEW p \in Params
      PROVE  Shown(p, data[p]) \in Int \cup {Null}
  <2>1. data[p] \in Int \cup {Null}
    BY ParamsAssumption DEF Typing, Usable, SettingsRows
  <2> QED
    BY <2>1, ShownIs
<1>2. original \in Forms
  BY <1>1 DEF original, fromSettings, Forms, Inputs
<1> QED
  BY <1>2 DEF values, Typing

LEMMA BodyTyped ==
    ASSUME NEW v \in Forms, NEW orig \in Forms
    PROVE  toPatch(v, orig) \in Patches
<1>1. \A p \in Params : v[p] \in Inputs
  BY DEF Forms
<1>2. toPatch(v, orig) \in [{q \in Params : v[q] # orig[q]} -> Inputs]
  BY <1>1 DEF toPatch
<1> QED
  BY <1>2 DEF Patches

(* A row that is served holds what was typed, in the field's own unit.     *)
LEMMA ServedTyped ==
    ASSUME Typing, SavesTyped, NEW i \in DOMAIN saves, ServePatch(i)
    PROVE  /\ settings' \in SettingsRows
           /\ \A p \in DOMAIN saves[i].body :
                saves[i].body[p] # BadNumber /\ settings'[p] = saves[i].body[p]
<1>1. saves[i] \in Saves
  BY DEF SavesTyped
<1>2. PICK P \in SUBSET Params : saves[i].body \in [P -> Inputs]
  BY <1>1 DEF Saves, Patches
<1>3. DOMAIN saves[i].body \subseteq AlertParams
  BY <1>2, ParamsAssumption
<1>4. \A p \in DOMAIN saves[i].body : saves[i].body[p] \in Int \cup {Null}
  BY <1>2 DEF ServePatch, Decodes, Inputs
<1>5. settings' \in SettingsRows
  BY <1>4, UpdateTyped DEF ServePatch, Typing
<1> QED
  BY <1>3, <1>5 DEF ServePatch, Decodes, UpdateUserSettings

(* A save that ends leaves the others as they are. *)
LEMMA OthersKept ==
    ASSUME SavesTyped, NEW k \in DOMAIN saves, saves' = RemoveAt(saves, k),
           mounted' = mounted
    PROVE  SavesTyped'
<1> DEFINE place(n) == IF n < k THEN n ELSE n + 1
<1>1. /\ saves' \in Seq(Saves) /\ Len(saves') = Len(saves) - 1
      /\ \A j \in 1 .. Len(saves) - 1 : saves'[j] = saves[place(j)]
  BY RemovedAt DEF SavesTyped
<1>2. Len(saves') <= MaxSaves
  BY <1>1, MaxSavesAssumption DEF SavesTyped
<1>3. \A j \in DOMAIN saves' : place(j) \in DOMAIN saves /\ saves'[j] = saves[place(j)]
  BY <1>1 DEF SavesTyped
<1>4. \A i, j \in DOMAIN saves' : place(i) = place(j) => i = j
  BY <1>1
<1> HIDE DEF place
<1>5. \A j \in DOMAIN saves' : Stored(saves'[j]) /\ (saves'[j].own => mounted')
  BY <1>3 DEF SavesTyped
<1>6. OneOwn(saves)'
  BY <1>3, <1>4 DEF SavesTyped, OneOwn
<1> QED
  BY <1>1, <1>2, <1>5, <1>6 DEF SavesTyped

LEMMA SavesSame ==
    ASSUME SavesTyped, saves' = saves, mounted => mounted'
    PROVE  SavesTyped'
BY DEF SavesTyped, OneOwn

LEMMA SavesStep ==
    ASSUME Typing, SavesTyped, [Next]_vars
    PROVE  SavesTyped'
<1>1. CASE Leave
  <2>1. \A i \in DOMAIN saves : saves[i] \in Saves
    BY DEF SavesTyped
  <2> DEFINE left(i) == [saves[i] EXCEPT !.own = FALSE]
  <2>2. \A i \in DOMAIN saves : left(i) \in Saves
    BY <2>1 DEF Saves
  <2>3. saves' = [i \in DOMAIN saves |-> left(i)]
    BY <1>1 DEF Leave
  <2>4. DOMAIN saves = 1 .. Len(saves) /\ Len(saves) \in Nat
    BY DEF SavesTyped
  <2> HIDE DEF left
  <2>5. saves' \in Seq(Saves) /\ Len(saves') = Len(saves)
    BY <2>2, <2>3, <2>4
  <2> USE DEF left
  <2>6. /\ saves' \in Seq(Saves) /\ Len(saves') = Len(saves)
        /\ DOMAIN saves' = DOMAIN saves
        /\ \A i \in DOMAIN saves : saves'[i] = [saves[i] EXCEPT !.own = FALSE]
    BY <2>3, <2>5
  <2>7. ASSUME NEW i \in DOMAIN saves'
        PROVE  Stored(saves'[i]) /\ ~saves'[i].own
    <3>1. /\ saves'[i].body = saves[i].body /\ saves'[i].stage = saves[i].stage
          /\ saves'[i].reply = saves[i].reply /\ ~saves'[i].own
      BY <2>1, <2>6, <2>7 DEF Saves
    <3> QED
      BY <2>6, <2>7, <3>1 DEF SavesTyped, Stored
  <2> QED
    BY <2>6, <2>7 DEF SavesTyped, OneOwn
<1>2. CASE Save
  <2> DEFINE s == Sent(toPatch(values, original))
  <2>1. original \in Forms /\ values \in Forms
    BY <1>2, ShownTyped DEF Save
  <2>2. s \in Saves
    BY <2>1, BodyTyped DEF Sent, Saves
  <2>3. Stored(s) /\ s.own
    BY <1>2, <2>1, BodyTyped DEF Save, Sent, Stored
  <2>4. /\ saves' \in Seq(Saves) /\ Len(saves') = Len(saves) + 1 /\ mounted'
        /\ DOMAIN saves' = 1 .. Len(saves) + 1 /\ DOMAIN saves = 1 .. Len(saves)
        /\ \A i \in DOMAIN saves : saves'[i] = saves[i] /\ ~saves[i].own
        /\ saves'[Len(saves) + 1] = s
    BY <1>2, <2>2 DEF Save, Usable, SavesTyped, isPending
  <2> HIDE DEF s
  <2>5. Len(saves') <= MaxSaves
    BY <1>2, <2>4, MaxSavesAssumption DEF Save, SavesTyped
  <2>6. \A i \in DOMAIN saves' : Stored(saves'[i]) /\ mounted'
    BY <2>3, <2>4 DEF SavesTyped
  <2>7. OneOwn(saves)'
    <3>1. \A i \in DOMAIN saves' : saves'[i].own => i = Len(saves) + 1
      BY <2>4
    <3> QED
      BY <3>1 DEF OneOwn
  <2> QED
    BY <2>4, <2>5, <2>6, <2>7 DEF SavesTyped
<1>3. ASSUME NEW i \in DOMAIN saves, SaveArrives(i) \/ SaveFails(i)
      PROVE  SavesTyped'
  BY <1>3, OthersKept, MaxSavesAssumption DEF SaveArrives, SaveFails
<1>4. ASSUME NEW i \in DOMAIN saves, ServePatch(i)
      PROVE  SavesTyped'
  <2>1. saves[i] \in Saves /\ Stored(saves[i])
    BY DEF SavesTyped
  <2>2. settings' \in SettingsRows /\ settings' # Null
    BY <1>4, ServedTyped, NotNull
  <2> DEFINE s == [saves[i] EXCEPT !.stage = "served", !.reply = settings']
  <2>3. s \in Saves /\ s.own = saves[i].own /\ s.body = saves[i].body
        /\ s.stage = "served" /\ s.reply = settings'
    BY <2>1, <2>2 DEF Saves
  <2>4. saves' = [saves EXCEPT ![i] = s]
    BY <1>4 DEF ServePatch
  <2> HIDE DEF s
  <2>5. Stored(s)
    BY <1>4, <2>1, <2>2, <2>3, ServedTyped DEF Stored
  <2>6. /\ saves' \in Seq(Saves) /\ Len(saves') = Len(saves) /\ DOMAIN saves' = DOMAIN saves
        /\ \A j \in DOMAIN saves : saves'[j] = IF j = i THEN s ELSE saves[j]
    BY <2>3, <2>4 DEF SavesTyped
  <2>7. \A j \in DOMAIN saves : saves'[j].own = saves[j].own /\ Stored(saves'[j])
    BY <2>3, <2>5, <2>6 DEF SavesTyped
  <2> QED
    BY <1>4, <2>6, <2>7 DEF SavesTyped, OneOwn, ServePatch
<1>5. CASE UNCHANGED vars
  BY <1>5, SavesSame DEF vars
<1>6. CASE Refetch
  BY <1>6, SavesSame DEF Refetch
<1>7. CASE FetchArrives
  BY <1>7, SavesSame DEF FetchArrives
<1>8. CASE FetchFails
  BY <1>8, SavesSame DEF FetchFails
<1>9. CASE ServeGet
  BY <1>9, SavesSame DEF ServeGet
<1>10. ASSUME NEW p \in Params, NEW v \in Typed[p], Type(p, v)
       PROVE  SavesTyped'
  BY <1>10, SavesSame DEF Type
<1>11. ASSUME NEW body \in OtherBodies, ServeOther(body)
       PROVE  SavesTyped'
  BY <1>11, SavesSame DEF ServeOther
<1> QED
  BY <1>1, <1>2, <1>3, <1>4, <1>5, <1>6, <1>7, <1>8, <1>9, <1>10, <1>11 DEF Next

LEMMA TypingStep ==
    ASSUME Typing, SavesTyped, [Next]_vars
    PROVE  Typing'
<1>1. CASE UNCHANGED vars
  BY <1>1 DEF Typing, vars
<1>2. CASE Refetch
  BY <1>2 DEF Typing, Refetch, NoFetch, Fetches
<1>3. CASE Leave
  BY <1>3 DEF Typing, Leave
<1>4. ASSUME NEW p \in Params, NEW v \in Typed[p], Type(p, v)
      PROVE  Typing'
  <2>1. v \in Inputs
    BY TypedAssumption DEF Inputs
  <2>2. values \in Forms
    BY <1>4, ShownTyped DEF Type
  <2>3. edited' \in Forms /\ edited' # Null
    BY <1>4, <2>1, <2>2, NotNull DEF Type, Forms
  <2>4. \A q \in DOMAIN seen' : q \in Params /\ edited'[q] = seen'[q]
    <3> DEFINE before == IF edited = Null THEN original ELSE seen
    <3>1. seen' = [q \in DOMAIN before \ {p} |-> before[q]]
      BY <1>4 DEF Type, SeenBut
    <3>2. \A q \in DOMAIN before : q \in Params /\ values[q] = before[q]
      <4>1. CASE edited = Null
        BY <1>4, <4>1, ShownTyped DEF Type, values, Forms
      <4>2. CASE edited # Null
        BY <4>2 DEF values, Typing
      <4> QED
        BY <4>1, <4>2
    <3>3. \A q \in Params : q # p => edited'[q] = values[q]
      BY <1>4, <2>2 DEF Type, Forms
    <3> HIDE DEF before
    <3> QED
      BY <3>1, <3>2, <3>3
  <2>5. UNCHANGED <<settings, data, failed, fetch, mounted, saves>> /\ mounted
    BY <1>4 DEF Type, Usable
  <2> QED
    BY <2>3, <2>4, <2>5 DEF Typing
<1>5. CASE Save
  BY <1>5 DEF Typing, Save
<1>6. CASE FetchArrives
  <2>1. fetch' \in Fetches /\ (fetch'.stage = "served" <=> fetch'.reply # Null)
    BY <1>6 DEF FetchArrives, NoFetch, Fetches
  <2>2. data' \in SettingsRows \cup {Null} /\ failed' \in BOOLEAN
    BY <1>6 DEF Typing, FetchArrives, Fetches
  <2> QED
    BY <1>6, <2>1, <2>2, Zenon DEF Typing, FetchArrives
<1>7. CASE FetchFails
  <2>1. fetch' \in Fetches /\ (fetch'.stage = "served" <=> fetch'.reply # Null)
    BY <1>7 DEF FetchFails, NoFetch, Fetches
  <2>2. failed' \in BOOLEAN
    BY <1>7 DEF Typing, FetchFails
  <2> QED
    BY <1>7, <2>1, <2>2, Zenon DEF Typing, FetchFails
<1>8. ASSUME NEW i \in DOMAIN saves, SaveArrives(i)
      PROVE  Typing'
  <2>1. saves[i] \in Saves
    BY DEF SavesTyped
  <2>2. saves[i].reply \in SettingsRows \cup {Null}
    BY <2>1 DEF Saves
  <2> QED
    BY <1>8, <2>2 DEF Typing, SaveArrives
<1>9. ASSUME NEW i \in DOMAIN saves, SaveFails(i)
      PROVE  Typing'
  BY <1>9 DEF Typing, SaveFails
<1>10. ASSUME NEW i \in DOMAIN saves, ServePatch(i)
       PROVE  Typing'
  BY <1>10, ServedTyped DEF Typing, ServePatch
<1>11. CASE ServeGet
  <2>1. settings' \in SettingsRows
    BY <1>11 DEF Typing, ServeGet, EnsureUserSettings, SettingsRows
  <2> QED
    BY <1>11, <2>1, NotNull DEF Typing, ServeGet, Fetches
<1>12. ASSUME NEW body \in OtherBodies, ServeOther(body)
       PROVE  Typing'
  BY <1>12, OtherBodiesAssumption, UpdateTyped DEF Typing, ServeOther
<1> QED
  BY <1>1, <1>2, <1>3, <1>4, <1>5, <1>6, <1>7, <1>8, <1>9, <1>10, <1>11, <1>12 DEF Next

LEMMA TypedAlways == Spec => [](Typing /\ SavesTyped)
<1>1. Init => Typing
  <2> SUFFICES ASSUME Init
               PROVE  Typing
    OBVIOUS
  <2>1. fetch \in Fetches /\ (fetch.stage = "served" <=> fetch.reply # Null)
    BY DEF Init, NoFetch, Fetches
  <2> QED
    BY <2>1, Zenon DEF Init, Typing
<1>2. Init => SavesTyped
  BY MaxSavesAssumption DEF Init, SavesTyped, OneOwn
<1>3. Typing /\ SavesTyped /\ [Next]_vars => (Typing /\ SavesTyped)'
  BY TypingStep, SavesStep
<1> QED
  BY <1>1, <1>2, <1>3, PTL DEF Spec

(* Rows, forms and requests hold what they should; at most one save        *)
(* belongs to the screen that is open, and only an open screen has edits.  *)
THEOREM SettingsTypes == Spec => []TypeOK
<1>1. Typing /\ SavesTyped => TypeOK
  <2> SUFFICES ASSUME Typing, SavesTyped
               PROVE  TypeOK
    OBVIOUS
  <2>1. \A row \in {settings, data, fetch.reply} : row = Null \/ IsSettings(row)
    BY DEF Typing, Fetches, SettingsRows, IsSettings
  <2>2. edited # Null => IsForm(edited) /\ mounted
    BY DEF Typing, Forms, Inputs, IsForm
  <2>3. ASSUME NEW i \in DOMAIN saves
        PROVE  IsSave(saves[i])
    <3>1. saves[i] \in Saves /\ Stored(saves[i]) /\ (saves[i].own => mounted)
      BY DEF SavesTyped
    <3>2. DOMAIN saves[i].body \subseteq Params
      BY <3>1 DEF Saves, Patches
    <3> QED
      BY <3>1, <3>2 DEF Saves, Stored, IsSave
  <2> QED
    BY <2>1, <2>2, <2>3 DEF Typing, SavesTyped, Fetches, OneOwn, TypeOK
<1> QED
  BY <1>1, TypedAlways, PTL

-----------------------------------------------------------------------------
(* What the user sees *)

(* The row that answers a save shows in each field sent what was typed,    *)
(* rounded to whole percents, whoever else writes meanwhile.               *)
THEOREM SavedAsTyped == Spec => []SavedShowsAsTyped
<1>1. Typing /\ SavesTyped => SavedShowsAsTyped
  <2> SUFFICES ASSUME Typing, SavesTyped, NEW i \in DOMAIN saves, saves[i].stage = "served",
                      NEW p \in DOMAIN saves[i].body
               PROVE  LET typed == saves[i].body[p]
                          whole == p = "cooldown_hours" \/ typed = Null \/ typed % 10 = 0
                      IN  fromSettings(saves[i].reply)[p] \in
                              IF whole THEN {typed} ELSE typed - 5 .. typed + 5
    BY DEF SavedShowsAsTyped
  <2> DEFINE x == saves[i].body[p]
  <2>1. saves[i] \in Saves /\ Stored(saves[i])
    BY DEF SavesTyped
  <2>2. p \in Params /\ x \in Int \cup {Null}
    BY <2>1 DEF Saves, Patches, Stored, Inputs
  <2>3. saves[i].reply[p] = x
    BY <2>1 DEF Stored
  <2>4. fromSettings(saves[i].reply)[p] = Shown(p, x)
    BY <2>2, <2>3 DEF fromSettings
  <2> HIDE DEF x
  <2>5. CASE p = "cooldown_hours" \/ x = Null \/ x % 10 = 0
    <3>1. Shown(p, x) = x
      BY <2>2, <2>5, ShownIs
    <3> QED
      BY <2>4, <2>5, <3>1 DEF x
  <2>6. CASE ~(p = "cooldown_hours" \/ x = Null \/ x % 10 = 0)
    <3>1. x \in Int /\ Shown(p, x) \in Int /\ Shown(p, x) - x \in -5 .. 5
      BY <2>2, <2>6, ShownIs
    <3>2. Shown(p, x) \in x - 5 .. x + 5
      BY <3>1
    <3> QED
      BY <2>4, <2>6, <3>2 DEF x
  <2> QED
    BY <2>5, <2>6
<1> QED
  BY <1>1, TypedAlways, PTL

(* A save carries, beside what was typed, only fields that changed under   *)
(* the edits, and those as they were shown when the typing began.          *)
THEOREM SavesTypedOrSeen == Spec => []SentWasTypedOrSeen
<1>1. Typing => SentWasTypedOrSeen
  <2> SUFFICES ASSUME Typing, Usable, NEW p \in DOMAIN toPatch(values, original) \cap DOMAIN seen
               PROVE  toPatch(values, original)[p] = seen[p] /\ seen[p] # original[p]
    BY DEF SentWasTypedOrSeen
  <2>1. /\ p \in Params /\ values[p] # original[p]
        /\ toPatch(values, original)[p] = values[p]
    BY DEF toPatch
  <2>2. edited # Null
    BY <2>1 DEF values
  <2>3. values[p] = seen[p]
    BY <2>2 DEF values, Typing
  <2> QED
    BY <2>1, <2>3
<1> QED
  BY <1>1, TypedAlways, PTL

(* What was typed goes only when the user leaves, or when a save that this *)
(* very screen sent was stored: no reply to an earlier visit clears it.    *)
THEOREM EditsStay == Spec => EditsKept
<1> DEFINE Kept ==
        edited # Null /\ edited' = Null =>
            \/ ~mounted'
            \/ \E i \in DOMAIN saves :
                  saves[i].own /\ saves[i].stage = "served" /\ saves' = RemoveAt(saves, i)
<1>1. Typing /\ [Next]_vars => [Kept]_vars
  <2> SUFFICES ASSUME Typing, Next, edited # Null, edited' = Null
               PROVE  Kept
    BY DEF vars
  <2>1. CASE Leave
    BY <2>1 DEF Leave
  <2>2. ASSUME NEW p \in Params, NEW v \in Typed[p], Type(p, v)
        PROVE  FALSE
    <3>1. v \in Inputs
      BY TypedAssumption DEF Inputs
    <3>2. edited' \in Forms
      BY <2>2, <3>1, ShownTyped DEF Type, Forms
    <3> QED
      BY <3>2, NotNull
  <2>3. ASSUME NEW i \in DOMAIN saves, SaveArrives(i)
        PROVE  Kept
    BY <2>3 DEF SaveArrives
  <2> QED
    BY <2>1, <2>2, <2>3
       DEF Next, Refetch, Save, FetchArrives, FetchFails, SaveFails, ServePatch, ServeGet,
           ServeOther
<1> QED
  BY <1>1, TypedAlways, PTL DEF Spec, EditsKept

-----------------------------------------------------------------------------
(* Where stored values come from *)

(* Sets of values, one per field, that the screen cannot leave: they hold  *)
(* what is typed, what others send, and what the form shows of a value,    *)
(* which need not be that value: it is rounded.                            *)
Closed(Ok) ==
    /\ \A p \in AlertParams : Null \in Ok[p]
    /\ \A p \in Params : Typed[p] \subseteq Ok[p]
    /\ \A body \in OtherBodies : \A p \in AlertParams \cap DOMAIN body : body[p] \in Ok[p]
    /\ \A p \in Params : \A x \in Ok[p] : x # BadNumber => Shown(p, x) \in Ok[p]

RowWithin(Ok, row) == row # Null => \A p \in AlertParams : row[p] \in Ok[p]
SaveWithin(Ok, s) == RowWithin(Ok, s.reply) /\ \A p \in DOMAIN s.body : s.body[p] \in Ok[p]
FormWithin(Ok, v) == \A p \in Params : v[p] \in Ok[p]

(* No row, form or request holds a value from outside those sets.          *)
Within(Ok) ==
    /\ RowWithin(Ok, settings) /\ RowWithin(Ok, data) /\ RowWithin(Ok, fetch.reply)
    /\ edited # Null => FormWithin(Ok, edited)
    /\ \A i \in DOMAIN saves : SaveWithin(Ok, saves[i])

LEMMA ShownWithin ==
    ASSUME NEW Ok, Closed(Ok), Typing, Within(Ok), Usable
    PROVE  FormWithin(Ok, original) /\ FormWithin(Ok, values)
<1>1. ASSUME NEW p \in Params
      PROVE  original[p] \in Ok[p]
  <2>1. data[p] \in Ok[p] /\ data[p] \in Int \cup {Null}
    BY ParamsAssumption DEF Typing, Within, RowWithin, Usable, SettingsRows
  <2>2. original[p] = Shown(p, data[p])
    BY DEF original, fromSettings
  <2>3. CASE data[p] = Null
    BY <2>2, <2>3, ParamsAssumption DEF Closed, Shown
  <2>4. CASE data[p] \in Int
    <3>1. data[p] # BadNumber
      BY <2>4, NumbersAssumption, Zenon
    <3> QED
      BY <2>1, <2>2, <3>1, Zenon DEF Closed
  <2> QED
    BY <2>1, <2>3, <2>4
<1> QED
  BY <1>1 DEF FormWithin, values, Within

LEMMA UpdateWithin ==
    ASSUME NEW Ok, Closed(Ok), NEW row, RowWithin(Ok, row), NEW body,
           \A p \in AlertParams \cap DOMAIN body : body[p] \in Ok[p]
    PROVE  RowWithin(Ok, UpdateUserSettings(row, body))
BY DEF Closed, RowWithin, UpdateUserSettings, EnsureUserSettings

LEMMA WithinStep ==
    ASSUME NEW Ok, Closed(Ok), Typing, SavesTyped, Within(Ok), [Next]_vars
    PROVE  Within(Ok)'
<1>1. CASE UNCHANGED vars
  BY <1>1 DEF vars, Within
<1>2. CASE Refetch \/ FetchFails
  <2>1. fetch'.reply \in {fetch.reply, Null}
    BY <1>2 DEF Refetch, FetchFails, NoFetch
  <2> QED
    BY <1>2, <2>1 DEF Within, RowWithin, Refetch, FetchFails
<1>3. CASE Leave
  <2>1. \A i \in DOMAIN saves' :
            /\ i \in DOMAIN saves
            /\ saves'[i].reply = saves[i].reply /\ saves'[i].body = saves[i].body
    <3>1. \A i \in DOMAIN saves : saves[i] \in Saves
      BY DEF SavesTyped
    <3> QED
      BY <1>3, <3>1 DEF Leave, Saves
  <2> QED
    BY <1>3, <2>1 DEF Within, SaveWithin, Leave
<1>4. ASSUME NEW p \in Params, NEW v \in Typed[p], Type(p, v)
      PROVE  Within(Ok)'
  <2>1. values \in Forms /\ FormWithin(Ok, values)
    BY <1>4, ShownTyped, ShownWithin DEF Type
  <2>2. FormWithin(Ok, edited')
    BY <1>4, <2>1 DEF Type, FormWithin, Forms, Closed
  <2> QED
    BY <1>4, <2>2 DEF Within, Type
<1>5. CASE Save
  <2> DEFINE body == toPatch(values, original)
  <2>1. \A p \in DOMAIN body : body[p] \in Ok[p]
    BY <1>5, ShownWithin DEF Save, toPatch, FormWithin
  <2>2. saves' = Append(saves, Sent(body)) /\ saves \in Seq(Saves)
    BY <1>5 DEF Save, SavesTyped
  <2> HIDE DEF body
  <2>3. SaveWithin(Ok, Sent(body))
    BY <2>1 DEF SaveWithin, RowWithin, Sent
  <2>4. \A i \in DOMAIN saves' : saves'[i] = Sent(body) \/ (i \in DOMAIN saves /\ saves'[i] = saves[i])
    BY <2>2
  <2> QED
    BY <1>5, <2>3, <2>4 DEF Within, Save
<1>6. CASE FetchArrives
  BY <1>6 DEF Within, RowWithin, FetchArrives, NoFetch
<1>7. ASSUME NEW i \in DOMAIN saves, SaveArrives(i) \/ SaveFails(i)
      PROVE  Within(Ok)'
  <2>1. /\ settings' = settings /\ fetch' = fetch
        /\ RowWithin(Ok, data') /\ edited' \in {edited, Null}
    BY <1>7 DEF Within, SaveWithin, SaveArrives, SaveFails
  <2>2. \A j \in DOMAIN saves' : \E k \in DOMAIN saves : saves'[j] = saves[k]
    <3>1. /\ saves' \in Seq(Saves) /\ Len(saves') = Len(saves) - 1
          /\ \A j \in 1 .. Len(saves) - 1 : saves'[j] = saves[IF j < i THEN j ELSE j + 1]
      BY <1>7, RemovedAt DEF SavesTyped, SaveArrives, SaveFails
    <3> QED
      BY <3>1 DEF SavesTyped
  <2> QED
    BY <2>1, <2>2 DEF Within
<1>8. ASSUME NEW i \in DOMAIN saves, ServePatch(i)
      PROVE  Within(Ok)'
  <2>1. RowWithin(Ok, settings')
    BY <1>8, UpdateWithin DEF ServePatch, Within, SaveWithin
  <2>2. \A j \in DOMAIN saves' :
            /\ j \in DOMAIN saves /\ saves'[j].body = saves[j].body
            /\ saves'[j].reply \in {saves[j].reply, settings'}
    <3>1. \A j \in DOMAIN saves : saves[j] \in Saves
      BY DEF SavesTyped
    <3> QED
      BY <1>8, <3>1 DEF ServePatch, Saves
  <2> QED
    BY <1>8, <2>1, <2>2 DEF Within, SaveWithin, ServePatch
<1>9. CASE ServeGet
  <2>1. RowWithin(Ok, settings')
    BY <1>9 DEF ServeGet, EnsureUserSettings, Closed, Within, RowWithin
  <2> QED
    BY <1>9, <2>1 DEF Within, ServeGet
<1>10. ASSUME NEW body \in OtherBodies, ServeOther(body)
       PROVE  Within(Ok)'
  <2>1. RowWithin(Ok, settings')
    BY <1>10, UpdateWithin DEF ServeOther, Within, Closed
  <2> QED
    BY <1>10, <2>1 DEF Within, ServeOther
<1> QED
  BY <1>1, <1>2, <1>3, <1>4, <1>5, <1>6, <1>7, <1>8, <1>9, <1>10 DEF Next

LEMMA WithinInit ==
    ASSUME NEW Ok, Init
    PROVE  Within(Ok)
BY DEF Init, Within, RowWithin, NoFetch

(* Whatever is delayed, retried or answered out of order, nothing is       *)
(* stored, shown or sent but what was typed, what others sent, and what    *)
(* the form makes of those by rounding.                                    *)
THEOREM ValuesComeFromInputs ==
    ASSUME NEW Ok, Closed(Ok)
    PROVE  Spec => []Within(Ok)
<1>1. Init => Within(Ok)
  BY WithinInit
<1>2. Typing /\ SavesTyped /\ Within(Ok) /\ [Next]_vars => Within(Ok)'
  BY WithinStep
<1> QED
  BY <1>1, <1>2, TypedAlways, PTL DEF Spec

(* The inputs are legal, and legal as the form shows them too: of 0.4 % it *)
(* makes 0, of 99.5 % it makes 100.                                        *)
Fits(p, x) == InBounds(p, x) /\ (p \in Params => InBounds(p, Shown(p, x)))
InputsInBounds ==
    /\ \A p \in Params : \A v \in Typed[p] : v # BadNumber => Fits(p, v)
    /\ \A body \in OtherBodies : \A p \in AlertParams \cap DOMAIN body : Fits(p, body[p])

(* Stored parameters leave their bounds only where an input does: the      *)
(* handler that validates nothing adds no illegal value of its own, and    *)
(* neither does the screen but by rounding.                                *)
THEOREM BoundsAreTheInputs ==
    ASSUME InputsInBounds
    PROVE  Spec => []StoredInBounds
<1> DEFINE Ok == [p \in AlertParams |-> {x \in Inputs : x = BadNumber \/ Fits(p, x)}]
<1>1. ASSUME NEW p \in AlertParams
      PROVE  Null \in Ok[p]
  BY DEF Fits, Inputs, InBounds, CooldownBroken, DropBroken, BandBroken, Given, Shown
<1>2. ASSUME NEW p \in Params
      PROVE  Typed[p] \subseteq Ok[p]
  BY TypedAssumption, ParamsAssumption DEF InputsInBounds, Inputs
<1>3. ASSUME NEW body \in OtherBodies, NEW p \in AlertParams \cap DOMAIN body
      PROVE  body[p] \in Ok[p]
  BY OtherBodiesAssumption DEF InputsInBounds, Inputs
<1>4. ASSUME NEW p \in Params, NEW x \in Ok[p], x # BadNumber
      PROVE  Shown(p, x) \in Ok[p]
  <2>1. x \in Int \cup {Null} /\ Fits(p, x)
    BY <1>4, ParamsAssumption DEF Inputs
  <2>2. Shown(p, x) \in Int \cup {Null} /\ InBounds(p, Shown(p, x))
    BY <2>1, ShownIs DEF Fits
  <2>3. Shown(p, Shown(p, x)) = Shown(p, x)
    BY <2>1, ShownAgain
  <2>4. Fits(p, Shown(p, x))
    BY <2>2, <2>3 DEF Fits
  <2> QED
    BY <2>2, <2>4, ParamsAssumption DEF Inputs
<1>5. \A p \in Params : \A x \in Ok[p] : x # BadNumber => Shown(p, x) \in Ok[p]
  BY <1>4
<1>6. Typing /\ Within(Ok) => StoredInBounds
  <2> SUFFICES ASSUME Typing, Within(Ok), settings # Null, NEW p \in AlertParams
               PROVE  InBounds(p, settings[p])
    BY DEF StoredInBounds
  <2>1. settings[p] \in Ok[p] /\ settings[p] \in Int \cup {Null}
    BY DEF Typing, Within, RowWithin, SettingsRows
  <2>2. CASE settings[p] = Null
    BY <2>2 DEF InBounds, CooldownBroken, DropBroken, BandBroken, Given
  <2>3. CASE settings[p] \in Int
    <3>1. settings[p] # BadNumber
      BY <2>3, NumbersAssumption, Zenon
    <3> QED
      BY <2>1, <3>1 DEF Fits
  <2> QED
    BY <2>1, <2>2, <2>3
<1> HIDE DEF Ok
<1>7. Closed(Ok)
  BY <1>1, <1>2, <1>3, <1>5 DEF Closed
<1>8. Init => Within(Ok)
  BY WithinInit
<1>9. Typing /\ SavesTyped /\ Within(Ok) /\ [Next]_vars => Within(Ok)'
  BY <1>7, WithinStep
<1> QED
  BY <1>6, <1>8, <1>9, TypedAlways, PTL DEF Spec

(* A body in flight was in flight before, or is what the form now sends.   *)
LEMMA BodiesComeFromSaves ==
    ASSUME SavesTyped, [Next]_vars, NEW i \in DOMAIN saves'
    PROVE  \/ \E k \in DOMAIN saves : saves'[i].body = saves[k].body
           \/ Save /\ saves'[i].body = toPatch(values, original)
<1>1. CASE Leave
  <2>1. \A j \in DOMAIN saves : saves[j] \in Saves
    BY DEF SavesTyped
  <2> QED
    BY <1>1, <2>1 DEF Leave, Saves
<1>2. CASE Save
  <2> DEFINE body == toPatch(values, original)
  <2>1. saves' = Append(saves, Sent(body)) /\ saves \in Seq(Saves)
    BY <1>2 DEF Save, SavesTyped
  <2>2. Sent(body).body = body
    BY DEF Sent
  <2> HIDE DEF body
  <2>3. saves'[i] = Sent(body) \/ (i \in DOMAIN saves /\ saves'[i] = saves[i])
    BY <2>1
  <2>4. saves'[i].body = body \/ \E k \in DOMAIN saves : saves'[i].body = saves[k].body
    BY <2>2, <2>3
  <2> QED
    BY <1>2, <2>4 DEF body
<1>3. ASSUME NEW k \in DOMAIN saves, SaveArrives(k) \/ SaveFails(k)
      PROVE  \E j \in DOMAIN saves : saves'[i].body = saves[j].body
  <2>1. /\ saves' \in Seq(Saves) /\ Len(saves') = Len(saves) - 1
        /\ \A j \in 1 .. Len(saves) - 1 : saves'[j] = saves[IF j < k THEN j ELSE j + 1]
    BY <1>3, RemovedAt DEF SavesTyped, SaveArrives, SaveFails
  <2> QED
    BY <2>1 DEF SavesTyped
<1>4. ASSUME NEW k \in DOMAIN saves, ServePatch(k)
      PROVE  \E j \in DOMAIN saves : saves'[i].body = saves[j].body
  <2>1. \A j \in DOMAIN saves : saves[j] \in Saves
    BY DEF SavesTyped
  <2> QED
    BY <1>4, <2>1 DEF ServePatch, Saves
<1> QED
  BY <1>1, <1>2, <1>3, <1>4
     DEF Next, vars, Refetch, Type, FetchArrives, FetchFails, ServeGet, ServeOther

(* "Only changed keys go on the wire" is true of a user whose other        *)
(* devices leave the fields alone that this one does not type into: it is  *)
(* a value stored there from elsewhere that makes a copy look like a       *)
(* change.                                                                 *)
THEOREM AloneSendsWhatWasTyped ==
    ASSUME \A body \in OtherBodies : \A p \in Params \cap DOMAIN body : Typed[p] # {}
    PROVE  Spec => []UntouchedKeysUnsent
<1> DEFINE Ok == [p \in AlertParams |->
                    IF p \in Params /\ Typed[p] = {} THEN {Null} ELSE Inputs]
<1>1. ASSUME NEW p \in AlertParams
      PROVE  Null \in Ok[p]
  BY DEF Inputs
<1>2. ASSUME NEW p \in Params, NEW v \in Typed[p]
      PROVE  v \in Ok[p]
  BY TypedAssumption, ParamsAssumption DEF Inputs
<1>3. ASSUME NEW body \in OtherBodies, NEW p \in AlertParams \cap DOMAIN body
      PROVE  body[p] \in Ok[p]
  BY OtherBodiesAssumption DEF Inputs
<1>4. ASSUME NEW p \in Params, NEW x \in Ok[p], x # BadNumber
      PROVE  Shown(p, x) \in Ok[p]
  <2>1. CASE Typed[p] = {}
    BY <1>4, <2>1, ParamsAssumption DEF Shown
  <2>2. CASE Typed[p] # {}
    BY <1>4, <2>2, ParamsAssumption, ShownIs DEF Inputs
  <2> QED
    BY <2>1, <2>2
<1>5. ASSUME Typing, Within(Ok), Closed(Ok), Save,
             NEW p \in DOMAIN toPatch(values, original), Typed[p] = {}
      PROVE  FALSE
  <2>1. p \in Params /\ values[p] # original[p]
    BY <1>5 DEF toPatch
  <2>2. values[p] \in Inputs /\ original[p] \in Inputs
    BY <1>5, <2>1, ShownTyped DEF Save, Forms
  <2>3. values[p] = Null /\ original[p] = Null
    BY <1>5, <2>1, ShownWithin, ParamsAssumption DEF Save, FormWithin
  <2> QED
    BY <2>1, <2>3
<1> HIDE DEF Ok
<1>6. Closed(Ok)
  BY <1>1, <1>2, <1>3, <1>4 DEF Closed
<1>7. Init => Within(Ok) /\ UntouchedKeysUnsent
  <2>1. Init => UntouchedKeysUnsent
    BY DEF Init, UntouchedKeysUnsent
  <2> QED
    BY <2>1, WithinInit
<1>8. Typing /\ SavesTyped /\ Within(Ok) /\ [Next]_vars => Within(Ok)'
  BY <1>6, WithinStep
<1>9. Typing /\ SavesTyped /\ Within(Ok) /\ UntouchedKeysUnsent /\ [Next]_vars
        => UntouchedKeysUnsent'
  BY <1>5, <1>6, BodiesComeFromSaves DEF UntouchedKeysUnsent
<1> QED
  BY <1>7, <1>8, <1>9, TypedAlways, PTL DEF Spec
=============================================================================
