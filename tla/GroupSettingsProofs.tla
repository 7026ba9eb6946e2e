------------------------ MODULE GroupSettingsProofs ------------------------
(***************************************************************************)
(* Proofs about GroupSettings, for every set of requests, currencies and   *)
(* dates: what an update decided stays true until it writes, as long as    *)
(* nobody writes the column it decided about; and about Uploads, by which  *)
(* the avatar of a group comes.                                            *)
(***************************************************************************)
EXTENDS GroupSettings, Uploads, TLAPS

\* An update writes the columns of its body, and of those only values of its body.
LEMMA WrittenIsGroup ==
    ASSUME NEW g \in Group, NEW dto \in Patch
    PROVE  Written(dto, g) \in Group
BY DEF Written, OrElse, Group, Patch

\* The two statements of an update see the same dates.
LEMMA WrittenDates ==
    ASSUME NEW g \in Group, NEW dto \in Patch, DatesInOrder(Patched(dto, g))
    PROVE  DatesInOrder(Written(dto, g))
BY DEF Written, Patched, OrElse, Group, Patch, DatesInOrder

\* Whether a body keeps the dates in order depends on the dates of the row alone.
LEMMA PatchedDates ==
    ASSUME NEW g \in Group, NEW h \in Group, NEW dto \in Patch,
           g.startDate = h.startDate, g.endDate = h.endDate,
           DatesInOrder(Patched(dto, g))
    PROVE  DatesInOrder(Patched(dto, h))
BY DEF Patched, OrElse, Group, Patch, DatesInOrder

\* The steps of an update in flight leave it in flight.
LEMMA StaysInFlight ==
    ASSUME NEW q \in InFlight
    PROVE  /\ \A op \in {"count", "write"}, counted \in SUBSET Kinds :
                [q EXCEPT !.op = op, !.counted = counted] \in InFlight
           /\ \A missed \in SUBSET Columns : [q EXCEPT !.missed = @ \cup missed] \in InFlight
           /\ \A kinds \in SUBSET Kinds : [q EXCEPT !.absent = @ \cup kinds] \in InFlight
BY DEF InFlight

\* Every state has the type of the row, the money and the requests.
THEOREM SettingsTypeCorrect == Spec => []TypeOK
<1>1. Init => TypeOK
  BY DEF Init, TypeOK
<1>2. TypeOK /\ [Next]_vars => TypeOK'
  <2> SUFFICES ASSUME TypeOK, [Next]_vars PROVE TypeOK'
    OBVIOUS
  <2>1. ASSUME NEW r \in Requests, NEW dto \in Patches, UpdateRead(r, dto) PROVE TypeOK'
    <3>1. [op |-> IF dto.currency \in {Absent, group.currency} THEN "write" ELSE "count",
           dto |-> dto, counted |-> {}, absent |-> Kinds \ money, missed |-> {}] \in InFlight
      BY DEF InFlight
    <3>2. QED BY <2>1, <3>1 DEF UpdateRead, TypeOK
  <2>2. ASSUME NEW r \in Requests, NEW k \in Kinds, Count(r, k) PROVE TypeOK'
    <3>1. req[r] \in InFlight
      BY <2>2 DEF Count, TypeOK, Idle
    <3>2. req[r].counted \cup {k} \in SUBSET Kinds
      BY <3>1 DEF InFlight
    <3>3. [req[r] EXCEPT !.op = IF CountedAll(req[r].counted \cup {k}) THEN "write" ELSE "count",
                         !.counted = req[r].counted \cup {k}] \in InFlight
      BY <3>1, <3>2, StaysInFlight
    <3>4. QED BY <2>2, <3>3 DEF Count, TypeOK
  <2>3. ASSUME NEW r \in Requests, UpdateWrite(r) PROVE TypeOK'
    <3>1. req[r] \in InFlight
      BY <2>3 DEF UpdateWrite, TypeOK, Idle
    <3>2. req[r].dto \in Patch
      BY <3>1, PatchesAssumption DEF InFlight
    <3>3. group' \in Group
      BY <2>3, <3>2, WrittenIsGroup DEF UpdateWrite, TypeOK
    <3>4. ASSUME NEW q \in Requests, req[q] # Idle
          PROVE  [req[q] EXCEPT !.missed = @ \cup Changed(group, group')] \in InFlight
      <4>1. Changed(group, group') \in SUBSET Columns
        BY DEF Changed
      <4>2. QED BY <3>4, <4>1, StaysInFlight DEF TypeOK
    <3>5. QED BY <2>3, <3>3, <3>4 DEF UpdateWrite, TypeOK
  <2>4. ASSUME NEW r \in Requests, UpdateFails(r) PROVE TypeOK'
    BY <2>4 DEF UpdateFails, TypeOK
  <2>5. ASSUME NEW k \in Kinds, RecordMoney(k) PROVE TypeOK'
    BY <2>5 DEF RecordMoney, TypeOK
  <2>10. ASSUME DeleteExpenses PROVE TypeOK'
    <3>1. ASSUME NEW q \in Requests, req[q] # Idle
          PROVE  [req[q] EXCEPT !.absent = @ \cup {"expense"}] \in InFlight
      <4>1. {"expense"} \in SUBSET Kinds
        BY DEF Kinds
      <4>2. QED BY <3>1, <4>1, StaysInFlight DEF TypeOK
    <3>2. QED BY <2>10, <3>1 DEF DeleteExpenses, TypeOK
  <2>6. ASSUME deleteGroup PROVE TypeOK'
    BY <2>6 DEF deleteGroup, TypeOK, Group
  <2>7. ASSUME ServerCrash PROVE TypeOK'
    BY <2>7 DEF ServerCrash, TypeOK
  <2>8. ASSUME UNCHANGED vars PROVE TypeOK'
    BY <2>8 DEF vars, TypeOK
  <2>9. QED BY <2>1, <2>2, <2>3, <2>4, <2>5, <2>6, <2>7, <2>8, <2>10 DEF Next
<1>3. QED BY <1>1, <1>2, PTL DEF Spec

\* A body that does not change the currency, and one that does.
LEMMA WrittenCurrency ==
    ASSUME NEW g \in Group, NEW dto \in Patch, dto.currency \in {Absent, g.currency}
    PROVE  Written(dto, g).currency = g.currency
BY DEF Written, OrElse, Group, Patch

\* The inductive invariant holds in every reachable state.
LEMMA SettingsInvariant == Spec => []SettingsInv
<1>1. Init => SettingsInv
  BY DEF Init, SettingsInv, TypeOK, CurrencyDecided, DatesDecided
<1>2. TypeOK /\ TypeOK' /\ SettingsInv /\ [Next]_vars => SettingsInv'
  <2> SUFFICES ASSUME TypeOK, TypeOK', SettingsInv, [Next]_vars
               PROVE  CurrencyDecided' /\ DatesDecided'
    BY DEF SettingsInv
  <2> USE DEF SettingsInv
  <2>1. ASSUME NEW r \in Requests, NEW dto \in Patches, UpdateRead(r, dto)
        PROVE  CurrencyDecided' /\ DatesDecided'
    <3>1. /\ group' = group /\ money' = money
          /\ \A q \in Requests \ {r} : req'[q] = req[q]
          /\ req'[r].op = IF dto.currency \in {Absent, group.currency} THEN "write" ELSE "count"
          /\ req'[r].dto = dto /\ req'[r].counted = {} /\ req'[r].missed = {}
          /\ req'[r].absent = Kinds \ money
      BY <2>1 DEF UpdateRead, TypeOK
    <3>2. DatesInOrder(Patched(dto, group))
      BY <2>1 DEF UpdateRead
    <3>3. CurrencyDecided'
      BY <3>1 DEF CurrencyDecided
    <3>4. DatesDecided'
      BY <3>1, <3>2 DEF DatesDecided
    <3>5. QED BY <3>3, <3>4
  <2>2. ASSUME NEW r \in Requests, NEW k \in Kinds, Count(r, k)
        PROVE  CurrencyDecided' /\ DatesDecided'
    <3> DEFINE counted == req[r].counted \cup {k}
    <3>1. /\ group' = group /\ money' = money /\ req[r].op = "count" /\ req[r] \in InFlight
          /\ \A q \in Requests \ {r} : req'[q] = req[q]
      BY <2>2 DEF Count, TypeOK, Idle
    <3>2. CASE k \in money
      <4>1. req'[r] = Idle
        BY <2>2, <3>2 DEF Count, TypeOK
      <4>2. QED BY <3>1, <4>1 DEF CurrencyDecided, DatesDecided
    <3>3. CASE k \notin money
      <4>1. req'[r] = [req[r] EXCEPT !.op = IF CountedAll(counted) THEN "write" ELSE "count",
                                     !.counted = counted]
        BY <2>2, <3>3 DEF Count, TypeOK
      <4>2. /\ req'[r].op = (IF CountedAll(counted) THEN "write" ELSE "count")
            /\ req'[r].counted = counted /\ req'[r].dto = req[r].dto
            /\ req'[r].absent = req[r].absent /\ req'[r].missed = req[r].missed
        BY <3>1, <4>1 DEF InFlight
      <4>3. req[r] # Idle
        BY <3>1 DEF Idle
      <4>4. ASSUME NEW j \in Kinds, j \notin req[r].absent
            PROVE  j \in money /\ j \notin counted /\ ~CountedAll(counted)
        <5>1. j \in money /\ j \notin counted
          BY <3>3, <4>3, <4>4 DEF CurrencyDecided
        <5>2. QED BY <5>1 DEF CountedAll
      <4>5. CurrencyDecided'
        BY <3>1, <4>2, <4>4 DEF CurrencyDecided
      <4>6. DatesDecided'
        BY <3>1, <4>2, <4>3 DEF DatesDecided
      <4>7. QED BY <4>5, <4>6
    <3>4. QED BY <3>2, <3>3
  <2>3. ASSUME NEW r \in Requests, UpdateWrite(r)
        PROVE  CurrencyDecided' /\ DatesDecided'
    <3>1. money' = money /\ group' \in Group /\ group \in Group
      BY <2>3 DEF UpdateWrite, TypeOK
    <3>2. ASSUME NEW q \in Requests, req'[q] # Idle
          PROVE  /\ req[q] # Idle /\ req[q] \in InFlight /\ req[q].dto \in Patch
                 /\ req'[q].op = req[q].op /\ req'[q].dto = req[q].dto
                 /\ req'[q].counted = req[q].counted /\ req'[q].absent = req[q].absent
                 /\ req'[q].missed = req[q].missed \cup Changed(group, group')
      <4>1. req[q] # Idle /\ req'[q] = [req[q] EXCEPT !.missed = @ \cup Changed(group, group')]
        BY <2>3, <3>2 DEF UpdateWrite
      <4>2. req[q] \in InFlight
        BY <4>1 DEF TypeOK
      <4>3. QED BY <4>1, <4>2, PatchesAssumption DEF InFlight
    <3>3. ASSUME NEW q \in Requests, NEW k \in Kinds, req'[q] # Idle, k \notin req'[q].absent
          PROVE  /\ k \in money' /\ k \notin req'[q].counted
                 /\ req'[q].op = "write" /\ "currency" \notin req'[q].missed =>
                      req'[q].dto.currency \in {Absent, group'.currency}
      <4>1. k \in money' /\ k \notin req'[q].counted
        BY <3>1, <3>2, <3>3 DEF CurrencyDecided
      <4>2. ASSUME req'[q].op = "write", "currency" \notin req'[q].missed
            PROVE  req'[q].dto.currency \in {Absent, group'.currency}
        <5>1. "currency" \notin Changed(group, group') /\ "currency" \notin req[q].missed
          BY <3>2, <3>3, <4>2
        <5>2. group'.currency = group.currency
          BY <5>1 DEF Changed, Columns
        <5>3. QED BY <3>2, <3>3, <4>2, <5>1, <5>2 DEF CurrencyDecided
      <4>3. QED BY <4>1, <4>2
    <3>4. ASSUME NEW q \in Requests, req'[q] # Idle, "dates" \notin req'[q].missed
          PROVE  DatesInOrder(Patched(req'[q].dto, group'))
      <4>1. "dates" \notin Changed(group, group') /\ "dates" \notin req[q].missed
        BY <3>2, <3>4
      <4>2. group'.startDate = group.startDate /\ group'.endDate = group.endDate
        BY <4>1 DEF Changed, Columns
      <4>3. DatesInOrder(Patched(req[q].dto, group))
        BY <3>2, <3>4, <4>1 DEF DatesDecided
      <4>4. QED BY <3>1, <3>2, <3>4, <4>2, <4>3, PatchedDates
    <3>5. QED BY <3>3, <3>4 DEF CurrencyDecided, DatesDecided
  <2>4. ASSUME NEW r \in Requests, UpdateFails(r)
        PROVE  CurrencyDecided' /\ DatesDecided'
    BY <2>4 DEF UpdateFails, TypeOK, CurrencyDecided, DatesDecided
  <2>5. ASSUME NEW k \in Kinds, RecordMoney(k)
        PROVE  CurrencyDecided' /\ DatesDecided'
    BY <2>5 DEF RecordMoney, CurrencyDecided, DatesDecided
  <2>10. ASSUME DeleteExpenses
         PROVE  CurrencyDecided' /\ DatesDecided'
    <3>1. money' = money \ {"expense"} /\ group' = group
      BY <2>10 DEF DeleteExpenses
    <3>2. ASSUME NEW q \in Requests, req'[q] # Idle
          PROVE  /\ req[q] # Idle /\ req'[q].absent = req[q].absent \cup {"expense"}
                 /\ req'[q].op = req[q].op /\ req'[q].dto = req[q].dto
                 /\ req'[q].counted = req[q].counted /\ req'[q].missed = req[q].missed
      <4>1. req[q] # Idle /\ req'[q] = [req[q] EXCEPT !.absent = @ \cup {"expense"}]
        BY <2>10, <3>2 DEF DeleteExpenses
      <4>2. req[q] \in InFlight
        BY <4>1 DEF TypeOK
      <4>3. QED BY <4>1, <4>2 DEF InFlight
    <3>3. CurrencyDecided'
      BY <3>1, <3>2 DEF CurrencyDecided
    <3>4. DatesDecided'
      BY <3>1, <3>2 DEF DatesDecided
    <3>5. QED BY <3>3, <3>4
  <2>6. ASSUME deleteGroup
        PROVE  CurrencyDecided' /\ DatesDecided'
    <3>1. /\ group'.currency = group.currency /\ money' = money /\ req' = req
          /\ group'.startDate = group.startDate /\ group'.endDate = group.endDate
          /\ group \in Group /\ group' \in Group
      BY <2>6 DEF deleteGroup, TypeOK, Group
    <3>2. CurrencyDecided'
      BY <3>1 DEF CurrencyDecided
    <3>3. ASSUME NEW q \in Requests, req'[q] # Idle, "dates" \notin req'[q].missed
          PROVE  DatesInOrder(Patched(req'[q].dto, group'))
      <4>1. req[q].dto \in Patch
        BY <3>1, <3>3, PatchesAssumption DEF TypeOK, InFlight
      <4>2. QED BY <3>1, <3>3, <4>1, PatchedDates DEF DatesDecided
    <3>4. QED BY <3>2, <3>3 DEF DatesDecided
  <2>7. ASSUME ServerCrash
        PROVE  CurrencyDecided' /\ DatesDecided'
    BY <2>7 DEF ServerCrash, CurrencyDecided, DatesDecided
  <2>8. ASSUME UNCHANGED vars
        PROVE  CurrencyDecided' /\ DatesDecided'
    BY <2>8 DEF vars, CurrencyDecided, DatesDecided
  <2>9. QED BY <2>1, <2>2, <2>3, <2>4, <2>5, <2>6, <2>7, <2>8, <2>10 DEF Next
<1>3. QED BY <1>1, <1>2, SettingsTypeCorrect, PTL DEF Spec

\* Only the write of an update and the deletion of the group change the row, and the
\* deletion changes neither the currency nor the dates.
LEMMA OnlyWritesChange ==
    ASSUME TypeOK, [Next]_vars, Changed(group, group') # {}
    PROVE  \E r \in Requests : UpdateWrite(r)
<1>1. ASSUME deleteGroup PROVE Changed(group, group') = {}
  BY <1>1 DEF deleteGroup, Changed, TypeOK, Group
<1>2. group' # group
  BY DEF Changed
<1>3. QED BY <1>1, <1>2 DEF Next, vars, UpdateRead, Count, UpdateFails, RecordMoney,
                        DeleteExpenses, ServerCrash

\* The currency of a group that has transactions is changed by no update that met
\* some kind of them all along and was overtaken by no other change of it.
THEOREM CurrencyIsKept == Spec => CurrencyKept
<1>1. SettingsInv /\ [Next]_vars =>
        [group'.currency # group.currency /\ money # {} =>
           \E r \in Requests : Ends(r) /\ (money \subseteq req[r].absent \/ "currency" \in req[r].missed)]_vars
  <2> SUFFICES ASSUME SettingsInv, [Next]_vars, group'.currency # group.currency, money # {}
               PROVE  \E r \in Requests :
                         Ends(r) /\ (money \subseteq req[r].absent \/ "currency" \in req[r].missed)
    OBVIOUS
  <2>1. Changed(group, group') # {}
    BY DEF Changed, Columns
  <2>2. PICK r \in Requests : UpdateWrite(r)
    BY <2>1, OnlyWritesChange DEF SettingsInv
  <2>3. req[r] \in InFlight /\ req[r] # Idle /\ req[r].op = "write" /\ group \in Group
    BY <2>2 DEF UpdateWrite, SettingsInv, TypeOK, Idle
  <2>4. req[r].dto \in Patch
    BY <2>3, PatchesAssumption DEF InFlight
  <2>5. Ends(r)
    BY <2>2, <2>3 DEF UpdateWrite, Ends
  <2>6. req[r].dto.currency \notin {Absent, group.currency}
    BY <2>2, <2>3, <2>4, WrittenCurrency DEF UpdateWrite
  <2>7. ASSUME "currency" \notin req[r].missed, NEW k \in money PROVE k \in req[r].absent
    <3>1. k \in Kinds
      BY DEF SettingsInv, TypeOK
    <3>2. QED BY <2>3, <2>6, <2>7, <3>1 DEF SettingsInv, CurrencyDecided
  <2>8. QED BY <2>5, <2>7
<1>2. QED BY <1>1, SettingsInvariant, PTL DEF Spec, CurrencyKept

\* A change of the dates leaves them in order, unless its update was overtaken by
\* another change of them.
THEOREM DatesAreOrdered == Spec => DatesStayOrdered
<1>1. SettingsInv /\ [Next]_vars =>
        ["dates" \in Changed(group, group') =>
           \/ DatesInOrder(group')
           \/ \E r \in Requests : Ends(r) /\ "dates" \in req[r].missed]_vars
  <2> SUFFICES ASSUME SettingsInv, [Next]_vars, "dates" \in Changed(group, group')
               PROVE  \/ DatesInOrder(group')
                      \/ \E r \in Requests : Ends(r) /\ "dates" \in req[r].missed
    OBVIOUS
  <2>1. PICK r \in Requests : UpdateWrite(r)
    BY OnlyWritesChange DEF SettingsInv
  <2>2. req[r] \in InFlight /\ req[r] # Idle /\ req[r].op = "write" /\ group \in Group
    BY <2>1 DEF UpdateWrite, SettingsInv, TypeOK, Idle
  <2>3. req[r].dto \in Patch
    BY <2>2, PatchesAssumption DEF InFlight
  <2>4. Ends(r)
    BY <2>1, <2>2 DEF UpdateWrite, Ends
  <2>5. ASSUME "dates" \notin req[r].missed PROVE DatesInOrder(group')
    <3>1. DatesInOrder(Patched(req[r].dto, group))
      BY <2>2, <2>5 DEF SettingsInv, DatesDecided
    <3>2. QED BY <2>1, <2>2, <2>3, <3>1, WrittenDates DEF UpdateWrite
  <2>6. QED BY <2>4, <2>5
<1>2. QED BY <1>1, SettingsInvariant, PTL DEF Spec, DatesStayOrdered
-----------------------------------------------------------------------------
(***************************************************************************)
(* Uploads, for every set of groups, users, settlements and uploads.       *)
(***************************************************************************)

SameKey(u, v) == Key(u) = Key(v)

\* The picture of u is stored, or something that properties tell of happened to it.
Kept(u) ==
    \/ object[Key(u)] = u
    \/ up[u].over
    \/ \E v \in Uploads : SameKey(v, u) /\ up[v].op = "undone"

Threatened(u) ==
    \E v \in Uploads \ {u} : SameKey(v, u) /\ up[v].op \in {"write", "rollback", "leaked"}

Named(o, u) ==
    /\ up[u].owner = o /\ up[u].op \in {"done", "rollback", "undone", "leaked"}
    /\ Kept(u) \/ Threatened(u)

\* The inductive invariant behind PicturesShown.
PicturesInv ==
    /\ UploadsTypeOK
    /\ \A u \in Uploads : up[u].op # "new" => up[u].owner \in Owners
    /\ \A o \in Owners, u \in Uploads : row[o] = u => Named(o, u)
    /\ \A u \in Uploads : up[u].op = "write" => Kept(u)

\* Upload u goes on to step x, and no key changes.
GoesOn(u, x) ==
    /\ up' \in [Uploads -> Upload]
    /\ up'[u].op = x
    /\ \A v \in Uploads : /\ Key(v)' = Key(v) /\ up'[v].owner = up[v].owner
                          /\ up[v].over => up'[v].over
                          /\ v # u => up'[v].op = up[v].op

LEMMA KeyIs == \A u \in Uploads : Key(u) = <<up[u].owner, up[u].number>> /\ Key(u)' = <<up'[u].owner, up'[u].number>>
  BY DEF Key

LEMMA SetOpIs ==
  ASSUME UploadsTypeOK, NEW u \in Uploads, NEW x \in Steps, SetOp(u, x)
  PROVE  GoesOn(u, x)
  <1>1. up' = [up EXCEPT ![u].op = x] /\ up \in [Uploads -> Upload]
    BY DEF SetOp, UploadsTypeOK
  <1>2. up' \in [Uploads -> Upload]
    BY <1>1 DEF Upload
  <1>3. /\ up'[u].op = x
        /\ \A v \in Uploads : /\ up'[v].owner = up[v].owner /\ up'[v].number = up[v].number
                              /\ up'[v].over = up[v].over
                              /\ v # u => up'[v].op = up[v].op
    BY <1>1 DEF Upload
  <1> QED
    BY <1>2, <1>3 DEF GoesOn, Key

LEMMA PutObjectIs ==
  ASSUME UploadsTypeOK, NEW u \in Uploads, NEW x \in Steps, PutObject(u, x), up[u].owner \in Owners,
         up[u].op = "store"
  PROVE  /\ GoesOn(u, x)
         /\ object' \in [Owners \X Numbers -> Uploads \cup {NoPicture}]
         /\ object'[Key(u)] = u
         /\ \A k : k # Key(u) => object'[k] = object[k]
         /\ \A v \in Uploads \ {u} : up[v].op = "write" /\ SameKey(v, u) => up'[v].over
  <1>1. /\ object' = [object EXCEPT ![Key(u)] = u] /\ up \in [Uploads -> Upload]
        /\ object \in [Owners \X Numbers -> Uploads \cup {NoPicture}]
        /\ Key(u) \in Owners \X Numbers
        /\ up' = [v \in Uploads |->
                    IF v = u THEN [up[v] EXCEPT !.op = x]
                    ELSE IF up[v].op = "write" /\ Key(v) = Key(u) THEN [up[v] EXCEPT !.over = TRUE]
                    ELSE up[v]]
    BY DEF PutObject, UploadsTypeOK, Upload, Key
  <1>2. ASSUME NEW v \in Uploads
        PROVE  /\ up'[v] \in Upload /\ up'[v].owner = up[v].owner /\ up'[v].number = up[v].number
               /\ up[v].over => up'[v].over
               /\ v # u => up'[v].op = up[v].op
               /\ v # u /\ up[v].op = "write" /\ Key(v) = Key(u) => up'[v].over
    BY <1>1 DEF Upload
  <1>3. up'[u].op = x
    BY <1>1 DEF Upload
  <1>4. up' \in [Uploads -> Upload]
    BY <1>1, <1>2
  <1>5. GoesOn(u, x)
    BY <1>2, <1>3, <1>4 DEF GoesOn, Key
  <1> QED
    BY <1>1, <1>2, <1>5 DEF SameKey

\* Who goes on from one step to another that is no deletion keeps every picture.
LEMMA StillKept ==
  ASSUME NEW u \in Uploads, NEW x, GoesOn(u, x), NEW w \in Uploads, Kept(w),
         object'[Key(w)] = object[Key(w)] \/ up'[w].over,
         up[u].op # "undone"
  PROVE  Kept(w)'
  <1>1. Key(w)' = Key(w) /\ \A v \in Uploads : Key(v)' = Key(v)
    BY DEF GoesOn
  <1>2. CASE object[Key(w)] = w
    BY <1>1, <1>2 DEF Kept
  <1>3. CASE up[w].over
    BY <1>3 DEF Kept, GoesOn
  <1>4. CASE \E v \in Uploads : SameKey(v, w) /\ up[v].op = "undone"
    <2>1. PICK v \in Uploads : SameKey(v, w) /\ up[v].op = "undone"
      BY <1>4
    <2>2. up'[v].op = "undone" /\ SameKey(v, w)'
      BY <1>1, <2>1 DEF GoesOn, SameKey
    <2> QED
      BY <2>2 DEF Kept
  <1> QED
    BY <1>2, <1>3, <1>4 DEF Kept

\* What a row names stays kept or threatened, unless its threat is gone.
LEMMA RowStays ==
  ASSUME PicturesInv, NEW u \in Uploads, NEW x \in {"write", "done", "rollback", "undone", "leaked", "refused"},
         GoesOn(u, x), up[u].op \in {"store", "write", "rollback"},
         NEW o \in Owners, NEW w \in Uploads, row[o] = w,
         \/ object'[Key(w)] = object[Key(w)]
         \/ SameKey(w, u) /\ x \in {"write", "leaked"} /\ u # w
         \/ SameKey(w, u) /\ x = "undone",
         x = "done" /\ up[u].op = "write" => ~SameKey(w, u),
         x = "done" => up[u].op = "write",
         x \in {"write", "refused"} => up[u].op = "store",
         up[u].op = "store" => u # w
  PROVE  Named(o, w)'
  <1>1. /\ w \in Uploads /\ up[w].owner = o /\ up[w].op \in {"done", "rollback", "undone", "leaked"}
        /\ Kept(w) \/ Threatened(w)
    BY DEF PicturesInv, Named
  <1>2. /\ up'[u].op = x
        /\ \A v \in Uploads : /\ Key(v)' = Key(v) /\ up'[v].owner = up[v].owner
                              /\ up[v].over => up'[v].over
                              /\ v # u => up'[v].op = up[v].op
    BY DEF GoesOn
  <1>3. \A v \in Uploads : SameKey(v, w)' = SameKey(v, w)
    BY <1>1, <1>2 DEF SameKey
  <1>4. up'[w].owner = o /\ up'[w].op \in {"done", "rollback", "undone", "leaked"}
    BY <1>1, <1>2
  <1>5. CASE SameKey(w, u) /\ x = "undone"
    <2>1. SameKey(u, w)' /\ up'[u].op = "undone"
      BY <1>1, <1>2, <1>3, <1>5 DEF SameKey
    <2>2. Kept(w)'
      BY <2>1 DEF Kept
    <2> QED
      BY <1>4, <2>2 DEF Named
  <1>6. CASE SameKey(w, u) /\ x \in {"write", "leaked", "rollback"} /\ w # u
    <2>1. SameKey(u, w)' /\ up'[u].op = x
      BY <1>1, <1>2, <1>3, <1>6 DEF SameKey
    <2>2. Threatened(w)'
      BY <1>6, <2>1 DEF Threatened
    <2> QED
      BY <1>4, <2>2 DEF Named
  <1>7. CASE object'[Key(w)] = object[Key(w)] /\ Kept(w)
    <2>1. Kept(w)'
      BY <1>1, <1>7, StillKept
    <2> QED
      BY <1>4, <2>1 DEF Named
  <1>8. CASE Threatened(w) /\ ~SameKey(w, u)
    <2>1. PICK v \in Uploads \ {w} : SameKey(v, w) /\ up[v].op \in {"write", "rollback", "leaked"}
      BY <1>8 DEF Threatened
    <2>2. v # u
      BY <1>8, <2>1 DEF SameKey
    <2>3. SameKey(v, w)' /\ up'[v].op = up[v].op
      BY <1>2, <1>3, <2>1, <2>2
    <2>4. Threatened(w)'
      BY <2>1, <2>3 DEF Threatened
    <2> QED
      BY <1>4, <2>4 DEF Named
  <1>9. CASE Threatened(w) /\ SameKey(w, u) /\ x \in {"done", "refused"}
    <2>1. PICK v \in Uploads \ {w} : SameKey(v, w) /\ up[v].op \in {"write", "rollback", "leaked"}
      BY <1>9 DEF Threatened
    <2>2. v # u
      BY <1>9, <2>1
    <2>3. SameKey(v, w)' /\ up'[v].op = up[v].op
      BY <1>2, <1>3, <2>1, <2>2
    <2>4. Threatened(w)'
      BY <2>1, <2>3 DEF Threatened
    <2> QED
      BY <1>4, <2>4 DEF Named
  <1>10. CASE Threatened(w) /\ w = u
    <2>1. PICK v \in Uploads \ {w} : SameKey(v, w) /\ up[v].op \in {"write", "rollback", "leaked"}
      BY <1>10 DEF Threatened
    <2>2. SameKey(v, w)' /\ up'[v].op = up[v].op
      BY <1>2, <1>3, <1>10, <2>1
    <2>3. Threatened(w)'
      BY <2>1, <2>2 DEF Threatened
    <2> QED
      BY <1>4, <2>3 DEF Named
  <1> QED
    BY <1>1, <1>5, <1>6, <1>7, <1>8, <1>9, <1>10

\* The statement of one upload that names its picture in its row, or does not.
LEMMA WriteKeeps ==
  ASSUME PicturesInv, NEW u \in Uploads, NEW x \in {"done", "rollback", "leaked"},
         up[u].op = "write", SetOp(u, x), UNCHANGED <<object, now>>,
         \/ row' = [row EXCEPT ![up[u].owner] = u]
         \/ row' = row /\ x # "done"
  PROVE  PicturesInv'
  <1>1. GoesOn(u, x) /\ UploadsTypeOK /\ up[u].owner \in Owners
    BY SetOpIs DEF PicturesInv, Steps
  <1>2. /\ up'[u].op = x
        /\ \A v \in Uploads : /\ Key(v)' = Key(v) /\ up'[v].owner = up[v].owner
                              /\ v # u => up'[v].op = up[v].op
    BY <1>1 DEF GoesOn
  <1>3. UploadsTypeOK'
    BY <1>1 DEF UploadsTypeOK, GoesOn
  <1>4. \A v \in Uploads : up'[v].op # "new" => up'[v].owner \in Owners
    BY <1>1, <1>2 DEF PicturesInv
  <1>5. ASSUME NEW v \in Uploads, up'[v].op = "write"
        PROVE  Kept(v)'
    <2>1. v # u /\ up[v].op = "write"
      BY <1>2, <1>5
    <2>2. Kept(v)
      BY <2>1 DEF PicturesInv
    <2> QED
      BY <1>1, <2>2, StillKept
  <1>6. Kept(u)'
    <2>1. Kept(u)
      BY DEF PicturesInv
    <2> QED
      BY <1>1, <2>1, StillKept
  <1>7. ASSUME NEW o \in Owners, NEW w \in Uploads, row'[o] = w
        PROVE  Named(o, w)'
    <2>1. CASE row[o] = w
      <3>1. up[w].owner = o /\ up[w].op # "write"
        BY <2>1 DEF PicturesInv, Named
      <3>2. x = "done" => ~SameKey(w, u)
        <4>1. CASE x = "done" /\ SameKey(w, u)
          <5>1. up[u].owner = o
            BY <3>1, <4>1 DEF SameKey, Key
          <5>2. row'[o] = u
            BY <1>1, <4>1, <5>1 DEF UploadsTypeOK
          <5> QED
            BY <1>7, <3>1, <5>2
        <4> QED
          BY <4>1
      <3> QED
        BY <1>1, <2>1, <3>1, <3>2, RowStays
    <2>2. CASE row[o] # w
      <3>1. o = up[u].owner /\ w = u
        BY <1>1, <1>7, <2>2 DEF UploadsTypeOK
      <3> QED
        BY <1>2, <1>6, <3>1 DEF Named
    <2> QED
      BY <2>1, <2>2
  <1> QED
    BY <1>3, <1>4, <1>5, <1>7 DEF PicturesInv

\* The storage takes the picture of u, in time or not.
LEMMA StoreKeeps ==
  ASSUME PicturesInv, NEW u \in Uploads, NEW x \in {"write", "leaked"},
         up[u].op = "store", PutObject(u, x), UNCHANGED <<row, now>>
  PROVE  PicturesInv'
  <1>1. /\ UploadsTypeOK /\ up[u].owner \in Owners
        /\ \A o \in Owners, w \in Uploads : row[o] = w => w # u
    BY DEF PicturesInv, Named
  <1>2. /\ GoesOn(u, x)
        /\ object' \in [Owners \X Numbers -> Uploads \cup {NoPicture}]
        /\ object'[Key(u)] = u
        /\ \A k : k # Key(u) => object'[k] = object[k]
        /\ \A v \in Uploads \ {u} : up[v].op = "write" /\ SameKey(v, u) => up'[v].over
    BY <1>1, PutObjectIs DEF Steps
  <1>3. /\ up'[u].op = x
        /\ \A v \in Uploads : /\ Key(v)' = Key(v) /\ up'[v].owner = up[v].owner
                              /\ v # u => up'[v].op = up[v].op
    BY <1>2 DEF GoesOn
  <1>4. UploadsTypeOK'
    BY <1>1, <1>2 DEF UploadsTypeOK, GoesOn
  <1>5. \A v \in Uploads : up'[v].op # "new" => up'[v].owner \in Owners
    BY <1>1, <1>3 DEF PicturesInv
  <1>6. ASSUME NEW v \in Uploads, up'[v].op = "write"
        PROVE  Kept(v)'
    <2>1. CASE v = u
      BY <1>2, <1>3, <2>1 DEF Kept
    <2>2. CASE v # u
      <3>1. up[v].op = "write" /\ Kept(v)
        BY <1>3, <1>6, <2>2 DEF PicturesInv
      <3>2. object'[Key(v)] = object[Key(v)] \/ up'[v].over
        BY <1>2, <2>2, <3>1 DEF SameKey
      <3> QED
        BY <1>2, <3>1, <3>2, StillKept
    <2> QED
      BY <2>1, <2>2
  <1>7. ASSUME NEW o \in Owners, NEW w \in Uploads, row'[o] = w
        PROVE  Named(o, w)'
    <2>1. row[o] = w /\ w # u
      BY <1>1, <1>7
    <2>2. object'[Key(w)] = object[Key(w)] \/ SameKey(w, u)
      BY <1>2 DEF SameKey
    <2> QED
      BY <1>2, <2>1, <2>2, RowStays
  <1> QED
    BY <1>4, <1>5, <1>6, <1>7 DEF PicturesInv

\* An upload ends without its row: it deletes its picture, leaves it, or had none.
LEMMA EndKeeps ==
  ASSUME PicturesInv, NEW u \in Uploads, NEW x \in {"undone", "leaked", "refused"}, SetOp(u, x),
         UNCHANGED <<row, now>>,
         \/ up[u].op = "store" /\ x = "refused" /\ object' = object
         \/ up[u].op = "rollback" /\ x = "leaked" /\ object' = object
         \/ up[u].op = "rollback" /\ x = "undone" /\ object' = [object EXCEPT ![Key(u)] = NoPicture]
  PROVE  PicturesInv'
  <1>1. GoesOn(u, x) /\ UploadsTypeOK /\ up[u].owner \in Owners
    BY SetOpIs DEF PicturesInv, Steps
  <1>2. /\ up'[u].op = x
        /\ \A v \in Uploads : /\ Key(v)' = Key(v) /\ up'[v].owner = up[v].owner
                              /\ v # u => up'[v].op = up[v].op
    BY <1>1 DEF GoesOn
  <1>3. /\ object' \in [Owners \X Numbers -> Uploads \cup {NoPicture}]
        /\ \A v \in Uploads : object'[Key(v)] = object[Key(v)] \/ (SameKey(v, u) /\ x = "undone")
    <2>1. object \in [Owners \X Numbers -> Uploads \cup {NoPicture}] /\ up \in [Uploads -> Upload]
      BY <1>1 DEF UploadsTypeOK
    <2>3. CASE object' = object
      BY <2>1, <2>3
    <2>4. CASE x = "undone" /\ object' = [object EXCEPT ![Key(u)] = NoPicture]
      <3>1. object' \in [Owners \X Numbers -> Uploads \cup {NoPicture}]
        BY <2>1, <2>4
      <3>2. \A k : k # Key(u) => object'[k] = object[k]
        BY <2>1, <2>4
      <3> QED
        BY <2>4, <3>1, <3>2 DEF SameKey
    <2> QED
      BY <2>3, <2>4
  <1>4. UploadsTypeOK'
    BY <1>1, <1>3 DEF UploadsTypeOK, GoesOn
  <1>5. \A v \in Uploads : up'[v].op # "new" => up'[v].owner \in Owners
    BY <1>1, <1>2 DEF PicturesInv
  <1>6. ASSUME NEW v \in Uploads, up'[v].op = "write"
        PROVE  Kept(v)'
    <2>1. v # u /\ up[v].op = "write" /\ Kept(v)
      BY <1>2, <1>6 DEF PicturesInv
    <2>2. CASE SameKey(v, u) /\ x = "undone"
      <3>1. SameKey(u, v)' /\ up'[u].op = "undone"
        BY <1>2, <2>2 DEF SameKey
      <3> QED
        BY <3>1 DEF Kept
    <2>3. CASE object'[Key(v)] = object[Key(v)]
      BY <1>1, <2>1, <2>3, StillKept
    <2> QED
      BY <1>3, <2>2, <2>3
  <1>7. ASSUME NEW o \in Owners, NEW w \in Uploads, row'[o] = w
        PROVE  Named(o, w)'
    <2>1. row[o] = w /\ (up[u].op = "store" => u # w)
      BY <1>7 DEF PicturesInv, Named
    <2>2. object'[Key(w)] = object[Key(w)] \/ (SameKey(w, u) /\ x = "undone")
      BY <1>3
    <2> QED
      BY <1>1, <2>1, <2>2, RowStays
  <1> QED
    BY <1>4, <1>5, <1>6, <1>7 DEF PicturesInv

\* The owner of an upload that is asked for becomes known, and with it its key.
LEMMA BeginKeeps ==
  ASSUME PicturesInv, NEW u \in Uploads, NEW p \in Owners, Begin(u, p)
  PROVE  PicturesInv'
  <1>1. /\ UploadsTypeOK /\ up \in [Uploads -> Upload] /\ up[u].op = "new"
        /\ object' = object /\ row' = row /\ now' = now
    BY DEF PicturesInv, UploadsTypeOK, Begin
  <1>2. up' = [up EXCEPT ![u] = [op |-> "store", owner |-> p, number |-> NumberFor(p), over |-> FALSE]]
    BY DEF Begin
  <1>3. NumberFor(p) \in Numbers
    BY <1>1, MaxTimeAssumption DEF UploadsTypeOK, NumberFor, Numbers
  <1>4. /\ up' \in [Uploads -> Upload]
        /\ up'[u].op = "store" /\ up'[u].owner = p
        /\ \A v \in Uploads \ {u} : up'[v] = up[v]
    BY <1>1, <1>2, <1>3 DEF Upload, Steps
  <1>5. UploadsTypeOK'
    BY <1>1, <1>4 DEF UploadsTypeOK
  <1>6. \A v \in Uploads : up'[v].op # "new" => up'[v].owner \in Owners
    BY <1>4 DEF PicturesInv
  <1>7. \A v \in Uploads \ {u} : Key(v)' = Key(v)
    BY <1>4 DEF Key
  <1>8. ASSUME NEW v \in Uploads \ {u}, Kept(v)
        PROVE  Kept(v)'
    <2>1. CASE \E w \in Uploads : SameKey(w, v) /\ up[w].op = "undone"
      <3>1. PICK w \in Uploads : SameKey(w, v) /\ up[w].op = "undone"
        BY <2>1
      <3>2. w # u /\ SameKey(w, v)' /\ up'[w].op = "undone"
        BY <1>1, <1>4, <1>7, <3>1 DEF SameKey
      <3> QED
        BY <3>2 DEF Kept
    <2> QED
      BY <1>1, <1>4, <1>7, <1>8, <2>1 DEF Kept
  <1>9. ASSUME NEW v \in Uploads \ {u}, Threatened(v)
        PROVE  Threatened(v)'
    <2>1. PICK w \in Uploads \ {v} : SameKey(w, v) /\ up[w].op \in {"write", "rollback", "leaked"}
      BY <1>9 DEF Threatened
    <2>2. w # u /\ SameKey(w, v)' /\ up'[w].op = up[w].op
      BY <1>1, <1>4, <1>7, <2>1 DEF SameKey
    <2> QED
      BY <2>1, <2>2 DEF Threatened
  <1>10. ASSUME NEW v \in Uploads, up'[v].op = "write"
         PROVE  Kept(v)'
    <2>1. v # u /\ Kept(v)
      BY <1>4, <1>10 DEF PicturesInv
    <2> QED
      BY <1>8, <2>1
  <1>11. ASSUME NEW o \in Owners, NEW w \in Uploads, row'[o] = w
         PROVE  Named(o, w)'
    <2>1. Named(o, w) /\ w # u
      BY <1>1, <1>11 DEF PicturesInv, Named
    <2>2. (Kept(w) \/ Threatened(w))'
      BY <1>8, <1>9, <2>1 DEF Named
    <2> QED
      BY <1>4, <2>1, <2>2 DEF Named
  <1> QED
    BY <1>5, <1>6, <1>10, <1>11 DEF PicturesInv

\* A crash leaves every picture where it is, and nobody to delete it.
LEMMA StopKeeps == PicturesInv /\ ServerStops => PicturesInv'
  <1> SUFFICES ASSUME PicturesInv, ServerStops PROVE PicturesInv'
    OBVIOUS
  <1>1. /\ UploadsTypeOK /\ up \in [Uploads -> Upload]
        /\ object' = object /\ row' = row /\ now' = now
        /\ up' = [u \in Uploads |->
                    [up[u] EXCEPT !.op = CASE @ = "store" -> "refused"
                                           [] @ \in {"write", "rollback"} -> "leaked"
                                           [] OTHER -> @]]
    BY DEF PicturesInv, UploadsTypeOK, ServerStops
  <1>2. ASSUME NEW u \in Uploads
        PROVE  /\ up'[u] \in Upload
               /\ up'[u].owner = up[u].owner /\ up'[u].number = up[u].number /\ up'[u].over = up[u].over
               /\ up[u].op = "undone" => up'[u].op = "undone"
               /\ up[u].op \in {"write", "rollback", "leaked"} => up'[u].op = "leaked"
               /\ up[u].op = "done" => up'[u].op = "done"
               /\ up'[u].op # "write" /\ (up'[u].op # "new" => up[u].op # "new")
    <2>1. up[u] \in Upload
      BY <1>1
    <2>2. up'[u] = [up[u] EXCEPT !.op = CASE up[u].op = "store" -> "refused"
                                          [] up[u].op \in {"write", "rollback"} -> "leaked"
                                          [] OTHER -> up[u].op]
      BY <1>1, <2>1 DEF Upload
    <2>3. CASE up[u].op = "store"
      BY <2>1, <2>2, <2>3 DEF Upload, Steps
    <2>4. CASE up[u].op \in {"write", "rollback"}
      BY <2>1, <2>2, <2>4 DEF Upload, Steps
    <2>5. CASE up[u].op \notin {"store", "write", "rollback"}
      BY <2>1, <2>2, <2>5 DEF Upload, Steps
    <2> QED
      BY <2>3, <2>4, <2>5
  <1>3. UploadsTypeOK'
    BY <1>1, <1>2 DEF UploadsTypeOK
  <1>4. \A v \in Uploads : Key(v)' = Key(v)
    BY <1>2 DEF Key
  <1>5. ASSUME NEW o \in Owners, NEW w \in Uploads, row'[o] = w
        PROVE  Named(o, w)'
    <2>1. Named(o, w)
      BY <1>1, <1>5 DEF PicturesInv
    <2>2. CASE Kept(w)
      <3>1. CASE \E v \in Uploads : SameKey(v, w) /\ up[v].op = "undone"
        <4>1. PICK v \in Uploads : SameKey(v, w) /\ up[v].op = "undone"
          BY <3>1
        <4>2. SameKey(v, w)' /\ up'[v].op = "undone"
          BY <1>2, <1>4, <4>1 DEF SameKey
        <4>3. Kept(w)'
          BY <4>2 DEF Kept
        <4> QED
          BY <1>2, <2>1, <4>3 DEF Named
      <3>2. CASE object[Key(w)] = w \/ up[w].over
        <4>1. Kept(w)'
          BY <1>1, <1>2, <1>4, <3>2 DEF Kept
        <4> QED
          BY <1>2, <2>1, <4>1 DEF Named
      <3> QED
        BY <2>2, <3>1, <3>2 DEF Kept
    <2>3. CASE Threatened(w)
      <3>1. PICK v \in Uploads \ {w} : SameKey(v, w) /\ up[v].op \in {"write", "rollback", "leaked"}
        BY <2>3 DEF Threatened
      <3>2. SameKey(v, w)' /\ up'[v].op = "leaked"
        BY <1>2, <1>4, <3>1 DEF SameKey
      <3>3. Threatened(w)'
        BY <3>2 DEF Threatened
      <3> QED
        BY <1>2, <2>1, <3>3 DEF Named
    <2> QED
      BY <2>1, <2>2, <2>3 DEF Named
  <1> QED
    BY <1>1, <1>2, <1>3, <1>5 DEF PicturesInv

LEMMA NextPictures == PicturesInv /\ [UploadsNext]_uploadVars => PicturesInv'
  <1> SUFFICES ASSUME PicturesInv, [UploadsNext]_uploadVars PROVE PicturesInv'
    OBVIOUS
  <1>1. ASSUME NEW u \in Uploads, Store(u) PROVE PicturesInv'
    BY <1>1, StoreKeeps DEF Store
  <1>2. ASSUME NEW u \in Uploads, StoreFails(u) PROVE PicturesInv'
    <2>1. CASE SetOp(u, "refused") /\ UNCHANGED object
      BY <1>2, <2>1, EndKeeps DEF StoreFails
    <2>2. CASE PutObject(u, "leaked")
      BY <1>2, <2>2, StoreKeeps DEF StoreFails
    <2> QED
      BY <1>2, <2>1, <2>2 DEF StoreFails
  <1>3. ASSUME NEW u \in Uploads, WriteRow(u) PROVE PicturesInv'
    BY <1>3, WriteKeeps DEF WriteRow
  <1>4. ASSUME NEW u \in Uploads, WriteFails(u) PROVE PicturesInv'
    <2>1. AfterFailure(u) \in {"rollback", "leaked"}
      BY DEF AfterFailure
    <2> QED
      BY <1>4, <2>1, WriteKeeps DEF WriteFails
  <1>5. ASSUME NEW u \in Uploads, Rollback(u) PROVE PicturesInv'
    BY <1>5, EndKeeps DEF Rollback
  <1>6. ASSUME NEW u \in Uploads, RollbackFails(u) PROVE PicturesInv'
    BY <1>6, EndKeeps DEF RollbackFails
  <1>7. ASSUME NEW u \in Uploads, NEW o \in Owners, Begin(u, o) PROVE PicturesInv'
    BY <1>7, BeginKeeps
  <1>8. CASE Tick
    <2>1. object' = object /\ row' = row /\ up' = up /\ now' \in Numbers
      BY <1>8, MaxTimeAssumption DEF Tick, PicturesInv, UploadsTypeOK, Numbers
    <2> QED
      BY <2>1 DEF PicturesInv, UploadsTypeOK, Named, Kept, Threatened, SameKey, Key
  <1>9. CASE ServerStops
    BY <1>9, StopKeeps
  <1>10. CASE UNCHANGED uploadVars
    BY <1>10 DEF uploadVars, PicturesInv, UploadsTypeOK, Named, Kept, Threatened, SameKey, Key
  <1> QED
    BY <1>1, <1>2, <1>3, <1>4, <1>5, <1>6, <1>7, <1>8, <1>9, <1>10 DEF UploadsNext, Finish

LEMMA InitPictures == UploadsInit => PicturesInv
  BY OwnersAssumption, MaxTimeAssumption
  DEF UploadsInit, PicturesInv, UploadsTypeOK, Upload, Steps, Numbers

LEMMA InvShows == PicturesInv => PicturesShown
  <1> SUFFICES ASSUME PicturesInv, NEW o \in Owners PROVE Shown(o) \/ Disturbed(o)
    BY DEF PicturesShown
  <1>1. CASE row[o] = NoPicture
    BY <1>1 DEF Shown
  <1>2. CASE row[o] # NoPicture
    <2>1. PICK w \in Uploads : row[o] = w
      BY <1>2 DEF PicturesInv, UploadsTypeOK
    <2>2. up[w].owner = o /\ (Kept(w) \/ Threatened(w))
      BY <2>1 DEF PicturesInv, Named
    <2>3. \A v \in Uploads : SameKey(v, w) => v \in Rivals(o)
      BY <2>1, <2>2 DEF SameKey, Key, Rivals
    <2>4. CASE Kept(w)
      BY <2>1, <2>3, <2>4 DEF Kept, Shown, Disturbed
    <2>5. CASE Threatened(w)
      BY <2>1, <2>3, <2>5 DEF Threatened, Disturbed
    <2> QED
      BY <2>2, <2>4, <2>5
  <1> QED
    BY <1>1, <1>2

\* Of any uploads of any groups, users and settlements, however they overlap and
\* fail: every state of them has its type ...
THEOREM UploadsTypeCorrect == UploadsSpec => []UploadsTypeOK
  <1>1. PicturesInv => UploadsTypeOK
    BY DEF PicturesInv
  <1> QED
    BY <1>1, InitPictures, NextPictures, PTL DEF UploadsSpec

\* ... and a row names the picture it was written for, unless a rival disturbed it.
THEOREM RowsShowTheirPicture == UploadsSpec => []PicturesShown
  BY InvShows, InitPictures, NextPictures, PTL DEF UploadsSpec
=============================================================================
