--------------------------- MODULE GroupChatProofs ---------------------------
(***************************************************************************)
(* Proofs about GroupChat for every set of members, recommendations,       *)
(* messages and requests, and about Pages, reading its messages and the    *)
(* other lists back, for every length of the list and of a page.           *)
(***************************************************************************)
EXTENDS GroupChat, Pages, FiniteSetTheorems, TLAPS

LEMMA IdleIsRequest == Idle \in Request /\ Idle.op = "idle"
  BY DEF Idle, Request

\* One request goes on; the others are where they were.
LEMMA OneGoes ==
  ASSUME TypeOK, NEW r \in Requests, NEW next, Goto(r, next)
  PROVE  req'[r] = next /\ \A q \in Requests \ {r} : req'[q] = req[q]
  BY DEF TypeOK, Goto

LEMMA ReqTyped ==
  ASSUME TypeOK, NEW r \in Requests, NEW next \in Request, Goto(r, next)
  PROVE  req' \in [Requests -> Request]
  BY DEF TypeOK, Goto

\* What a request carries, by what it does next.
LEMMA Carries ==
  ASSUME TypeOK, NEW r \in Requests
  PROVE  /\ req[r].op \in {"ask", "card"} => req[r].batch \in Batches
         /\ req[r].op = "say" => req[r].message \in Messages
         /\ req[r].op \in {"like", "say_like", "say_unlike"} => req[r].pair \in Pairs
  BY DEF TypeOK, Request
-----------------------------------------------------------------------------
(***************************************************************************)
(* Types.                                                                  *)
(***************************************************************************)

LEMMA InitType == Init => TypeOK
  <1>1. <<>> \in Seq(Messages)
    OBVIOUS
  <1>2. Init => req \in [Requests -> Request]
    BY IdleIsRequest DEF Init
  <1> QED
    BY <1>1, <1>2 DEF Init, TypeOK

LEMMA StepTypes ==
  ASSUME TypeOK, NEW r \in Requests, Step(r)
  PROVE  /\ shown' \subseteq Members /\ room' = room
         /\ log' \in Seq(Messages) /\ said' \in Seq(Messages)
         /\ stored' \subseteq Recs /\ batches' \subseteq Batches
         /\ likes' \subseteq Pairs /\ likesShown' \subseteq Pairs
         /\ req' \in [Requests -> Request]
  <1>1. ASSUME NEW t \in Texts, SendMessage(r, t) PROVE log' \in Seq(Messages) /\ req' \in [Requests -> Request]
    <2>1. t \in Messages /\ [op |-> "say", message |-> t] \in Request
      BY DEF Messages, Request
    <2> QED
      BY <1>1, <2>1, ReqTyped DEF SendMessage, TypeOK
  <1>2. ASSUME NEW b \in Batches, TriggerGeneration(r, b) PROVE req' \in [Requests -> Request]
    <2>1. [op |-> "ask", batch |-> b] \in Request
      BY DEF Request
    <2> QED
      BY <1>2, <2>1, ReqTyped DEF TriggerGeneration
  <1>3. ASSUME StoreBatch(r) PROVE req' \in [Requests -> Request] /\ stored' \subseteq Recs
    <2>1. [op |-> "card", batch |-> req[r].batch] \in Request
      BY <1>3, Carries DEF Request, StoreBatch
    <2> QED
      BY <1>3, <2>1, ReqTyped DEF StoreBatch, TypeOK
  <1>4. ASSUME SaveCard(r) PROVE log' \in Seq(Messages) /\ req' \in [Requests -> Request]
    <2>1. req[r].batch \in Messages /\ [op |-> "say", message |-> req[r].batch] \in Request
      BY <1>4, Carries DEF Request, SaveCard, Messages
    <2> QED
      BY <1>4, <2>1, ReqTyped DEF SaveCard, TypeOK
  <1>5. ASSUME SayMessage(r) PROVE said' \in Seq(Messages) /\ req' \in [Requests -> Request]
    BY <1>5, Carries, IdleIsRequest, ReqTyped DEF SayMessage, Finish, TypeOK
  <1>6. ASSUME GenerationFails(r) \/ SayLiked(r) PROVE req' \in [Requests -> Request]
    BY <1>6, IdleIsRequest, ReqTyped DEF GenerationFails, SayLiked, Finish
  <1>7. ASSUME NEW p \in Pairs, FindLiked(r, p[1], p[2]) PROVE req' \in [Requests -> Request]
    <2>1. p = <<p[1], p[2]>>
      BY DEF Pairs
    <2>2. [op |-> "like", pair |-> p] \in Request
      BY DEF Request
    <2> QED
      BY <1>7, <2>1, <2>2, ReqTyped DEF FindLiked
  <1>8. ASSUME NEW p \in Pairs, Unlike(r, p) PROVE req' \in [Requests -> Request]
    <2>1. [op |-> "say_unlike", pair |-> p] \in Request
      BY DEF Request
    <2> QED
      BY <1>8, <2>1, ReqTyped DEF Unlike
  <1>9. ASSUME Like(r) PROVE req' \in [Requests -> Request] /\ likes' \subseteq Pairs
    <2>1. req[r].pair \in Pairs /\ [op |-> "say_like", pair |-> req[r].pair] \in Request
      BY <1>9, Carries DEF Request, Like
    <2> QED
      BY <1>9, <2>1, IdleIsRequest, ReqTyped DEF Like, Finish, TypeOK
  <1>10. req' \in [Requests -> Request]
    BY <1>1, <1>2, <1>3, <1>4, <1>5, <1>6, <1>7, <1>8, <1>9 DEF Step
  <1>11. shown' \subseteq Members /\ room' = room
    BY DEF Step, SendMessage, TriggerGeneration, GenerationFails, StoreBatch, SaveCard, SayMessage,
           FindLiked, Unlike, Like, SayLiked, EmitGenerating, TypeOK
  <1>12. log' \in Seq(Messages) /\ said' \in Seq(Messages)
    BY <1>1, <1>4, <1>5
       DEF Step, SendMessage, TriggerGeneration, GenerationFails, StoreBatch, SaveCard, SayMessage,
           FindLiked, Unlike, Like, SayLiked, chat, TypeOK
  <1>13. stored' \subseteq Recs /\ batches' \subseteq Batches
    BY <1>3
       DEF Step, SendMessage, TriggerGeneration, GenerationFails, StoreBatch, SaveCard, SayMessage,
           FindLiked, Unlike, Like, SayLiked, recs, TypeOK
  <1>14. likes' \subseteq Pairs /\ likesShown' \subseteq Pairs
    BY <1>9, Carries
       DEF Step, SendMessage, TriggerGeneration, GenerationFails, StoreBatch, SaveCard, SayMessage,
           FindLiked, Unlike, Like, SayLiked, recs, TypeOK
  <1> QED
    BY <1>10, <1>11, <1>12, <1>13, <1>14

LEMMA NextType == TypeOK /\ [Next]_vars => TypeOK'
  <1> SUFFICES ASSUME TypeOK, [Next]_vars PROVE TypeOK'
    OBVIOUS
  <1>1. CASE UNCHANGED vars
    BY <1>1 DEF vars, TypeOK
  <1>2. CASE Next
    <2>1. blurred' \subseteq Pairs /\ overtaken' \in BOOLEAN
      BY <1>2 DEF Next, TypeOK, Overtaking
    <2>2. CASE ServerCrash
      BY <2>1, <2>2, IdleIsRequest DEF ServerCrash, TypeOK, chat, recs
    <2>3. ASSUME NEW r \in Requests, Step(r) PROVE TypeOK'
      BY <2>1, <2>3, StepTypes DEF TypeOK
    <2>4. ASSUME NEW m \in Members, JoinChat(m) \/ LeaveChat(m) PROVE TypeOK'
      BY <2>1, <2>4 DEF JoinChat, LeaveChat, TypeOK, chat, recs
    <2>5. ASSUME NEW gone, DeleteRecs(gone) PROVE TypeOK'
      BY <2>1, <2>5 DEF DeleteRecs, TypeOK, chat
    <2> QED
      BY <1>2, <2>2, <2>3, <2>4, <2>5 DEF Next, Steps, deleteByBatchId, markActedOn
  <1> QED
    BY <1>1, <1>2

\* Every reachable state of the chat, its recommendations and its requests is well typed.
THEOREM ChatTypeCorrect == Spec => []TypeOK
  BY InitType, NextType, PTL DEF Spec
-----------------------------------------------------------------------------
(***************************************************************************)
(* The indicator.                                                          *)
(***************************************************************************)

\* A generation that goes on in another request is still one.
LEMMA StillGenerating ==
  ASSUME IndicatorGoesOff, NEW r \in Requests, \A q \in Requests \ {r} : req'[q] = req[q],
         shown' \cap room' \subseteq shown \cap room,
         Generating(r) => Generating(r)'
  PROVE  IndicatorGoesOff'
  BY DEF IndicatorGoesOff, Generating

LEMMA StepIndicator ==
  ASSUME TypeOK, IndicatorGoesOff, NEW r \in Requests, Step(r)
  PROVE  IndicatorGoesOff'
  <1>0. room' = room
    BY StepTypes
  <1>1. ASSUME NEW b \in Batches, TriggerGeneration(r, b) PROVE IndicatorGoesOff'
    <2>1. req'[r].op = "ask"
      BY <1>1, OneGoes DEF TriggerGeneration
    <2> QED
      BY <2>1 DEF IndicatorGoesOff, Generating
  <1>2. ASSUME shown' = shown \ room PROVE IndicatorGoesOff'
    BY <1>0, <1>2 DEF IndicatorGoesOff
  <1>3. ASSUME NEW t \in Texts, SendMessage(r, t) PROVE IndicatorGoesOff'
    <2>1. ~Generating(r) /\ shown' = shown /\ \A q \in Requests \ {r} : req'[q] = req[q]
      BY <1>3, OneGoes DEF SendMessage, Generating
    <2> QED
      BY <1>0, <2>1, StillGenerating
  <1>4. ASSUME StoreBatch(r) \/ SaveCard(r) PROVE IndicatorGoesOff'
    <2>1. \A q \in Requests \ {r} : req'[q] = req[q]
      BY <1>4, OneGoes DEF StoreBatch, SaveCard
    <2>2. Generating(r)'
      <3>1. CASE StoreBatch(r)
        BY <3>1, OneGoes DEF StoreBatch, Generating
      <3>2. CASE SaveCard(r)
        <4>1. req'[r] = [op |-> "say", message |-> req[r].batch] /\ req[r].batch \in Batches
          BY <3>2, OneGoes, Carries DEF SaveCard
        <4> QED
          BY <4>1 DEF Generating
      <3> QED
        BY <1>4, <3>1, <3>2
    <2>3. shown' = shown
      BY <1>4 DEF StoreBatch, SaveCard
    <2> QED
      BY <1>0, <2>1, <2>2, <2>3, StillGenerating
  <1>5. ASSUME SayMessage(r), req[r].message \notin Batches PROVE IndicatorGoesOff'
    <2>1. ~Generating(r) /\ shown' = shown /\ \A q \in Requests \ {r} : req'[q] = req[q]
      BY <1>5, OneGoes DEF SayMessage, Generating, Finish
    <2> QED
      BY <1>0, <2>1, StillGenerating
  <1>6. ASSUME NEW p \in Pairs, FindLiked(r, p[1], p[2]) \/ Unlike(r, p) PROVE IndicatorGoesOff'
    <2>1. ~Generating(r) /\ shown' = shown /\ \A q \in Requests \ {r} : req'[q] = req[q]
      BY <1>6, OneGoes DEF FindLiked, Unlike, Generating
    <2> QED
      BY <1>0, <2>1, StillGenerating
  <1>7. ASSUME Like(r) \/ SayLiked(r) PROVE IndicatorGoesOff'
    <2>1. ~Generating(r) /\ shown' = shown /\ \A q \in Requests \ {r} : req'[q] = req[q]
      BY <1>7, OneGoes DEF Like, SayLiked, Generating, Finish
    <2> QED
      BY <1>0, <2>1, StillGenerating
  <1>8. GenerationFails(r) \/ (SayMessage(r) /\ req[r].message \in Batches) => shown' = shown \ room
    BY DEF GenerationFails, SayMessage, EmitGenerating
  <1> QED
    BY <1>1, <1>2, <1>3, <1>4, <1>5, <1>6, <1>7, <1>8 DEF Step

LEMMA NextIndicator == TypeOK /\ IndicatorGoesOff /\ [Next]_vars => IndicatorGoesOff'
  <1> SUFFICES ASSUME TypeOK, IndicatorGoesOff, [Next]_vars PROVE IndicatorGoesOff'
    OBVIOUS
  <1>1. ASSUME UNCHANGED req, shown' \cap room' \subseteq shown \cap room PROVE IndicatorGoesOff'
    BY <1>1 DEF IndicatorGoesOff, Generating
  <1>2. ASSUME ServerCrash PROVE IndicatorGoesOff'
    BY <1>2 DEF ServerCrash, IndicatorGoesOff
  <1>3. ASSUME NEW m \in Members, JoinChat(m) \/ LeaveChat(m) PROVE IndicatorGoesOff'
    BY <1>1, <1>3 DEF JoinChat, LeaveChat
  <1>4. ASSUME NEW gone, DeleteRecs(gone) PROVE IndicatorGoesOff'
    BY <1>1, <1>4 DEF DeleteRecs
  <1>5. CASE UNCHANGED vars
    BY <1>1, <1>5 DEF vars
  <1> QED
    BY <1>2, <1>3, <1>4, <1>5, StepIndicator DEF Next, Steps, deleteByBatchId, markActedOn

\* Whoever is in the room and was told that a generation runs is so because one does,
\* however many overlap, fail and are broken off.
THEOREM IndicatorIsHonest == Spec => []IndicatorGoesOff
  <1>1. Init => IndicatorGoesOff
    BY DEF Init, IndicatorGoesOff
  <1> QED
    BY <1>1, InitType, NextType, NextIndicator, PTL DEF Spec
-----------------------------------------------------------------------------
(***************************************************************************)
(* Likes.                                                                  *)
(***************************************************************************)

LEMMA InitLikes == Init => LikesInv
  BY ChatAssumption, IdleIsRequest
     DEF Init, LikesInv, BatchesTaken, Asks, UnstoredUnknown, SaysWhatIsStored, LikesShownAreStored, ToSay, Pairs

\* A request that neither was nor is about to speak of a like.
LEMMA Silent ==
  ASSUME NEW r \in Requests, \A q \in Requests \ {r} : req'[q] = req[q],
         req[r].op \notin {"say_like", "say_unlike"}, req'[r].op \notin {"say_like", "say_unlike"}
  PROVE  \A p : ToSay(p)' = ToSay(p) /\ \A q \in ToSay(p) : req'[q].op = req[q].op
  BY DEF ToSay

\* A request that does not begin to ask.
LEMMA NoAsk ==
  ASSUME BatchesTaken, NEW r \in Requests, \A q \in Requests \ {r} : req'[q] = req[q],
         req'[r].op # "ask", batches' = batches
  PROVE  BatchesTaken' /\ \A c \in Recs : ToCome(c)' => ToCome(c)
  <1>1. \A q \in Requests, b \in Batches : Asks(q, b)' => Asks(q, b)
    BY DEF Asks
  <1> QED
    BY <1>1, ChatAssumption DEF BatchesTaken, ToCome

\* Nothing about likes changes.
LEMMA LikesFrame ==
  ASSUME LikesInv, BatchesTaken', \A c \in Recs : ToCome(c)' => ToCome(c),
         blurred \subseteq blurred', UNCHANGED <<stored, likes, likesShown>>,
         \A p : ToSay(p)' = ToSay(p) /\ \A q \in ToSay(p) : req'[q].op = req[q].op
  PROVE  LikesInv'
  <1>1. UnstoredUnknown'
    BY DEF LikesInv, UnstoredUnknown
  <1>2. SaysWhatIsStored'
    <2>1. \A p \in likes' : p[1] \in stored'
      BY DEF LikesInv, SaysWhatIsStored
    <2>2. \A p \in Pairs, q, r \in Requests :
            p \notin blurred' /\ q \in ToSay(p)' /\ r \in ToSay(p)' => q = r
      BY DEF LikesInv, SaysWhatIsStored
    <2>3. \A p \in Pairs, r \in Requests :
            p \notin blurred' /\ p[1] \in stored' /\ r \in ToSay(p)'
              => (p \in likes') = (req'[r].op = "say_like")
      BY DEF LikesInv, SaysWhatIsStored
    <2> QED
      BY <2>1, <2>2, <2>3 DEF SaysWhatIsStored
  <1>3. LikesShownAreStored'
    BY DEF LikesInv, LikesShownAreStored
  <1> QED
    BY <1>1, <1>2, <1>3 DEF LikesInv

\* blurred after a step that is no crash.
LEMMA Blurs ==
  ASSUME NEW p \in Pairs,
         blurred' = blurred \cup {x \in Pairs : \E r1, r2 \in ToSay(x)' : r1 # r2}
  PROVE  /\ p \notin blurred' => p \notin blurred
         /\ p \notin blurred' => \A q, r \in ToSay(p)' : q = r
  OBVIOUS

\* A generation begins: its recommendations were to come before.
LEMMA TriggerLikes ==
  ASSUME TypeOK, LikesInv, NEW r \in Requests, NEW b \in Batches, TriggerGeneration(r, b),
         blurred \subseteq blurred'
  PROVE  LikesInv'
  <1>1. /\ req'[r] = [op |-> "ask", batch |-> b] /\ req[r].op = "idle"
        /\ \A q \in Requests \ {r} : req'[q] = req[q]
        /\ b \notin batches /\ batches' = batches \cup {b}
        /\ UNCHANGED <<stored, likes, likesShown>>
    BY OneGoes DEF TriggerGeneration
  <1>2. \A q \in Requests, x \in Batches : Asks(q, x)' <=> Asks(q, x) \/ (q = r /\ x = b)
    BY <1>1 DEF Asks
  <1>3. BatchesTaken'
    BY <1>1, <1>2 DEF LikesInv, BatchesTaken
  <1>4. \A c \in Recs : ToCome(c)' => ToCome(c)
    BY <1>1, <1>2, ChatAssumption DEF ToCome
  <1> QED
    BY <1>1, <1>3, <1>4, Silent, LikesFrame

\* A batch is stored: nobody liked or heard of its recommendations.
LEMMA StoreLikes ==
  ASSUME TypeOK, LikesInv, NEW r \in Requests, StoreBatch(r), blurred \subseteq blurred'
  PROVE  LikesInv'
  <1>0. BatchesTaken /\ UnstoredUnknown /\ SaysWhatIsStored /\ LikesShownAreStored
    BY DEF LikesInv
  <1>1. PICK b \in Batches, new \in SUBSET Recs :
          /\ \A c \in new : BatchOf[c] = b
          /\ Asks(r, b) /\ stored' = stored \cup new
          /\ req'[r].op = "card" /\ \A q \in Requests \ {r} : req'[q] = req[q]
          /\ UNCHANGED <<batches, likes, likesShown>>
    <2>1. req[r].batch \in Batches
      BY Carries DEF StoreBatch
    <2>2. req'[r] = [op |-> "card", batch |-> req[r].batch] /\ \A q \in Requests \ {r} : req'[q] = req[q]
      BY OneGoes DEF StoreBatch
    <2> QED
      BY <2>1, <2>2 DEF StoreBatch, Asks, recs
  <1>2. BatchesTaken' /\ \A c \in Recs : ToCome(c)' => ToCome(c)
    BY <1>0, <1>1, NoAsk
  <1>3. \A p : ToSay(p)' = ToSay(p) /\ \A q \in ToSay(p) : req'[q].op = req[q].op
    BY <1>1, Silent DEF Asks
  <1>4. \A c \in new : ToCome(c) /\ ~ToCome(c)'
    <2> SUFFICES ASSUME NEW c \in new PROVE ToCome(c) /\ ~ToCome(c)'
      OBVIOUS
    <2>1. BatchOf[c] = b /\ b \in batches /\ \A q \in Requests : Asks(q, b) => q = r
      BY <1>0, <1>1 DEF BatchesTaken
    <2>2. \A q \in Requests : ~Asks(q, b)'
      BY <1>1, <2>1 DEF Asks
    <2> QED
      BY <1>1, <2>1, <2>2 DEF ToCome
  <1>5. UnstoredUnknown'
    BY <1>0, <1>1, <1>2, <1>3, <1>4 DEF UnstoredUnknown
  <1>6. \A p \in Pairs : p[1] \in new => ToSay(p) = {} /\ p \notin likesShown /\ p \notin likes
    <2> SUFFICES ASSUME NEW p \in Pairs, p[1] \in new
                 PROVE  ToSay(p) = {} /\ p \notin likesShown /\ p \notin likes
      OBVIOUS
    <2>1. p = <<p[1], p[2]>> /\ p[1] \in Recs /\ p[2] \in Members
      BY DEF Pairs
    <2>2. p[1] \notin stored /\ ToSay(<<p[1], p[2]>>) = {} /\ <<p[1], p[2]>> \notin likesShown
      BY <1>0, <1>4, <2>1 DEF UnstoredUnknown
    <2>3. ToSay(p) = {} /\ p \notin likesShown
      BY <2>1, <2>2
    <2> QED
      BY <1>0, <2>2, <2>3 DEF SaysWhatIsStored
  <1>7. LikesShownAreStored'
    BY <1>0, <1>1, <1>3, <1>6 DEF LikesShownAreStored
  <1>8. SaysWhatIsStored'
    <2>1. \A p \in likes' : p[1] \in stored'
      BY <1>0, <1>1 DEF SaysWhatIsStored
    <2>2. \A p \in Pairs, q, s \in Requests :
            p \notin blurred' /\ q \in ToSay(p)' /\ s \in ToSay(p)' => q = s
      BY <1>0, <1>3 DEF SaysWhatIsStored
    <2>3. \A p \in Pairs, q \in Requests :
            p \notin blurred' /\ p[1] \in stored' /\ q \in ToSay(p)'
              => (p \in likes') = (req'[q].op = "say_like")
      BY <1>0, <1>1, <1>3, <1>6 DEF SaysWhatIsStored
    <2> QED
      BY <2>1, <2>2, <2>3 DEF SaysWhatIsStored
  <1> QED
    BY <1>2, <1>5, <1>7, <1>8 DEF LikesInv

\* Recommendations are deleted, and the likes of them.
LEMMA DeleteLikes ==
  ASSUME LikesInv, NEW gone, DeleteRecs(gone), blurred \subseteq blurred'
  PROVE  LikesInv'
  <1>0. BatchesTaken /\ UnstoredUnknown /\ SaysWhatIsStored /\ LikesShownAreStored
    BY DEF LikesInv
  <1>1. /\ stored' = stored \ gone /\ likes' = {p \in likes : p[1] \notin gone}
        /\ UNCHANGED <<batches, likesShown, req>>
    BY DEF DeleteRecs
  <1>2. \A p : ToSay(p)' = ToSay(p)
    BY <1>1 DEF ToSay
  <1>3. BatchesTaken' /\ UnstoredUnknown'
    BY <1>0, <1>1, <1>2 DEF BatchesTaken, UnstoredUnknown, ToCome, Asks
  <1>4. \A p \in Pairs : p[1] \in stored' => p[1] \in stored /\ ((p \in likes') <=> (p \in likes))
    BY <1>1
  <1>5. LikesShownAreStored'
    BY <1>0, <1>1, <1>2, <1>4 DEF LikesShownAreStored
  <1>6. SaysWhatIsStored'
    BY <1>0, <1>1, <1>2, <1>4 DEF SaysWhatIsStored
  <1> QED
    BY <1>3, <1>5, <1>6 DEF LikesInv

\* A like p is stored (on) or taken back, and r is the one to say so.
LEMMA LikeStored ==
  ASSUME LikesInv, NEW r \in Requests, NEW p \in Pairs, NEW on \in BOOLEAN,
         p[1] \in stored,
         req'[r] = [op |-> IF on THEN "say_like" ELSE "say_unlike", pair |-> p],
         req[r].op \in {"idle", "like"},
         \A q \in Requests \ {r} : req'[q] = req[q],
         likes' = IF on THEN likes \cup {p} ELSE likes \ {p},
         UNCHANGED <<stored, batches, likesShown>>,
         blurred' = blurred \cup {x \in Pairs : \E r1, r2 \in ToSay(x)' : r1 # r2}
  PROVE  LikesInv'
  <1>0. BatchesTaken /\ UnstoredUnknown /\ SaysWhatIsStored /\ LikesShownAreStored
    BY DEF LikesInv
  <1>1. \A x : x # p => ToSay(x)' = ToSay(x)
    BY DEF ToSay
  <1>2. ToSay(p)' = ToSay(p) \cup {r} /\ r \notin ToSay(p)
    BY DEF ToSay
  <1>3. \A x, q : q \in ToSay(x) => q \in Requests \ {r} /\ req'[q].op = req[q].op
    BY DEF ToSay
  <1>4. BatchesTaken' /\ \A c \in Recs : ToCome(c)' => ToCome(c)
    BY <1>0, NoAsk
  <1>5. UnstoredUnknown'
    <2>1. \A c \in Recs : ToCome(c)' => c # p[1]
      BY <1>0, <1>4 DEF UnstoredUnknown
    <2>2. \A c \in Recs, m \in Members : c # p[1] => ToSay(<<c, m>>)' = ToSay(<<c, m>>)
      BY <1>1
    <2> QED
      BY <1>0, <1>4, <2>1, <2>2 DEF UnstoredUnknown
  <1>6. \A x \in Pairs : x \notin blurred' => x \notin blurred /\ \A q, s \in ToSay(x)' : q = s
    BY Blurs
  <1>7. \A x : x # p => ((x \in likes') <=> (x \in likes))
    OBVIOUS
  <1>8. (p \in likes') <=> on
    OBVIOUS
  <1>9. LikesShownAreStored'
    BY <1>0, <1>1, <1>2, <1>6, <1>7 DEF LikesShownAreStored
  <1>10. SaysWhatIsStored'
    <2>1. \A x \in likes' : x[1] \in stored'
      BY <1>0 DEF SaysWhatIsStored
    <2>2. ASSUME NEW x \in Pairs, NEW q \in Requests, x \notin blurred', x[1] \in stored', q \in ToSay(x)'
          PROVE  (x \in likes') = (req'[q].op = "say_like")
      <3>1. CASE x = p
        <4>1. q = r
          BY <1>2, <1>6, <2>2, <3>1
        <4> QED
          BY <1>8, <3>1, <4>1
      <3>2. CASE x # p
        <4>1. q \in ToSay(x) /\ x \notin blurred /\ req'[q].op = req[q].op
          BY <1>1, <1>3, <1>6, <2>2, <3>2
        <4> QED
          BY <1>0, <1>7, <2>2, <3>2, <4>1 DEF SaysWhatIsStored
      <3> QED
        BY <3>1, <3>2
    <2>3. \A x \in Pairs, q, s \in Requests :
            x \notin blurred' /\ q \in ToSay(x)' /\ s \in ToSay(x)' => q = s
      BY <1>6
    <2> QED
      BY <2>1, <2>2, <2>3 DEF SaysWhatIsStored
  <1> QED
    BY <1>4, <1>5, <1>9, <1>10 DEF LikesInv

\* r has spoken.
LEMMA SayLikes ==
  ASSUME TypeOK, LikesInv, NEW r \in Requests, SayLiked(r), blurred \subseteq blurred'
  PROVE  LikesInv'
  <1>0. BatchesTaken /\ UnstoredUnknown /\ SaysWhatIsStored /\ LikesShownAreStored
    BY DEF LikesInv
  <1>1. PICK p \in Pairs : p = req[r].pair
    BY Carries DEF SayLiked
  <1>2. /\ req'[r] = Idle /\ \A q \in Requests \ {r} : req'[q] = req[q]
        /\ likesShown' = IF req[r].op = "say_like" THEN likesShown \cup {p} ELSE likesShown \ {p}
        /\ r \in ToSay(p)
        /\ UNCHANGED <<stored, batches, likes>>
    BY <1>1, OneGoes DEF SayLiked, Finish, ToSay, recs
  <1>3. \A x : x # p => ToSay(x)' = ToSay(x)
    BY <1>1, <1>2, IdleIsRequest DEF ToSay
  <1>4. ToSay(p)' = ToSay(p) \ {r}
    BY <1>2, IdleIsRequest DEF ToSay
  <1>5. \A x, q : q \in ToSay(x)' => q \in ToSay(x) /\ q \in Requests /\ req'[q].op = req[q].op
    BY <1>2, <1>3, <1>4, IdleIsRequest DEF ToSay
  <1>6. BatchesTaken' /\ \A c \in Recs : ToCome(c)' => ToCome(c)
    BY <1>0, <1>2, IdleIsRequest, NoAsk
  <1>7. \A x : x # p => ((x \in likesShown') <=> (x \in likesShown))
    BY <1>2
  <1>8. UnstoredUnknown'
    <2>1. \A c \in Recs : ToCome(c)' => c \notin stored'
      BY <1>0, <1>2, <1>6 DEF UnstoredUnknown
    <2>2. ASSUME NEW c \in Recs, NEW m \in Members, ToCome(c)'
          PROVE  <<c, m>> \notin likesShown' /\ ToSay(<<c, m>>)' = {}
      <3>1. <<c, m>> \notin likesShown /\ ToSay(<<c, m>>) = {}
        BY <1>0, <1>6, <2>2 DEF UnstoredUnknown
      <3>2. <<c, m>> # p
        BY <1>2, <3>1
      <3> QED
        BY <1>3, <1>7, <3>1, <3>2
    <2> QED
      BY <2>1, <2>2 DEF UnstoredUnknown
  <1>9. LikesShownAreStored'
    <2> SUFFICES ASSUME NEW x \in Pairs, x[1] \in stored', ToSay(x)' = {}, x \notin blurred'
                 PROVE  (x \in likesShown') = (x \in likes')
      BY DEF LikesShownAreStored
    <2>1. CASE x = p
      <3>1. (p \in likes) = (req[r].op = "say_like")
        BY <1>0, <1>2, <2>1 DEF SaysWhatIsStored
      <3> QED
        BY <1>2, <2>1, <3>1
    <2>2. CASE x # p
      BY <1>0, <1>2, <1>3, <1>7, <2>2 DEF LikesShownAreStored
    <2> QED
      BY <2>1, <2>2
  <1>10. SaysWhatIsStored'
    <2>1. \A x \in likes' : x[1] \in stored'
      BY <1>0, <1>2 DEF SaysWhatIsStored
    <2>2. \A x \in Pairs, q, s \in Requests :
            x \notin blurred' /\ q \in ToSay(x)' /\ s \in ToSay(x)' => q = s
      BY <1>0, <1>5 DEF SaysWhatIsStored
    <2>3. \A x \in Pairs, q \in Requests :
            x \notin blurred' /\ x[1] \in stored' /\ q \in ToSay(x)'
              => (x \in likes') = (req'[q].op = "say_like")
      BY <1>0, <1>2, <1>5 DEF SaysWhatIsStored
    <2> QED
      BY <2>1, <2>2, <2>3 DEF SaysWhatIsStored
  <1> QED
    BY <1>6, <1>8, <1>9, <1>10 DEF LikesInv

\* What was to be said is not: the pairs are blurred.
LEMMA CrashLikes ==
  ASSUME LikesInv, ServerCrash, blurred' = blurred \cup {p \in Pairs : ToSay(p) # {}}
  PROVE  LikesInv'
  <1>0. BatchesTaken /\ UnstoredUnknown /\ SaysWhatIsStored /\ LikesShownAreStored
    BY DEF LikesInv
  <1>1. /\ \A q \in Requests : req'[q] = Idle
        /\ UNCHANGED <<stored, batches, likes, likesShown>>
    BY DEF ServerCrash, recs
  <1>2. \A p : ToSay(p)' = {}
    BY <1>1, IdleIsRequest DEF ToSay
  <1>3. \A q \in Requests : \A b : ~Asks(q, b)'
    BY <1>1, IdleIsRequest DEF Asks
  <1>4. BatchesTaken' /\ UnstoredUnknown'
    BY <1>0, <1>1, <1>2, <1>3 DEF BatchesTaken, UnstoredUnknown, ToCome
  <1>5. SaysWhatIsStored'
    BY <1>0, <1>1, <1>2 DEF SaysWhatIsStored
  <1>6. LikesShownAreStored'
    BY <1>0, <1>1 DEF LikesShownAreStored
  <1> QED
    BY <1>4, <1>5, <1>6 DEF LikesInv

LEMMA StepLikes ==
  ASSUME TypeOK, LikesInv, NEW r \in Requests, Step(r),
         blurred' = blurred \cup {p \in Pairs : \E r1, r2 \in ToSay(p)' : r1 # r2}
  PROVE  LikesInv'
  <1>0. blurred \subseteq blurred'
    OBVIOUS
  <1>1. ASSUME req[r].op \notin {"say_like", "say_unlike"},
               req'[r].op \notin {"ask", "say_like", "say_unlike"},
               \A q \in Requests \ {r} : req'[q] = req[q],
               UNCHANGED <<stored, batches, likes, likesShown>>
        PROVE  LikesInv'
    BY <1>0, <1>1, NoAsk, Silent, LikesFrame DEF LikesInv
  <1>2. ASSUME NEW t \in Texts, SendMessage(r, t) PROVE LikesInv'
    BY <1>1, <1>2, OneGoes DEF SendMessage, recs
  <1>3. ASSUME GenerationFails(r) \/ SayMessage(r) PROVE LikesInv'
    BY <1>1, <1>3, OneGoes, IdleIsRequest DEF GenerationFails, SayMessage, Finish, recs
  <1>4. ASSUME SaveCard(r) PROVE LikesInv'
    BY <1>1, <1>4, OneGoes DEF SaveCard, recs
  <1>5. ASSUME NEW c, NEW m, FindLiked(r, c, m) PROVE LikesInv'
    BY <1>1, <1>5, OneGoes DEF FindLiked, recs
  <1>6. ASSUME Like(r), req[r].pair[1] \notin stored PROVE LikesInv'
    BY <1>1, <1>6, OneGoes, IdleIsRequest DEF Like, Finish
  <1>7. ASSUME Like(r), req[r].pair[1] \in stored PROVE LikesInv'
    <2>1. PICK p \in Pairs : p = req[r].pair
      BY <1>7, Carries DEF Like
    <2>2. req'[r] = [op |-> "say_like", pair |-> p] /\ \A q \in Requests \ {r} : req'[q] = req[q]
      BY <1>7, <2>1, OneGoes DEF Like
    <2>3. likes' = likes \cup {p} /\ p[1] \in stored /\ req[r].op = "like"
          /\ UNCHANGED <<stored, batches, likesShown>>
      BY <1>7, <2>1 DEF Like
    <2> QED
      BY <2>2, <2>3, LikeStored, Zenon
  <1>8. ASSUME NEW p \in Pairs, Unlike(r, p) PROVE LikesInv'
    <2>1. req'[r] = [op |-> "say_unlike", pair |-> p] /\ \A q \in Requests \ {r} : req'[q] = req[q]
      BY <1>8, OneGoes DEF Unlike
    <2>2. likes' = likes \ {p} /\ p[1] \in stored /\ req[r].op = "idle"
          /\ UNCHANGED <<stored, batches, likesShown>>
      BY <1>8 DEF Unlike, LikesInv, SaysWhatIsStored
    <2> QED
      BY <2>1, <2>2, LikeStored, Zenon
  <1> QED
    BY <1>0, <1>2, <1>3, <1>4, <1>5, <1>6, <1>7, <1>8, TriggerLikes, StoreLikes, SayLikes DEF Step

LEMMA NextLikes == TypeOK /\ LikesInv /\ [Next]_vars => LikesInv'
  <1> SUFFICES ASSUME TypeOK, LikesInv, [Next]_vars PROVE LikesInv'
    OBVIOUS
  <1>1. ASSUME UNCHANGED <<req, stored, batches, likes, likesShown>>, blurred \subseteq blurred'
        PROVE  LikesInv'
    <2>1. BatchesTaken' /\ \A c \in Recs : ToCome(c)' => ToCome(c)
      BY <1>1 DEF LikesInv, BatchesTaken, ToCome, Asks
    <2>2. \A p : ToSay(p)' = ToSay(p)
      BY <1>1 DEF ToSay
    <2> QED
      BY <1>1, <2>1, <2>2, LikesFrame
  <1>2. CASE UNCHANGED vars
    BY <1>1, <1>2 DEF vars
  <1>3. ASSUME Steps, blurred' = blurred \cup {p \in Pairs : \E r1, r2 \in ToSay(p)' : r1 # r2}
        PROVE  LikesInv'
    <2>1. ASSUME NEW m \in Members, JoinChat(m) \/ LeaveChat(m) PROVE LikesInv'
      BY <1>1, <1>3, <2>1 DEF JoinChat, LeaveChat, recs
    <2> QED
      BY <1>3, <2>1, StepLikes, DeleteLikes DEF Steps, deleteByBatchId, markActedOn
  <1> QED
    BY <1>2, <1>3, CrashLikes DEF Next

\* What the room last heard of a like is what is stored, unless two answers about it
\* crossed or a crash lost one, whatever is generated, deleted and liked meanwhile.
THEOREM LikesAreTold == Spec => []LikesShownAreStored
  <1>1. LikesInv => LikesShownAreStored
    BY DEF LikesInv
  <1> QED
    BY <1>1, InitType, NextType, InitLikes, NextLikes, PTL DEF Spec
-----------------------------------------------------------------------------
(***************************************************************************)
(* The order of messages.                                                  *)
(***************************************************************************)

LEMMA AppendMember ==
  ASSUME NEW S, NEW s \in Seq(S), NEW x \in S
  PROVE  /\ ToSet(Append(s, x)) = ToSet(s) \cup {x}
         /\ \A a, b : Before(s, a, b) => Before(Append(s, x), a, b)
         /\ \A a \in ToSet(s) : Before(Append(s, x), a, x)
  <1>1. /\ DOMAIN s = 1..Len(s) /\ Len(s) \in Nat
        /\ DOMAIN Append(s, x) = 1..(Len(s) + 1)
        /\ \A i \in 1..Len(s) : Append(s, x)[i] = s[i]
        /\ Append(s, x)[Len(s) + 1] = x
    OBVIOUS
  <1>2. ToSet(Append(s, x)) = ToSet(s) \cup {x}
    BY <1>1 DEF ToSet
  <1>3. \A a, b : Before(s, a, b) => Before(Append(s, x), a, b)
    BY <1>1 DEF Before
  <1>4. \A a \in ToSet(s) : Before(Append(s, x), a, x)
    BY <1>1 DEF Before, ToSet
  <1> QED
    BY <1>2, <1>3, <1>4

\* In a sequence without repetition one is before the other, and not the other way.
LEMMA OneWay ==
  ASSUME NEW S, NEW s \in Seq(S), \A i, j \in DOMAIN s : s[i] = s[j] => i = j,
         NEW a, NEW b, Before(s, a, b)
  PROVE  ~Before(s, b, a)
  <1>1. DOMAIN s \subseteq Nat
    OBVIOUS
  <1> QED
    BY <1>1 DEF Before

\* Steps that store no message, say none and begin no generation.
LEMMA OrderFrame ==
  ASSUME OrderInv, UNCHANGED <<log, said>>, batches \subseteq batches',
         overtaken => overtaken',
         \A q \in Requests : req'[q].op = "say" => req[q].op = "say" /\ req'[q].message = req[q].message,
         \A q \in Requests, b \in Batches : Makes(q, b)' => Makes(q, b)
  PROVE  OrderInv'
  <1>1. LogOnce'
    BY DEF OrderInv, LogOnce
  <1>2. Overtaking' => Overtaking
    BY DEF Overtaking
  <1>3. ~overtaken' => ~overtaken
    OBVIOUS
  <1>4. ~overtaken' => ~Overtaking' /\ SaysTheLatest'
    BY <1>2, <1>3 DEF OrderInv, SaysTheLatest
  <1>5. HeardInOrder'
    BY <1>3 DEF OrderInv, HeardInOrder
  <1> QED
    BY <1>1, <1>4, <1>5 DEF OrderInv

\* A message is stored, to be broadcast by the request that stored it.
LEMMA StoreOrder ==
  ASSUME TypeOK, OrderInv, NEW r \in Requests, NEW m \in Messages, m \notin ToSet(log),
         Goto(r, [op |-> "say", message |-> m]), log' = Append(log, m),
         UNCHANGED <<said, batches>>, overtaken => overtaken', Overtaking' => overtaken',
         m \in Batches => m \in batches,
         \A q \in Requests \ {r}, b \in Batches : Makes(q, b) => b # m
  PROVE  OrderInv'
  <1>0. log \in Seq(Messages) /\ LogOnce /\ HeardInOrder
    BY DEF TypeOK, OrderInv
  <1>1. /\ req'[r] = [op |-> "say", message |-> m]
        /\ \A q \in Requests \ {r} : req'[q] = req[q]
    BY OneGoes
  <1>2. /\ ToSet(log') = ToSet(log) \cup {m}
        /\ \A a, b : Before(log, a, b) => Before(log', a, b)
        /\ \A a \in ToSet(log) : Before(log', a, m)
    BY <1>0, AppendMember
  <1>3. log' \in Seq(Messages) /\ \A i, j \in DOMAIN log' : log'[i] = log'[j] => i = j
    <2>1. /\ log' \in Seq(Messages)
          /\ DOMAIN log = 1..Len(log) /\ Len(log) \in Nat
          /\ DOMAIN log' = 1..(Len(log) + 1)
          /\ \A i \in 1..Len(log) : log'[i] = log[i]
          /\ log'[Len(log) + 1] = m
      BY <1>0
    <2>2. \A i \in 1..Len(log) : log[i] # m
      BY <2>1 DEF ToSet
    <2>3. \A i, j \in 1..Len(log) : log[i] = log[j] => i = j
      BY <1>0, <2>1 DEF LogOnce
    <2>4. \A i \in DOMAIN log' : i \in 1..Len(log) \/ i = Len(log) + 1
      BY <2>1
    <2> QED
      BY <2>1, <2>2, <2>3, <2>4
  <1>4. \A q \in Requests, b \in Batches : Makes(q, b)' => q # r /\ Makes(q, b)
    BY <1>1 DEF Makes
  <1>5. LogOnce'
    BY <1>0, <1>2, <1>3, <1>4 DEF LogOnce
  <1>6. ASSUME ~overtaken' PROVE ~Overtaking' /\ SaysTheLatest' /\ HeardInOrder'
    <2>1. ToSet(said) \subseteq ToSet(log) /\ \A i \in DOMAIN said : said[i] \in ToSet(said)
      BY <1>0, <1>6 DEF HeardInOrder, ToSet
    <2>2. \A q \in Requests : req'[q].op = "say" => q = r
      BY <1>1, <1>6 DEF Overtaking
    <2>3. SaysTheLatest'
      BY <1>1, <1>2, <2>1, <2>2 DEF SaysTheLatest, Before
    <2>4. \A i, j \in DOMAIN said : i < j => Before(log', said[i], said[j])
      BY <1>0, <1>2, <1>6 DEF HeardInOrder
    <2>5. \A a, b : Before(log', a, b) => ~Before(log', b, a)
      BY <1>3, OneWay
    <2>6. said' = said /\ ToSet(said) \subseteq ToSet(log')
      BY <1>2, <2>1
    <2>7. HeardInOrder'
      BY <2>4, <2>5, <2>6 DEF HeardInOrder
    <2> QED
      BY <1>6, <2>3, <2>7
  <1> QED
    BY <1>5, <1>6 DEF OrderInv, HeardInOrder

\* A request broadcasts its message, the only one on its way unless one was overtaken.
LEMMA SayOrder ==
  ASSUME TypeOK, OrderInv, NEW r \in Requests, req[r].op = "say", Goto(r, Idle),
         said' = Append(said, req[r].message), UNCHANGED <<log, batches>>,
         overtaken => overtaken', Overtaking' => overtaken'
  PROVE  OrderInv'
  <1> DEFINE m == req[r].message
  <1>0. log \in Seq(Messages) /\ said \in Seq(Messages) /\ m \in Messages /\ LogOnce /\ HeardInOrder
    BY Carries DEF TypeOK, OrderInv
  <1>1. req'[r].op = "idle" /\ \A q \in Requests \ {r} : req'[q] = req[q]
    BY OneGoes, IdleIsRequest
  <1>2. \A q \in Requests, b \in Batches : Makes(q, b)' => Makes(q, b)
    BY <1>1 DEF Makes
  <1>3. LogOnce'
    BY <1>0, <1>2 DEF LogOnce
  <1>4. ASSUME ~overtaken' PROVE ~Overtaking' /\ SaysTheLatest' /\ HeardInOrder'
    <2>1. ~overtaken /\ ~Overtaking /\ SaysTheLatest
      BY <1>4 DEF OrderInv
    <2>2. \A q \in Requests : req'[q].op # "say"
      BY <1>1, <2>1 DEF Overtaking
    <2>3. m \in ToSet(log) /\ \A i \in DOMAIN said : Before(log, said[i], m)
      BY <2>1 DEF SaysTheLatest
    <2>4. /\ DOMAIN said = 1..Len(said) /\ Len(said) \in Nat
          /\ DOMAIN said' = 1..(Len(said) + 1)
          /\ \A i \in 1..Len(said) : said'[i] = said[i]
          /\ said'[Len(said) + 1] = m
      BY <1>0
    <2>5. ToSet(said') \subseteq ToSet(log')
      <3>1. ToSet(said') = ToSet(said) \cup {m}
        BY <1>0, AppendMember
      <3> QED
        BY <1>0, <2>1, <2>3, <3>1 DEF HeardInOrder
    <2>6. \A i, j \in DOMAIN said' : i < j => Before(log, said'[i], said'[j])
      <3>1. \A i, j \in 1..Len(said) : i < j => Before(log, said[i], said[j])
        BY <1>0, <2>1, <2>4 DEF HeardInOrder
      <3>2. \A i, j \in DOMAIN said' :
              i < j => i \in 1..Len(said) /\ (j \in 1..Len(said) \/ j = Len(said) + 1)
        BY <2>4
      <3> QED
        BY <2>3, <2>4, <3>1, <3>2
    <2>7. \A a, b : Before(log, a, b) => ~Before(log, b, a)
      BY <1>0, OneWay DEF LogOnce
    <2>8. HeardInOrder'
      BY <2>5, <2>6, <2>7 DEF HeardInOrder
    <2> QED
      BY <1>4, <2>2, <2>8 DEF SaysTheLatest, Overtaking
  <1> QED
    BY <1>3, <1>4 DEF OrderInv, HeardInOrder

\* A generation begins, with a batchId that was not made.
LEMMA TriggerOrder ==
  ASSUME TypeOK, OrderInv, NEW r \in Requests, NEW b \in Batches, TriggerGeneration(r, b),
         overtaken => overtaken', Overtaking' => overtaken'
  PROVE  OrderInv'
  <1>0. LogOnce /\ HeardInOrder /\ b \notin batches /\ b \notin ToSet(log)
    BY DEF OrderInv, LogOnce, TriggerGeneration
  <1>1. /\ req'[r] = [op |-> "ask", batch |-> b] /\ \A q \in Requests \ {r} : req'[q] = req[q]
        /\ UNCHANGED <<log, said>> /\ batches' = batches \cup {b}
    BY OneGoes DEF TriggerGeneration, chat
  <1>2. \A q \in Requests, a \in Batches : Makes(q, a)' => (q = r /\ a = b) \/ (q # r /\ Makes(q, a))
    BY <1>1 DEF Makes
  <1>3. \A q \in Requests : ~Makes(q, b)
    BY <1>0 DEF LogOnce
  <1>4. LogOnce'
    <2>1. \A q \in Requests, a \in Batches :
            Makes(q, a)' => /\ a \in batches' /\ a \notin ToSet(log)
                            /\ \A p \in Requests : Makes(p, a)' => p = q
      BY <1>0, <1>1, <1>2, <1>3 DEF LogOnce
    <2> QED
      BY <1>0, <1>1, <2>1 DEF LogOnce
  <1>5. \A q \in Requests : req'[q].op = "say" => req[q].op = "say" /\ req'[q].message = req[q].message
    BY <1>1
  <1>6. SaysTheLatest => SaysTheLatest'
    BY <1>1, <1>5 DEF SaysTheLatest
  <1>7. ~overtaken' => ~Overtaking' /\ SaysTheLatest' /\ HeardInOrder'
    BY <1>0, <1>1, <1>6 DEF OrderInv, HeardInOrder
  <1> QED
    BY <1>4, <1>7 DEF OrderInv, HeardInOrder

\* One step of one request.
LEMMA StepOrder ==
  ASSUME TypeOK, OrderInv, NEW r \in Requests, Step(r),
         overtaken => overtaken', Overtaking' => overtaken'
  PROVE  OrderInv'
  <1>1. ASSUME NEW t \in Texts, SendMessage(r, t) PROVE OrderInv'
    <2>1. t \in Messages /\ t \notin Batches
      BY ChatAssumption DEF Messages
    <2>2. \A q \in Requests \ {r}, b \in Batches : Makes(q, b) => b # t
      BY <2>1
    <2> QED
      BY <1>1, <2>1, <2>2, StoreOrder DEF SendMessage, recs
  <1>2. ASSUME SaveCard(r) PROVE OrderInv'
    <2> DEFINE b == req[r].batch
    <2>1. b \in Batches /\ b \in Messages /\ Makes(r, b)
      BY <1>2, Carries DEF SaveCard, Messages, Makes
    <2>2. b \notin ToSet(log) /\ b \in batches /\ \A q \in Requests : Makes(q, b) => q = r
      BY <2>1 DEF OrderInv, LogOnce
    <2>3. Goto(r, [op |-> "say", message |-> b]) /\ log' = Append(log, b) /\ UNCHANGED <<said, batches>>
      BY <1>2 DEF SaveCard, recs
    <2>4. \A q \in Requests \ {r}, a \in Batches : Makes(q, a) => a # b
      BY <2>2
    <2> HIDE DEF b
    <2> QED
      BY <2>1, <2>2, <2>3, <2>4, StoreOrder
  <1>3. ASSUME SayMessage(r) PROVE OrderInv'
    BY <1>3, SayOrder DEF SayMessage, Finish, recs
  <1>4. ASSUME NEW b \in Batches, TriggerGeneration(r, b) PROVE OrderInv'
    BY <1>4, TriggerOrder
  <1>5. ASSUME NEW next, Goto(r, next), next.op # "say", UNCHANGED <<log, said, batches>>,
               \A b \in Batches : (next.op \in {"ask", "card"} /\ next.batch = b) => Makes(r, b)
        PROVE  OrderInv'
    <2>1. req'[r] = next /\ \A q \in Requests \ {r} : req'[q] = req[q]
      BY <1>5, OneGoes
    <2>2. \A q \in Requests : req'[q].op = "say" => req[q].op = "say" /\ req'[q].message = req[q].message
      BY <1>5, <2>1
    <2>3. \A q \in Requests, b \in Batches : Makes(q, b)' => Makes(q, b)
      BY <1>5, <2>1 DEF Makes
    <2> QED
      BY <1>5, <2>2, <2>3, OrderFrame
  <1>6. ASSUME Goto(r, Idle), UNCHANGED <<log, said, batches>> PROVE OrderInv'
    BY <1>5, <1>6, IdleIsRequest
  <1>7. ASSUME StoreBatch(r) PROVE OrderInv'
    <2>1. Goto(r, [op |-> "card", batch |-> req[r].batch]) /\ UNCHANGED <<log, said, batches>>
      BY <1>7 DEF StoreBatch, chat
    <2>2. \A b \in Batches : req[r].batch = b => Makes(r, b)
      BY <1>7 DEF StoreBatch, Makes
    <2> QED
      BY <1>5, <2>1, <2>2
  <1>8. ASSUME GenerationFails(r) \/ SayLiked(r) PROVE OrderInv'
    BY <1>6, <1>8 DEF GenerationFails, SayLiked, Finish, chat, recs
  <1>9. ASSUME NEW p \in Pairs, FindLiked(r, p[1], p[2]) \/ Unlike(r, p) PROVE OrderInv'
    BY <1>5, <1>9 DEF FindLiked, Unlike, chat, recs
  <1>10. ASSUME Like(r) PROVE OrderInv'
    BY <1>5, <1>6, <1>10 DEF Like, Finish, chat
  <1> QED
    BY <1>1, <1>2, <1>3, <1>4, <1>7, <1>8, <1>9, <1>10 DEF Step

LEMMA NextOrder == TypeOK /\ OrderInv /\ [Next]_vars => OrderInv'
  <1> SUFFICES ASSUME TypeOK, OrderInv, [Next]_vars PROVE OrderInv'
    OBVIOUS
  <1>1. ASSUME UNCHANGED <<req, log, said, batches>>, overtaken => overtaken' PROVE OrderInv'
    BY <1>1, OrderFrame DEF Makes
  <1>2. CASE UNCHANGED vars
    BY <1>1, <1>2 DEF vars
  <1>3. CASE Next
    <2>1. (overtaken => overtaken') /\ (Overtaking' => overtaken')
      BY <1>3 DEF Next
    <2>2. ASSUME NEW r \in Requests, Step(r) PROVE OrderInv'
      BY <2>1, <2>2, StepOrder
    <2>3. ASSUME NEW m \in Members, JoinChat(m) \/ LeaveChat(m) PROVE OrderInv'
      BY <1>1, <2>1, <2>3 DEF JoinChat, LeaveChat, recs, chat
    <2>4. ASSUME NEW gone, DeleteRecs(gone) PROVE OrderInv'
      BY <1>1, <2>1, <2>4 DEF DeleteRecs, chat
    <2>5. CASE ServerCrash
      <3>1. \A q \in Requests : req'[q] = Idle
        BY <2>5 DEF ServerCrash
      <3> QED
        BY <2>1, <2>5, <3>1, IdleIsRequest, OrderFrame DEF ServerCrash, chat, recs, Makes
    <2> QED
      BY <1>3, <2>2, <2>3, <2>4, <2>5 DEF Next, Steps, deleteByBatchId, markActedOn
  <1> QED
    BY <1>2, <1>3

\* The room hears the history in its order and no message twice, as long as no two
\* messages were stored and not yet broadcast at once, through crashes, failed
\* generations and whatever is liked or deleted.
THEOREM MessagesKeepOrder == Spec => []HeardInOrder
  <1>1. Init => OrderInv
    BY IdleIsRequest DEF Init, OrderInv, LogOnce, HeardInOrder, SaysTheLatest, Overtaking, Makes, ToSet
  <1>2. OrderInv => HeardInOrder
    BY DEF OrderInv
  <1> QED
    BY <1>1, <1>2, InitType, NextType, NextOrder, PTL DEF Spec
-----------------------------------------------------------------------------
(***************************************************************************)
(* Lists: one is put after another, or into another at some place.         *)
(***************************************************************************)
\* All elements of s are different.
Distinct(s) == \A i, j \in 1..Len(s) : s[i] = s[j] => i = j

\* t is v after u.
IsConcat(t, u, v) ==
    /\ Len(t) = Len(u) + Len(v)
    /\ \A k \in 1..Len(u) : t[k] = u[k]
    /\ \A k \in 1..Len(v) : t[Len(u) + k] = v[k]

LEMMA ConcatIs ==
  ASSUME NEW S, NEW u, u \in Seq(S), NEW v, v \in Seq(S)
  PROVE  u \o v \in Seq(S) /\ IsConcat(u \o v, u, v)
  <1> DEFINE t == u \o v
  <1>1. Len(u) \in Nat /\ Len(v) \in Nat
    OBVIOUS
  <1>2. t \in Seq(S)
    OBVIOUS
  <1>3. Len(t) = Len(u) + Len(v)
    OBVIOUS
  <1>4. \A k \in 1..Len(u) : t[k] = u[k]
    OBVIOUS
  <1>5. ASSUME NEW k \in 1..Len(v) PROVE t[Len(u) + k] = v[k]
    <2>1. Len(u) + k \in 1..(Len(u) + Len(v)) /\ Len(u) + k > Len(u) /\ (Len(u) + k) - Len(u) = k
      BY <1>1
    <2> QED
      BY <1>1, <2>1
  <1> QED
    BY <1>2, <1>3, <1>4, <1>5 DEF IsConcat

\* t is s with y put before place m.
IsInserted(t, s, m, y) ==
    /\ Len(t) = Len(s) + Len(y)
    /\ \A k \in 1..Len(y) : t[m - 1 + k] = y[k]
    /\ \A k \in 1..Len(s) : t[IF k < m THEN k ELSE k + Len(y)] = s[k]

LEMMA InsertInto ==
  ASSUME NEW S, NEW s \in Seq(S), NEW y, y \in Seq(S), NEW m \in 1..(Len(s) + 1)
  PROVE  LET t == SubSeq(s, 1, m - 1) \o y \o SubSeq(s, m, Len(s))
         IN  t \in Seq(S) /\ IsInserted(t, s, m, y)
  <1> DEFINE u == SubSeq(s, 1, m - 1)
             v == SubSeq(s, m, Len(s))
             t == u \o y \o v
             n == Len(y)
  <1>0. Len(s) \in Nat /\ m \in Nat /\ m >= 1 /\ m <= Len(s) + 1 /\ n \in Nat
    OBVIOUS
  <1>1. u \in Seq(S) /\ Len(u) = m - 1 /\ \A k \in 1..(m - 1) : u[k] = s[k]
    BY <1>0
  <1>3. v \in Seq(S) /\ Len(v) = Len(s) - m + 1 /\ \A k \in 1..(Len(s) - m + 1) : v[k] = s[m + k - 1]
    BY <1>0
  <1> HIDE DEF u, v
  <1> DEFINE w == u \o y
  <1>4. w = u \o y /\ t = w \o v
    OBVIOUS
  <1> HIDE DEF w, t
  <1>5. /\ w \in Seq(S) /\ Len(w) = Len(u) + Len(y)
        /\ \A k \in 1..Len(u) : w[k] = u[k]
        /\ \A k \in 1..Len(y) : w[Len(u) + k] = y[k]
    <2>1. u \in Seq(S) /\ y \in Seq(S)
      BY <1>1
    <2>2. w \in Seq(S) /\ IsConcat(w, u, y)
      BY <1>4, <2>1, ConcatIs
    <2> QED
      BY <2>2 DEF IsConcat
  <1>6. /\ t \in Seq(S) /\ Len(t) = Len(w) + Len(v)
        /\ \A k \in 1..Len(w) : t[k] = w[k]
        /\ \A k \in 1..Len(v) : t[Len(w) + k] = v[k]
    <2>1. w \in Seq(S) /\ v \in Seq(S)
      BY <1>3, <1>5
    <2>2. w \o v \in Seq(S) /\ IsConcat(w \o v, w, v)
      BY <2>1, ConcatIs
    <2>3. t \in Seq(S) /\ IsConcat(t, w, v)
      BY <1>4, <2>2
    <2> QED
      BY <2>3 DEF IsConcat
  <1>7. Len(w) = m - 1 + n /\ Len(t) = Len(s) + n
    <2>1. Len(u) = m - 1 /\ Len(y) = n /\ Len(v) = Len(s) - m + 1
      BY <1>1, <1>3
    <2>2. Len(w) = Len(u) + Len(y) /\ Len(t) = Len(w) + Len(v)
      BY <1>5, <1>6
    <2> HIDE DEF n
    <2> QED
      BY <1>0, <2>1, <2>2
  <1>8. ASSUME NEW k \in 1..Len(y) PROVE t[m - 1 + k] = y[k]
    <2>1. Len(u) + k = m - 1 + k /\ m - 1 + k \in 1..Len(w)
      <3> HIDE DEF n
      <3>1. Len(u) = m - 1 /\ Len(w) = m - 1 + n /\ k \in 1..n
        BY <1>1, <1>7 DEF n
      <3> QED
        BY <1>0, <3>1
    <2>2. w[Len(u) + k] = y[k] /\ t[m - 1 + k] = w[m - 1 + k]
      BY <1>5, <1>6, <2>1
    <2> QED
      BY <2>1, <2>2
  <1> HIDE DEF n
  <1>9. ASSUME NEW k \in 1..Len(s), k >= m PROVE t[k + n] = s[k]
    <2>1. k - m + 1 \in 1..(Len(s) - m + 1) /\ m - 1 + n + (k - m + 1) = k + n /\ m + (k - m + 1) - 1 = k
      BY <1>0, <1>9
    <2>2. t[m - 1 + n + (k - m + 1)] = v[k - m + 1]
      BY <1>3, <1>6, <1>7, <2>1
    <2>3. v[k - m + 1] = s[m + (k - m + 1) - 1]
      BY <1>3, <2>1
    <2> QED
      BY <2>1, <2>2, <2>3
  <1>10. ASSUME NEW k \in 1..Len(s), k < m PROVE t[k] = s[k]
    <2>1. k \in 1..(m - 1) /\ k \in 1..(m - 1 + n)
      BY <1>0, <1>10
    <2> QED
      BY <1>1, <1>5, <1>6, <1>7, <2>1
  <1>11. \A k \in 1..Len(s) : k < m \/ k >= m
    BY <1>0
  <1>12. t \in Seq(S) /\ IsInserted(t, s, m, y)
    BY <1>6, <1>7, <1>8, <1>9, <1>10, <1>11 DEF IsInserted, n
  <1> QED
    BY <1>12 DEF t, u, v
-----------------------------------------------------------------------------
(***************************************************************************)
(* Pages of messages.  The rows a client has read are the first of the     *)
(* list up to some place (ReadTo), and a message put anywhere moves that   *)
(* place or leaves it.                                                     *)
(***************************************************************************)
\* q comes before r in s.
Precedes(s, q, r) == \E i, j \in 1..Len(s) : i < j /\ s[i] = q /\ s[j] = r

Has(s, r) == \E i \in 1..Len(s) : s[i] = r

\* t is s with the row x at place m.
IsPut(t, s, m, x) ==
    /\ Len(t) = Len(s) + 1
    /\ t[m] = x
    /\ \A k \in 1..Len(s) : t[IF k < m THEN k ELSE k + 1] = s[k]

\* Row m of s comes to place At(m, k) when a row is inserted at k.
To(m, k) == IF k < m THEN k ELSE k + 1

LEMMA InsertedKeeps ==
  ASSUME NEW S, NEW s \in Seq(S), NEW t \in Seq(S), NEW m \in 1..(Len(s) + 1), NEW x,
         IsPut(t, s, m, x)
  PROVE  /\ \A k \in 1..Len(s) : To(m, k) \in 1..Len(t) /\ t[To(m, k)] = s[k]
         /\ \A k \in 1..Len(t) : k # m => \E l \in 1..Len(s) : k = To(m, l)
         /\ \A k, l \in 1..Len(s) : k < l => To(m, k) < To(m, l)
         /\ \A r, q : Precedes(s, q, r) => Precedes(t, q, r)
         /\ \A r : Has(s, r) => Has(t, r)
  <1>0. Len(s) \in Nat /\ Len(t) = Len(s) + 1 /\ m \in Nat /\ m >= 1 /\ m <= Len(s) + 1
    BY DEF IsPut
  <1>1. \A k \in 1..Len(s) : To(m, k) \in 1..Len(t) /\ t[To(m, k)] = s[k]
    BY <1>0 DEF To, IsPut
  <1>2. ASSUME NEW k \in 1..Len(t), k # m PROVE \E l \in 1..Len(s) : k = To(m, l)
    <2>1. CASE k < m
      <3>1. k \in 1..Len(s) /\ k = To(m, k)
        BY <1>0, <2>1 DEF To
      <3> QED
        BY <3>1
    <2>2. CASE k > m
      <3>1. k - 1 \in 1..Len(s) /\ k = To(m, k - 1)
        BY <1>0, <2>2 DEF To
      <3> QED
        BY <3>1
    <2> QED
      BY <1>0, <1>2, <2>1, <2>2
  <1>3. \A k, l \in 1..Len(s) : k < l => To(m, k) < To(m, l)
    BY <1>0 DEF To
  <1>4. \A r, q : Precedes(s, q, r) => Precedes(t, q, r)
    BY <1>1, <1>3 DEF Precedes
  <1>5. \A r : Has(s, r) => Has(t, r)
    BY <1>1 DEF Has
  <1> QED
    BY <1>1, <1>2, <1>3, <1>4, <1>5
-----------------------------------------------------------------------------
\* The client has read s up to place p: what it got is in that part, oldest first, the
\* oldest at p, and of those it wants it has all of that part.
ReadTo(s, got, wanted, p) ==
    /\ p \in 0..Len(s)
    /\ got # <<>> => p >= 1 /\ s[p] = got[1]
    /\ \A i \in 1..Len(got) : \E k \in 1..p : s[k] = got[i]
    /\ \A k \in 1..p : s[k] \in wanted => Has(got, s[k])
    /\ \A i, j \in 1..Len(got) : i < j => Precedes(s, got[j], got[i])
    /\ \A r \in wanted : Has(s, r)

LEMMA InsertReads ==
  ASSUME NEW S, NEW s \in Seq(S), NEW t \in Seq(S), NEW m \in 1..(Len(s) + 1), NEW x,
         IsPut(t, s, m, x), NEW got, NEW wanted, x \notin wanted,
         NEW p, ReadTo(s, got, wanted, p)
  PROVE  \E q : ReadTo(t, got, wanted, q)
  <1>0. /\ Len(s) \in Nat /\ Len(t) = Len(s) + 1 /\ p \in 0..Len(s)
        /\ m \in Nat /\ m >= 1 /\ m <= Len(s) + 1 /\ t[m] = x
    BY DEF IsPut, ReadTo
  <1> DEFINE q == IF p = 0 THEN 0 ELSE To(m, p)
  <1>1. q \in 0..Len(t) /\ (p >= 1 => q >= 1)
    BY <1>0 DEF To
  <1>2. ASSUME NEW k \in 1..p PROVE To(m, k) \in 1..q /\ t[To(m, k)] = s[k]
    <2>1. k \in 1..Len(s) /\ p # 0
      BY <1>0
    <2>2. t[To(m, k)] = s[k] /\ To(m, k) \in 1..Len(t)
      BY <2>1, InsertedKeeps
    <2>3. To(m, k) <= To(m, p)
      BY <1>0 DEF To
    <2> QED
      BY <1>0, <1>1, <2>1, <2>2, <2>3
  <1>3. ASSUME NEW k \in 1..q, k # m PROVE \E l \in 1..p : k = To(m, l)
    <2>1. PICK l \in 1..Len(s) : k = To(m, l)
      BY <1>0, <1>1, <1>3, InsertedKeeps
    <2>2. l \in 1..p
      BY <1>0, <2>1 DEF To
    <2> QED
      BY <2>1, <2>2
  <1>4. got # <<>> => q >= 1 /\ t[q] = got[1]
    <2>1. p >= 1 => q = To(m, p) /\ p \in 1..p
      BY <1>0
    <2> QED
      BY <1>0, <1>1, <1>2, <2>1 DEF ReadTo
  <1> HIDE DEF q
  <1>5. \A i \in 1..Len(got) : \E k \in 1..q : t[k] = got[i]
    BY <1>2 DEF ReadTo
  <1>6. ASSUME NEW k \in 1..q, t[k] \in wanted PROVE Has(got, t[k])
    <2>1. k # m
      BY <1>0, <1>6
    <2>2. PICK l \in 1..p : k = To(m, l)
      BY <1>3, <2>1
    <2> QED
      BY <1>2, <1>6, <2>2 DEF ReadTo
  <1>7. \A i, j \in 1..Len(got) : i < j => Precedes(t, got[j], got[i])
    BY InsertedKeeps DEF ReadTo
  <1>8. \A r \in wanted : Has(t, r)
    BY InsertedKeeps DEF ReadTo
  <1>9. ReadTo(t, got, wanted, q)
    BY <1>1, <1>4, <1>5, <1>6, <1>7, <1>8 DEF ReadTo
  <1> QED
    BY <1>9

\* The rows of s from p to e, put before what it got.
PageGives(S, s, got, wanted, p, e) ==
    LET page == SubSeq(s, p + 1, e)
        now == Reverse(page) \o got
    IN  now \in Seq(S) /\ ReadTo(s, now, wanted, e) /\ Len(page) = e - p

\* A page more.
LEMMA PageReads ==
  ASSUME NEW S, NEW s \in Seq(S), NEW got \in Seq(S), NEW wanted,
         NEW p, ReadTo(s, got, wanted, p), NEW e \in p..Len(s)
  PROVE  PageGives(S, s, got, wanted, p, e)
  <1>0. Len(s) \in Nat /\ p \in 0..Len(s) /\ e \in Nat /\ p <= e /\ e <= Len(s) /\ Len(got) \in Nat
    BY DEF ReadTo
  <1> DEFINE n == e - p
             page == SubSeq(s, p + 1, e)
             u == Reverse(page)
             now == u \o got
  <1>1. n \in Nat
    BY <1>0
  <1>2. page \in Seq(S) /\ Len(page) = n /\ \A k \in 1..n : page[k] = s[p + k]
    BY <1>0
  <1>3. u \in Seq(S) /\ Len(u) = n /\ \A k \in 1..n : u[k] = page[(n - k) + 1]
    <2>1. u = [k \in 1..n |-> page[(n - k) + 1]]
      BY <1>2 DEF Reverse
    <2>2. \A k \in 1..n : (n - k) + 1 \in 1..n
      BY <1>1
    <2>3. \A k \in 1..n : page[k] \in S
      BY <1>2
    <2> HIDE DEF n, u, page
    <2>4. u \in [1..n -> S]
      BY <2>1, <2>2, <2>3
    <2>5. u \in Seq(S) /\ Len(u) = n
      BY <1>1, <2>4
    <2> QED
      BY <2>1, <2>5
  <1>4. \A k \in 1..n : u[k] = s[(e - k) + 1]
    <2>1. \A k \in 1..n : (n - k) + 1 \in 1..n /\ p + ((n - k) + 1) = (e - k) + 1
      BY <1>0, <1>1
    <2> QED
      BY <1>2, <1>3, <2>1
  <1> HIDE DEF u
  <1>5. /\ now \in Seq(S) /\ Len(now) = n + Len(got)
        /\ \A k \in 1..n : now[k] = s[(e - k) + 1]
        /\ \A k \in 1..Len(got) : now[n + k] = got[k]
    <2>1. u \in Seq(S)
      BY <1>3
    <2>2. u \o got \in Seq(S) /\ IsConcat(u \o got, u, got)
      BY <2>1, ConcatIs
    <2>3. now \in Seq(S) /\ IsConcat(now, u, got)
      BY <2>2
    <2>4. /\ now \in Seq(S) /\ Len(now) = Len(u) + Len(got)
          /\ \A k \in 1..Len(u) : now[k] = u[k]
          /\ \A k \in 1..Len(got) : now[Len(u) + k] = got[k]
      BY <2>3 DEF IsConcat
    <2> QED
      BY <1>3, <1>4, <2>4
  <1> HIDE DEF now, page
  <1>6. ASSUME NEW i \in 1..Len(now)
        PROVE  i \in 1..n \/ (i > n /\ i - n \in 1..Len(got) /\ now[i] = got[i - n])
    <2>1. i \in 1..n \/ (i > n /\ i - n \in 1..Len(got) /\ n + (i - n) = i)
      BY <1>0, <1>1, <1>5
    <2> QED
      BY <1>5, <2>1
  <1>7. now # <<>> => e >= 1 /\ s[e] = now[1]
    <2>1. CASE n = 0
      <3>1. Len(now) = Len(got) /\ e = p
        BY <1>0, <1>5, <2>1
      <3>2. got = <<>> => now = <<>>
        BY <1>5, <3>1
      <3>3. got # <<>> => p >= 1 /\ s[p] = got[1] /\ 1 \in 1..Len(got)
        BY <1>0 DEF ReadTo
      <3> QED
        BY <1>5, <2>1, <3>1, <3>2, <3>3
    <2>2. CASE n # 0
      <3>1. 1 \in 1..n /\ (e - 1) + 1 = e /\ e >= 1
        BY <1>0, <1>1, <2>2
      <3> QED
        BY <1>5, <3>1
    <2> QED
      BY <2>1, <2>2
  <1>8. ASSUME NEW i \in 1..Len(now) PROVE \E k \in 1..e : s[k] = now[i]
    <2>1. CASE i \in 1..n
      <3>1. (e - i) + 1 \in 1..e
        BY <1>0, <2>1
      <3> QED
        BY <1>5, <2>1, <3>1
    <2>2. CASE i > n /\ i - n \in 1..Len(got) /\ now[i] = got[i - n]
      <3>1. PICK k \in 1..p : s[k] = got[i - n]
        BY <2>2 DEF ReadTo
      <3>2. k \in 1..e
        BY <1>0
      <3> QED
        BY <2>2, <3>1, <3>2
    <2> QED
      BY <1>6, <2>1, <2>2
  <1>9. \A r : Has(got, r) => Has(now, r)
    <2>1. \A k \in 1..Len(got) : n + k \in 1..Len(now)
      BY <1>0, <1>1, <1>5
    <2> QED
      BY <1>5, <2>1 DEF Has
  <1>10. ASSUME NEW k \in 1..e, s[k] \in wanted PROVE Has(now, s[k])
    <2>1. CASE k <= p
      <3>1. k \in 1..p
        BY <1>0, <2>1
      <3>2. Has(got, s[k])
        BY <1>10, <3>1 DEF ReadTo
      <3> QED
        BY <1>9, <3>2
    <2>2. CASE k > p
      <3>1. /\ (e - k) + 1 \in 1..n /\ (e - ((e - k) + 1)) + 1 = k
            /\ (e - k) + 1 \in 1..Len(now)
        BY <1>0, <1>1, <1>5, <2>2
      <3>2. now[(e - k) + 1] = s[k]
        BY <1>5, <3>1
      <3> QED
        BY <3>1, <3>2 DEF Has
    <2> QED
      BY <1>0, <2>1, <2>2
  <1>11. ASSUME NEW i \in 1..Len(now), NEW j \in 1..Len(now), i < j
         PROVE  Precedes(s, now[j], now[i])
    <2>1. CASE i \in 1..n /\ j \in 1..n
      <3>1. (e - i) + 1 \in 1..Len(s) /\ (e - j) + 1 \in 1..Len(s) /\ (e - j) + 1 < (e - i) + 1
        BY <1>0, <1>11, <2>1
      <3> QED
        BY <1>5, <2>1, <3>1 DEF Precedes
    <2>2. CASE i \in 1..n /\ j > n /\ j - n \in 1..Len(got) /\ now[j] = got[j - n]
      <3>1. PICK k \in 1..p : s[k] = got[j - n]
        BY <2>2 DEF ReadTo
      <3>2. (e - i) + 1 \in 1..Len(s) /\ k \in 1..Len(s) /\ k < (e - i) + 1
        BY <1>0, <1>1, <2>2
      <3> QED
        BY <1>5, <2>2, <3>1, <3>2 DEF Precedes
    <2>3. CASE i > n /\ i - n \in 1..Len(got) /\ now[i] = got[i - n]
      <3>1. j > n
        BY <1>1, <1>11, <2>3
      <3>2. j - n \in 1..Len(got) /\ now[j] = got[j - n]
        BY <1>1, <1>6, <3>1
      <3>3. i - n < j - n
        BY <1>1, <1>11, <2>3, <3>1
      <3> QED
        BY <2>3, <3>2, <3>3 DEF ReadTo
    <2> QED
      BY <1>6, <2>1, <2>2, <2>3
  <1>12. \A r \in wanted : Has(s, r)
    BY DEF ReadTo
  <1> HIDE DEF n
  <1>13. e \in 0..Len(s)
    BY <1>0
  <1>14. ReadTo(s, now, wanted, e)
    BY <1>13, <1>7, <1>8, <1>10, <1>11, <1>12 DEF ReadTo
  <1> QED
    BY <1>2, <1>5, <1>14 DEF n, now, page, u, PageGives
-----------------------------------------------------------------------------
\* The reader of messages: it never waits for a total, it has nothing before its first
\* query, and after it has read up to some place, with all it wants at its end.
ChatReader ==
    [op : {"wait", "ended"}, page : Nat \ {0}, rows : {None}, total : {None}, got : Seq(Nat),
     wanted : (SUBSET (1..MaxRows)) \cup {None}, gone : Nat, come : Nat, late : Nat]

Started(s, r) ==
    /\ \E p : ReadTo(s, r.got, r.wanted, p)
    /\ r.op = "wait" => r.got # <<>>
    /\ r.op = "ended" => \A x \in r.wanted : Has(r.got, x)

\* The rows of the list are different ones of those born.
ChatRows(s, n) ==
    /\ n \in 0..MaxRows
    /\ s \in Seq(Nat) /\ Distinct(s)
    /\ \A i \in 1..Len(s) : s[i] \in 1..n

PagesInv ==
    list = "messages" =>
      /\ ChatRows(order, born)
      /\ reader \in ChatReader
      /\ reader.wanted = None => reader.got = <<>> /\ reader.op = "wait"
      /\ reader.wanted # None => Started(order, reader)

LEMMA PagesInvInit == PagesInit => PagesInv
  <1> SUFFICES ASSUME PagesInit, list = "messages" PROVE PagesInv
    BY DEF PagesInv
  <1>1. born \in 0..MaxRows /\ born \in Nat
    BY BoundsAssumption DEF PagesInit
  <1>2. order = [i \in 1..born |-> born + 1 - i]
    BY DEF PagesInit
  <1>3. order \in Seq(Nat) /\ Len(order) = born
    BY <1>1, <1>2
  <1>4. Distinct(order) /\ \A i \in 1..Len(order) : order[i] \in 1..born
    BY <1>1, <1>2, <1>3 DEF Distinct
  <1>5. reader \in ChatReader /\ reader.wanted = None /\ reader.got = <<>> /\ reader.op = "wait"
    BY DEF PagesInit, ChatReader
  <1> QED
    BY <1>1, <1>3, <1>4, <1>5 DEF PagesInv, ChatRows

LEMMA ChatInsert ==
  ASSUME PagesInv, NEW i \in Place, NEW n \in 1..2, Insert(i, n)
  PROVE  PagesInv'
  <1> SUFFICES ASSUME list = "messages" PROVE PagesInv'
    BY DEF PagesInv, Insert
  <1>1. n = 1 /\ born + 1 <= MaxRows /\ born' = born + 1 /\ list' = list
    BY DEF Insert
  <1>2. /\ ChatRows(order, born) /\ reader \in ChatReader
        /\ reader.wanted # None => Started(order, reader)
    BY DEF PagesInv
  <1>3. born \in Nat /\ MaxRows \in Nat /\ order \in Seq(Nat) /\ Distinct(order) /\ Len(order) \in Nat
    BY <1>2, BoundsAssumption DEF ChatRows
  <1>4. i \in 1..(Len(order) + 1)
    BY DEF Place
  <1>5. order' \in Seq(Nat) /\ IsPut(order', order, i, born + 1)
    <2> DEFINE y == [j \in 1..1 |-> born + 1]
               t == SubSeq(order, 1, i - 1) \o y \o SubSeq(order, i, Len(order))
    <2>1. [j \in 1..1 |-> born + j] = y
      OBVIOUS
    <2>2. order' = t
      BY <1>1, <2>1 DEF Insert
    <2>3. y \in Seq(Nat) /\ Len(y) = 1 /\ y[1] = born + 1
      BY <1>3
    <2> HIDE DEF y
    <2>4. t \in Seq(Nat) /\ IsInserted(t, order, i, y)
      BY <1>3, <1>4, <2>3, InsertInto
    <2> HIDE DEF t
    <2>5. i \in Nat /\ 1 \in 1..Len(y) /\ i - 1 + 1 = i
      BY <1>3, <1>4, <2>3
    <2>6. IsPut(t, order, i, born + 1)
      BY <2>3, <2>4, <2>5 DEF IsInserted, IsPut
    <2> QED
      BY <2>2, <2>4, <2>6
  <1>6. /\ reader.op = "wait" /\ reader.wanted # None
        /\ reader' \in ChatReader /\ reader'.op = "wait" /\ reader'.got = reader.got
        /\ reader'.wanted = reader.wanted
    <2>1. reader.total = None /\ reader.rows = None
      BY <1>2 DEF ChatReader
    <2>2. reader.op = "wait" /\ reader.wanted # None
      BY <2>1 DEF Insert, Unnoticed
    <2>3. reader' = [reader EXCEPT !.gone = @ + 0, !.come = @ + n, !.late = @]
      BY <2>1, <2>2 DEF Insert, Unnoticed
    <2>4. reader.gone + 0 \in Nat /\ reader.come + n \in Nat
      BY <1>1, <1>2 DEF ChatReader
    <2> QED
      BY <1>2, <2>2, <2>3, <2>4 DEF ChatReader
  <1>7. \A k \in 1..Len(order') : k = i \/ \E l \in 1..Len(order) : k = To(i, l) /\ order'[k] = order[l]
    <2>1. /\ \A k \in 1..Len(order) : To(i, k) \in 1..Len(order') /\ order'[To(i, k)] = order[k]
          /\ \A k \in 1..Len(order') : k # i => \E l \in 1..Len(order) : k = To(i, l)
      <3> DEFINE t == order'
      <3>1. t \in Seq(Nat) /\ IsPut(t, order, i, born + 1)
        BY <1>5
      <3> HIDE DEF t
      <3>2. /\ \A k \in 1..Len(order) : To(i, k) \in 1..Len(t) /\ t[To(i, k)] = order[k]
            /\ \A k \in 1..Len(t) : k # i => \E l \in 1..Len(order) : k = To(i, l)
        BY <1>3, <1>4, <3>1, InsertedKeeps
      <3> QED
        BY <3>2 DEF t
    <2> QED
      BY <2>1
  <1>8. ChatRows(order', born')
    <2>1. \A l \in 1..Len(order) : order[l] \in 1..born
      BY <1>2 DEF ChatRows
    <2>2. order'[i] = born + 1
      BY <1>5 DEF IsPut
    <2>3. ASSUME NEW k \in 1..Len(order') PROVE order'[k] \in 1..(born + 1)
      <3>1. \A x \in 1..born : x \in 1..(born + 1)
        BY <1>3
      <3>2. born + 1 \in 1..(born + 1)
        BY <1>3
      <3>3. k = i \/ \E l \in 1..Len(order) : order'[k] = order[l]
        BY <1>7
      <3> QED
        BY <2>1, <2>2, <3>1, <3>2, <3>3
    <2>4. ASSUME NEW k \in 1..Len(order'), NEW l \in 1..Len(order'), order'[k] = order'[l] PROVE k = l
      <3>1. CASE k = i \/ l = i
        <4>1. \A j \in 1..Len(order') : j # i => order'[j] # born + 1
          BY <1>3, <1>7, <2>1
        <4> QED
          BY <2>2, <2>4, <3>1, <4>1
      <3>2. CASE k # i /\ l # i
        <4>1. PICK a \in 1..Len(order) : k = To(i, a) /\ order'[k] = order[a]
          BY <1>7, <3>2
        <4>2. PICK b \in 1..Len(order) : l = To(i, b) /\ order'[l] = order[b]
          BY <1>7, <3>2
        <4>3. a = b
          BY <1>3, <2>4, <4>1, <4>2 DEF Distinct
        <4> QED
          BY <4>1, <4>2, <4>3
      <3> QED
        BY <3>1, <3>2
    <2>5. Distinct(order')
      BY <2>4 DEF Distinct
    <2>6. born + 1 \in 0..MaxRows
      BY <1>1, <1>3
    <2> QED
      BY <1>1, <1>5, <2>3, <2>5, <2>6 DEF ChatRows
  <1>9. \E q : ReadTo(order', reader.got, reader.wanted, q)
    <2>1. PICK p : ReadTo(order, reader.got, reader.wanted, p)
      BY <1>2, <1>6 DEF Started
    <2>2. \A x \in reader.wanted : Has(order, x)
      BY <2>1 DEF ReadTo
    <2>3. born + 1 \notin reader.wanted
      BY <1>2, <1>3, <2>2 DEF Has, ChatRows
    <2> QED
      BY <1>3, <1>4, <1>5, <2>1, <2>3, InsertReads
  <1>10. Started(order', reader')
    BY <1>2, <1>6, <1>9 DEF Started
  <1> QED
    BY <1>6, <1>8, <1>10 DEF PagesInv

LEMMA ChatGet ==
  ASSUME PagesInv, GetMessages
  PROVE  PagesInv'
  <1>1. list = "messages" /\ list' = list /\ order' = order /\ born' = born
    BY DEF GetMessages
  <1>2. /\ ChatRows(order, born) /\ reader \in ChatReader
        /\ reader.wanted = None => reader.got = <<>>
        /\ reader.wanted # None => Started(order, reader)
        /\ reader.op = "wait"
    BY <1>1 DEF PagesInv, GetMessages, Waits
  <1>3. /\ order \in Seq(Nat) /\ Distinct(order) /\ Len(order) \in Nat /\ Limit \in Nat /\ Limit >= 1
        /\ reader.got \in Seq(Nat)
    BY <1>2, BoundsAssumption DEF ChatRows, ChatReader
  <1> DEFINE skip == IF reader.got = <<>> THEN 0 ELSE SkipTo(Head(reader.got))
             page == Page(skip)
             now == Reverse(page) \o reader.got
  <1>4. reader' = [reader EXCEPT !.op = IF Len(page) < Limit THEN "ended" ELSE @,
                                 !.got = now, !.wanted = WantedNow]
    BY DEF GetMessages
  <1>5. WantedNow \in SUBSET (1..MaxRows) /\ WantedNow # None
    <2>1. CASE reader.wanted = None
      <3>1. ToSet(order) \in SUBSET (1..MaxRows)
        BY <1>2, BoundsAssumption DEF ToSet, ChatRows
      <3> QED
        BY <2>1, <3>1, NoneAssumption DEF WantedNow
    <2>2. CASE reader.wanted # None
      BY <1>2, <2>2 DEF WantedNow, ChatReader
    <2> QED
      BY <2>1, <2>2
  <1>6. ReadTo(order, reader.got, WantedNow, skip)
    <2>1. CASE reader.wanted = None
      <3>1. reader.got = <<>> /\ skip = 0 /\ Len(reader.got) = 0
        BY <1>2, <2>1
      <3>2. \A r \in WantedNow : Has(order, r)
        BY <1>3, <2>1 DEF WantedNow, ToSet, Has
      <3> HIDE DEF skip
      <3> QED
        BY <1>3, <3>1, <3>2 DEF ReadTo
    <2>2. CASE reader.wanted # None
      <3>1. PICK p : ReadTo(order, reader.got, reader.wanted, p)
        BY <1>2, <2>2 DEF Started
      <3>2. reader.got # <<>>
        BY <1>2, <2>2 DEF Started
      <3>3. p \in DOMAIN order /\ order[p] = reader.got[1] /\ Head(reader.got) = reader.got[1]
        BY <1>3, <3>1, <3>2 DEF ReadTo
      <3>4. \A k \in DOMAIN order : order[k] = reader.got[1] => k = p
        BY <1>3, <3>3 DEF Distinct
      <3>5. SkipTo(Head(reader.got)) = p
        BY <3>3, <3>4 DEF SkipTo
      <3>6. skip = p /\ WantedNow = reader.wanted
        BY <2>2, <3>2, <3>5 DEF WantedNow
      <3> QED
        BY <3>1, <3>6
    <2> QED
      BY <2>1, <2>2
  <1> HIDE DEF skip
  <1> DEFINE e == IF skip + Limit <= Len(order) THEN skip + Limit ELSE Len(order)
  <1>7. skip \in 0..Len(order)
    BY <1>6 DEF ReadTo
  <1>8. e \in skip..Len(order) /\ (e - skip < Limit => e = Len(order)) /\ e - skip \in Nat
    BY <1>3, <1>7
  <1>9. page = SubSeq(order, skip + 1, e)
    BY DEF Page
  <1> HIDE DEF e, page
  <1>10. now \in Seq(Nat) /\ ReadTo(order, now, WantedNow, e) /\ Len(page) = e - skip
    <2> DEFINE got == reader.got
               wanted == WantedNow
    <2>1. ReadTo(order, got, wanted, skip) /\ got \in Seq(Nat) /\ order \in Seq(Nat) /\ e \in skip..Len(order)
      BY <1>3, <1>6, <1>8
    <2> HIDE DEF got, wanted
    <2>2. PageGives(Nat, order, got, wanted, skip, e)
      BY <2>1, PageReads
    <2> QED
      BY <1>9, <2>2 DEF got, wanted, PageGives
  <1>11. Len(page) < Limit => \A x \in WantedNow : Has(now, x)
    <2> SUFFICES ASSUME e = Len(order), NEW x \in WantedNow PROVE Has(now, x)
      BY <1>8, <1>10
    <2>1. PICK k \in 1..Len(order) : order[k] = x
      BY <1>10 DEF ReadTo, Has
    <2> HIDE DEF now
    <2> QED
      BY <1>10, <2>1 DEF ReadTo
  <1>12. ~(Len(page) < Limit) => now # <<>>
    <2> SUFFICES ASSUME ~(Len(page) < Limit), now = <<>> PROVE FALSE
      OBVIOUS
    <2>1. e > skip /\ skip \in Nat
      BY <1>3, <1>7, <1>8, <1>10
    <2>2. page \in Seq(Nat) /\ Len(page) >= 1
      <3>1. Len(page) >= 1
        BY <1>3, <1>7, <1>8, <1>10
      <3>2. SubSeq(order, skip + 1, e) \in Seq(Nat)
        BY <1>3, <1>7, <1>8
      <3> QED
        BY <1>9, <3>1, <3>2
    <2>3. Reverse(page) \in Seq(Nat) /\ Len(Reverse(page)) = Len(page)
      BY <2>2 DEF Reverse
    <2>4. Len(now) = Len(Reverse(page)) + Len(reader.got)
      BY <1>3, <2>3
    <2>5. Len(now) = 0
      OBVIOUS
    <2> QED
      BY <1>3, <2>2, <2>3, <2>4, <2>5
  <1> HIDE DEF now
  <1>13. /\ reader' \in ChatReader /\ reader'.got = now /\ reader'.wanted = WantedNow
         /\ reader'.op = IF Len(page) < Limit THEN "ended" ELSE "wait"
    BY <1>2, <1>4, <1>5, <1>10 DEF ChatReader
  <1>14. Started(order, reader')
    BY <1>10, <1>11, <1>12, <1>13 DEF Started
  <1> QED
    BY <1>1, <1>2, <1>5, <1>13, <1>14 DEF PagesInv

LEMMA ChatStep ==
  ASSUME PagesInv, [PagesNext]_pagesVars
  PROVE  PagesInv'
  <1>1. CASE \E i \in Place, n \in 1..2 : Insert(i, n)
    BY <1>1, ChatInsert
  <1>2. CASE \E S \in SUBSET ToSet(order) : Delete(S)
    BY <1>2 DEF PagesInv, Delete
  <1>3. CASE \E r \in ToSet(order) : Touch(r)
    BY <1>3 DEF PagesInv, Touch
  <1>9. CASE \E i \in 1..(Len(order) - 1) : Swap(i)
    BY <1>9 DEF PagesInv, Swap
  <1>4. CASE GetMessages
    BY <1>4, ChatGet
  <1>5. CASE QueryRows
    BY <1>5 DEF PagesInv, QueryRows
  <1>6. CASE QueryTotal
    BY <1>6 DEF PagesInv, QueryTotal
  <1>7. CASE Answer
    <2>1. list # "messages" /\ list' = list
      BY <1>7 DEF Answer, PagesInv, ChatReader
    <2> QED
      BY <2>1 DEF PagesInv
  <1>8. CASE UNCHANGED pagesVars
    BY <1>8 DEF pagesVars, PagesInv
  <1> QED
    BY <1>1, <1>2, <1>3, <1>4, <1>5, <1>6, <1>7, <1>8, <1>9 DEF PagesNext

LEMMA ChatSays == PagesInv => MessagesReadOnce
  <1> SUFFICES ASSUME PagesInv, list = "messages", reader.wanted # None
               PROVE  MessagesReadOnce
    BY DEF MessagesReadOnce
  <1> DEFINE got == reader.got
             wanted == reader.wanted
  <1>1. ChatRows(order, born) /\ reader \in ChatReader /\ Started(order, reader)
    BY DEF PagesInv
  <1>2. PICK p : ReadTo(order, got, wanted, p)
    BY <1>1 DEF Started
  <1>3. /\ order \in Seq(Nat) /\ Distinct(order) /\ got \in Seq(Nat)
        /\ DOMAIN order = 1..Len(order) /\ DOMAIN got = 1..Len(got)
        /\ Len(order) \in Nat /\ Len(got) \in Nat /\ p \in 0..Len(order)
    BY <1>1, <1>2 DEF ChatRows, ChatReader, ReadTo
  <1> HIDE DEF got, wanted
  <1>4. \A x : Has(got, x) <=> x \in ToSet(got)
    BY <1>3 DEF Has, ToSet
  <1>5. \A r, q : Precedes(order, q, r) <=> Older(r, q)
    BY <1>3 DEF Precedes, Older
  <1>6. \A i, j \in DOMAIN got : i < j => Older(got[i], got[j])
    BY <1>2, <1>3, <1>5 DEF ReadTo
  <1>7. \A r : ~Precedes(order, r, r)
    BY <1>3 DEF Precedes, Distinct
  <1>8. \A i, j \in DOMAIN got : i < j => got[i] # got[j]
    BY <1>5, <1>6, <1>7
  <1>9. ASSUME NEW r \in wanted, NEW q \in wanted, Has(got, r), Precedes(order, q, r)
        PROVE  Has(got, q)
    <2>1. PICK i \in 1..Len(got) : got[i] = r
      BY <1>9 DEF Has
    <2>2. PICK k \in 1..p : order[k] = r
      BY <1>2, <2>1 DEF ReadTo
    <2>3. PICK a \in 1..Len(order), b \in 1..Len(order) : a < b /\ order[a] = q /\ order[b] = r
      BY <1>9 DEF Precedes
    <2>4. b = k
      BY <1>3, <2>2, <2>3 DEF Distinct
    <2>5. a \in 1..p
      BY <1>3, <2>3, <2>4
    <2> QED
      BY <1>2, <2>3, <2>5 DEF ReadTo
  <1>10. reader.op = "ended" => \A x \in wanted : Has(got, x)
    BY <1>1 DEF Started, got, wanted
  <1>11. Got = ToSet(got)
    BY DEF Got, got
  <1>12. \A r, s \in wanted : r \in Got /\ Older(r, s) => s \in Got
    BY <1>4, <1>5, <1>9, <1>11
  <1>13. reader.op = "ended" => wanted \subseteq Got
    BY <1>4, <1>10, <1>11
  <1> QED
    BY <1>6, <1>8, <1>12, <1>13 DEF MessagesReadOnce, got, wanted

\* Whatever is sent while a client scrolls back, the pages of getGroupMessages show it
\* each message once, in order and without a gap, and all of them by the last page.
THEOREM ChatIsReadOnce == PagesSpec => []MessagesReadOnce
  <1>1. PagesInit => PagesInv
    BY PagesInvInit
  <1>2. PagesInv /\ [PagesNext]_pagesVars => PagesInv'
    BY ChatStep
  <1>3. PagesInv => MessagesReadOnce
    BY ChatSays
  <1> QED
    BY <1>1, <1>2, <1>3, PTL DEF PagesSpec
-----------------------------------------------------------------------------
(***************************************************************************)
(* Pages by offset.  Whatever changes moves the rows between what a place  *)
(* of the list has ahead of it and what it has behind it, and not more of  *)
(* them than are counted (Moves); what was queried is the part ahead of    *)
(* such a place, but for those (PassedCounts).                             *)
(***************************************************************************)
\* Counting.
AtMost(S, n) == IsFiniteSet(S) /\ Cardinality(S) <= n

LEMMA CardinalityUpTo ==
  ASSUME NEW n \in Nat
  PROVE  IsFiniteSet(1..n) /\ Cardinality(1..n) = n
  <1>1. 1 \in Int /\ n \in Int /\ (1 > n => n = 0) /\ n - 1 + 1 = n
    OBVIOUS
  <1> QED
    BY <1>1, FS_Interval

LEMMA AtMostNone == \A n \in Nat : AtMost({}, n)
  <1>1. IsFiniteSet({}) /\ Cardinality({}) = 0
    BY FS_EmptySet
  <1> QED
    BY <1>1 DEF AtMost

LEMMA AtMostMore ==
  ASSUME NEW A, NEW B, NEW X, NEW a \in Nat, NEW n \in Nat,
         AtMost(A, a), AtMost(X, n), B \subseteq A \cup X
  PROVE  AtMost(B, a + n)
  <1>1. /\ IsFiniteSet(A) /\ IsFiniteSet(X) /\ Cardinality(A) \in Nat /\ Cardinality(X) \in Nat
        /\ Cardinality(A) <= a /\ Cardinality(X) <= n
    BY FS_CardinalityType DEF AtMost
  <1>2. /\ IsFiniteSet(A \cup X) /\ IsFiniteSet(A \cap X)
        /\ Cardinality(A \cup X) = Cardinality(A) + Cardinality(X) - Cardinality(A \cap X)
    BY <1>1, FS_Union, FS_Subset
  <1>3. Cardinality(A \cap X) \in Nat /\ Cardinality(A \cup X) \in Nat
    BY <1>2, FS_CardinalityType
  <1>4. IsFiniteSet(B) /\ Cardinality(B) <= Cardinality(A \cup X)
    BY <1>2, FS_Subset
  <1>5. Cardinality(B) \in Nat
    BY <1>4, FS_CardinalityType
  <1> QED
    BY <1>1, <1>2, <1>3, <1>4, <1>5 DEF AtMost

LEMMA AtMostLess ==
  ASSUME NEW A, NEW B, NEW a \in Nat, AtMost(A, a), B \subseteq A
  PROVE  AtMost(B, a)
  <1>1. IsFiniteSet(A) /\ Cardinality(A) <= a
    BY DEF AtMost
  <1>2. IsFiniteSet(B) /\ Cardinality(B) <= Cardinality(A)
    BY <1>1, FS_Subset
  <1> QED
    BY <1>1, <1>2, FS_CardinalityType DEF AtMost

\* What stands at the n places from a on are at most n.
LEMMA AtMostPlaces ==
  ASSUME NEW s, NEW a \in Int, NEW n \in Nat, NEW X,
         \A x \in X : \E k \in a..(a + n - 1) : s[k] = x
  PROVE  AtMost(X, n)
  <1> DEFINE I == a..(a + n - 1)
             Y == {s[k] : k \in I}
             f == [k \in I |-> s[k]]
  <1>1. IsFiniteSet(I) /\ Cardinality(I) = n
    BY FS_Interval
  <1>2. f \in Surjection(I, Y)
    BY DEF Surjection
  <1> HIDE DEF f, I
  <1>3. IsFiniteSet(Y) /\ Cardinality(Y) <= n
    BY <1>1, <1>2, FS_Surjection
  <1>4. X \subseteq Y
    BY DEF I
  <1> QED
    BY <1>3, <1>4, AtMostLess DEF AtMost
-----------------------------------------------------------------------------
\* The first p rows of s, and those after them.
Ahead(s, p) == {x \in ToSet(s) : \E k \in 1..Len(s) : k <= p /\ s[k] = x}
Behind(s, p) == {x \in ToSet(s) : \E k \in 1..Len(s) : k > p /\ s[k] = x}

\* s becomes t: rows of new come, at most g more are in front of any place, and at most c
\* more are after it.
Moves(s, t, new, g, c) ==
    /\ ToSet(t) \subseteq ToSet(s) \cup new
    /\ Len(t) <= Len(s) + c
    /\ \A p \in Nat : \E X : AtMost(X, g) /\ Ahead(t, p) \subseteq Ahead(s, p) \cup X \cup new
    /\ \A p \in Nat : \E X : AtMost(X, c) /\ Behind(t, p) \subseteq Behind(s, p) \cup X \cup new

\* Every row of t is one of new, or was at most g places behind or c places before
\* where it is now.
Near(s, t, new, g, c) ==
    \A k \in 1..Len(t) : t[k] \in new \/ \E l \in 1..Len(s) : t[k] = s[l] /\ l <= k + g /\ k <= l + c

LEMMA NearMoves ==
  ASSUME NEW S, NEW s \in Seq(S), NEW t \in Seq(S), NEW new, NEW g \in Nat, NEW c \in Nat,
         Near(s, t, new, g, c), Len(t) <= Len(s) + c
  PROVE  Moves(s, t, new, g, c)
  <1>0. /\ Len(s) \in Nat /\ Len(t) \in Nat
        /\ ToSet(s) = {s[k] : k \in 1..Len(s)} /\ ToSet(t) = {t[k] : k \in 1..Len(t)}
    BY DEF ToSet
  <1>1. ToSet(t) \subseteq ToSet(s) \cup new
    BY <1>0 DEF Near
  <1>2. ASSUME NEW p \in Nat
        PROVE  \E X : AtMost(X, g) /\ Ahead(t, p) \subseteq Ahead(s, p) \cup X \cup new
    <2> DEFINE X == {x \in ToSet(s) : \E l \in (p + 1)..(p + 1 + g - 1) : s[l] = x}
    <2>1. AtMost(X, g)
      <3>1. \A x \in X : \E l \in (p + 1)..(p + 1 + g - 1) : s[l] = x
        OBVIOUS
      <3>2. p + 1 \in Int
        OBVIOUS
      <3> HIDE DEF X
      <3> QED
        BY <3>1, <3>2, AtMostPlaces
    <2>2. ASSUME NEW x \in Ahead(t, p), x \notin new PROVE x \in Ahead(s, p) \/ x \in X
      <3>1. PICK k \in 1..Len(t) : k <= p /\ t[k] = x
        BY DEF Ahead
      <3>2. PICK l \in 1..Len(s) : x = s[l] /\ l <= k + g
        BY <2>2, <3>1 DEF Near
      <3>3. x \in ToSet(s)
        BY <1>0, <3>2
      <3>4. l <= p \/ l \in (p + 1)..(p + 1 + g - 1)
        BY <1>0, <3>1, <3>2
      <3> QED
        BY <3>2, <3>3, <3>4 DEF Ahead
    <2> QED
      BY <2>1, <2>2
  <1>3. ASSUME NEW p \in Nat
        PROVE  \E X : AtMost(X, c) /\ Behind(t, p) \subseteq Behind(s, p) \cup X \cup new
    <2> DEFINE X == {x \in ToSet(s) : \E l \in (p - c + 1)..((p - c + 1) + c - 1) : s[l] = x}
    <2>1. AtMost(X, c)
      <3>1. \A x \in X : \E l \in (p - c + 1)..((p - c + 1) + c - 1) : s[l] = x
        OBVIOUS
      <3>2. p - c + 1 \in Int
        OBVIOUS
      <3> HIDE DEF X
      <3> QED
        BY <3>1, <3>2, AtMostPlaces
    <2>2. ASSUME NEW x \in Behind(t, p), x \notin new PROVE x \in Behind(s, p) \/ x \in X
      <3>1. PICK k \in 1..Len(t) : k > p /\ t[k] = x
        BY DEF Behind
      <3>2. PICK l \in 1..Len(s) : x = s[l] /\ k <= l + c
        BY <2>2, <3>1 DEF Near
      <3>3. x \in ToSet(s)
        BY <1>0, <3>2
      <3>4. l > p \/ l \in (p - c + 1)..((p - c + 1) + c - 1)
        BY <1>0, <3>1, <3>2
      <3> QED
        BY <3>2, <3>3, <3>4 DEF Behind
    <2> QED
      BY <2>1, <2>2
  <1> QED
    BY <1>1, <1>2, <1>3 DEF Moves
-----------------------------------------------------------------------------
\* Taking rows away.
LeftIn(s, S) == {i \in 1..Len(s) : s[i] \notin S}
Rank(s, S, i) == Cardinality({l \in LeftIn(s, S) : l < i})

LEMMA RankIs ==
  ASSUME NEW T, NEW s \in Seq(T), NEW S, NEW i \in 1..Len(s), AtMost({k \in 1..Len(s) : s[k] \in S}, Cardinality(S)),
         Cardinality(S) \in Nat
  PROVE  Rank(s, S, i) \in Nat /\ Rank(s, S, i) <= i - 1 /\ i - 1 <= Rank(s, S, i) + Cardinality(S)
  <1> DEFINE L == {l \in LeftIn(s, S) : l < i}
             G == {k \in 1..Len(s) : s[k] \in S}
             n == Cardinality(S)
  <1>0. Len(s) \in Nat /\ i \in Nat /\ i >= 1
    OBVIOUS
  <1>1. IsFiniteSet(1..(i - 1)) /\ Cardinality(1..(i - 1)) = i - 1
    <2>1. i - 1 \in Nat
      BY <1>0
    <2> QED
      BY <2>1, CardinalityUpTo
  <1>2. L \subseteq 1..(i - 1)
    BY <1>0 DEF LeftIn
  <1>3. IsFiniteSet(L) /\ Cardinality(L) <= i - 1 /\ Cardinality(L) \in Nat
    BY <1>1, <1>2, FS_Subset, FS_CardinalityType
  <1>4. 1..(i - 1) \subseteq L \cup G
    BY <1>0 DEF LeftIn
  <1> DEFINE a == Cardinality(L)
  <1>5. AtMost(L, a) /\ AtMost(G, n) /\ a \in Nat /\ n \in Nat
    BY <1>3 DEF AtMost
  <1> HIDE DEF L, G, a, n
  <1>6. AtMost(1..(i - 1), a + n)
    BY <1>4, <1>5, AtMostMore
  <1>7. i - 1 <= a + n
    BY <1>1, <1>6 DEF AtMost
  <1> QED
    BY <1>3, <1>7 DEF a, n, L, Rank

\* Ranks grow, and so every rank there can be is that of a row.
LEMMA RankFound ==
  ASSUME NEW T, NEW s \in Seq(T), NEW S, NEW k \in 1..Cardinality(LeftIn(s, S))
  PROVE  \E i \in LeftIn(s, S) : Rank(s, S, i) = k - 1
  <1> DEFINE L == LeftIn(s, S)
             n == Cardinality(L)
  <1>0. Len(s) \in Nat /\ L \subseteq 1..Len(s)
    BY DEF LeftIn
  <1>1. IsFiniteSet(L) /\ n \in Nat
    <2>1. IsFiniteSet(1..Len(s))
      BY <1>0, FS_Interval
    <2> QED
      BY <1>0, <2>1, FS_Subset, FS_CardinalityType
  <1>2. ASSUME NEW i \in L PROVE Rank(s, S, i) \in 0..(n - 1)
    <2> DEFINE B == {l \in L : l < i}
    <2>1. B \subseteq L /\ B # L
      BY <1>0
    <2>2. IsFiniteSet(B) /\ Cardinality(B) <= n /\ Cardinality(B) # n
      BY <1>1, <2>1, FS_Subset
    <2>3. Cardinality(B) \in Nat
      BY <2>2, FS_CardinalityType
    <2>4. Rank(s, S, i) = Cardinality(B)
      BY DEF Rank
    <2> QED
      BY <1>1, <2>2, <2>3, <2>4
  <1>3. ASSUME NEW i \in L, NEW j \in L, i < j PROVE Rank(s, S, i) # Rank(s, S, j)
    <2> DEFINE A == {l \in L : l < i}
               B == {l \in L : l < j}
    <2>1. A \subseteq B /\ A # B /\ B \subseteq L
      BY <1>0, <1>3
    <2>2. IsFiniteSet(B)
      BY <1>1, <2>1, FS_Subset
    <2>3. Cardinality(A) # Cardinality(B)
      <3> HIDE DEF A, B
      <3> QED
        BY <2>1, <2>2, FS_Subset
    <2>4. Rank(s, S, i) = Cardinality(A) /\ Rank(s, S, j) = Cardinality(B)
      BY DEF Rank
    <2> QED
      BY <2>3, <2>4
  <1> SUFFICES ASSUME \A i \in L : Rank(s, S, i) # k - 1 PROVE FALSE
    OBVIOUS
  <1> DEFINE R == (0..(n - 1)) \ {k - 1}
             f == [i \in L |-> Rank(s, S, i)]
  <1>4. k \in Nat /\ k - 1 \in 0..(n - 1) /\ n >= 1
    BY <1>1
  <1>5. IsFiniteSet(R) /\ Cardinality(R) = n - 1
    <2> HIDE DEF n
    <2>1. IsFiniteSet(0..(n - 1)) /\ Cardinality(0..(n - 1)) = n
      <3>1. 0 \in Int /\ n - 1 \in Int /\ ~(0 > n - 1) /\ (n - 1) - 0 + 1 = n
        BY <1>1, <1>4
      <3> QED
        BY <3>1, FS_Interval
    <2>2. IsFiniteSet(R) /\ Cardinality(R) = Cardinality(0..(n - 1)) - 1
      <3> DEFINE I == 0..(n - 1)
      <3>1. k - 1 \in I /\ IsFiniteSet(I)
        BY <1>4, <2>1
      <3> HIDE DEF I
      <3>2. IsFiniteSet(I \ {k - 1}) /\ Cardinality(I \ {k - 1}) = Cardinality(I) - 1
        BY <3>1, FS_RemoveElement
      <3> QED
        BY <3>2 DEF I
    <2> QED
      BY <2>1, <2>2
  <1>6. f \in [L -> R]
    BY <1>2
  <1>7. Cardinality(R) < Cardinality(L)
    BY <1>1, <1>5
  <1> HIDE DEF R, f, L
  <1>8. PICK i \in L, j \in L : i # j /\ f[i] = f[j]
    BY <1>1, <1>5, <1>6, <1>7, FS_PigeonHole
  <1>9. i < j \/ j < i
    BY <1>0, <1>8
  <1> QED
    BY <1>3, <1>8, <1>9 DEF f

LEMMA WithoutIs ==
  ASSUME NEW T, NEW s \in Seq(T), Distinct(s), NEW S, IsFiniteSet(S)
  PROVE  LET t == Without(s, S)
             n == Cardinality(S)
         IN  /\ t \in Seq(T) /\ Distinct(t) /\ Len(t) <= Len(s)
             /\ \A k \in 1..Len(t) : \E l \in 1..Len(s) :
                  t[k] = s[l] /\ s[l] \notin S /\ k <= l /\ l <= k + n
  <1> DEFINE t == Without(s, S)
             n == Cardinality(S)
             L == LeftIn(s, S)
             G == {k \in 1..Len(s) : s[k] \in S}
             At(k) == CHOOSE i \in L : Rank(s, S, i) = k - 1
  <1>0. Len(s) \in Nat /\ L \subseteq 1..Len(s) /\ n \in Nat /\ DOMAIN s = 1..Len(s)
    BY FS_CardinalityType DEF LeftIn
  <1>1. IsFiniteSet(L) /\ Cardinality(L) \in Nat /\ Cardinality(L) <= Len(s)
    <2>1. IsFiniteSet(1..Len(s)) /\ Cardinality(1..Len(s)) = Len(s)
      BY <1>0, CardinalityUpTo
    <2>2. IsFiniteSet(L) /\ Cardinality(L) <= Cardinality(1..Len(s))
      BY <1>0, <2>1, FS_Subset
    <2> QED
      BY <2>1, <2>2, FS_CardinalityType
  <1>2. AtMost(G, n)
    <2> DEFINE f == [k \in G |-> s[k]]
    <2>1. f \in Injection(G, S)
      BY DEF Injection, IsInjective, Distinct
    <2> HIDE DEF f, G
    <2> QED
      BY <2>1, FS_Injection DEF AtMost
  <1>3. t = [k \in 1..Cardinality(L) |-> s[At(k)]]
    BY <1>0 DEF Without, LeftIn, Rank
  <1>4. ASSUME NEW k \in 1..Cardinality(L)
        PROVE  At(k) \in L /\ Rank(s, S, At(k)) = k - 1
    BY RankFound
  <1>5. ASSUME NEW k \in 1..Cardinality(L)
        PROVE  At(k) \in 1..Len(s) /\ s[At(k)] \notin S /\ k <= At(k) /\ At(k) <= k + n
    <2>1. At(k) \in L /\ Rank(s, S, At(k)) = k - 1
      BY <1>4
    <2>2. At(k) \in 1..Len(s) /\ s[At(k)] \notin S
      BY <2>1 DEF LeftIn
    <2> HIDE DEF At
    <2>3. Rank(s, S, At(k)) <= At(k) - 1 /\ At(k) - 1 <= Rank(s, S, At(k)) + n
      BY <1>0, <1>2, <2>2, RankIs
    <2> QED
      BY <1>0, <2>1, <2>2, <2>3
  <1>6. ASSUME NEW k \in 1..Cardinality(L), NEW m \in 1..Cardinality(L), At(k) = At(m) PROVE k = m
    BY <1>4, <1>6
  <1> HIDE DEF At, L, n
  <1>7. t \in Seq(T) /\ Len(t) = Cardinality(L) /\ \A k \in 1..Len(t) : t[k] = s[At(k)]
    <2>1. \A k \in 1..Cardinality(L) : s[At(k)] \in T
      BY <1>5
    <2> QED
      BY <1>1, <1>3, <2>1
  <1> HIDE DEF t
  <1>8. Distinct(t)
    BY <1>5, <1>6, <1>7 DEF Distinct
  <1>9. \A k \in 1..Len(t) : \E l \in 1..Len(s) :
          t[k] = s[l] /\ s[l] \notin S /\ k <= l /\ l <= k + n
    BY <1>5, <1>7
  <1>10. Len(t) <= Len(s)
    BY <1>1, <1>7
  <1> QED
    BY <1>7, <1>8, <1>9, <1>10 DEF t, n

\* Its rows are those of s and y.
ComesFrom(t, s, m, y) ==
    \A k \in 1..Len(t) :
      \/ \E l \in 1..Len(y) : k = m - 1 + l /\ t[k] = y[l]
      \/ \E l \in 1..Len(s) : k = (IF l < m THEN l ELSE l + Len(y)) /\ t[k] = s[l]

LEMMA InsertedFrom ==
  ASSUME NEW S, NEW s \in Seq(S), NEW y \in Seq(S), NEW t \in Seq(S), NEW m \in 1..(Len(s) + 1),
         IsInserted(t, s, m, y)
  PROVE  ComesFrom(t, s, m, y)
  <1> SUFFICES ASSUME NEW k \in 1..Len(t)
               PROVE  \/ \E l \in 1..Len(y) : k = m - 1 + l /\ t[k] = y[l]
                      \/ \E l \in 1..Len(s) : k = (IF l < m THEN l ELSE l + Len(y)) /\ t[k] = s[l]
    BY DEF ComesFrom
  <1> DEFINE n == Len(y)
  <1>0. /\ Len(s) \in Nat /\ n \in Nat /\ m \in Nat /\ m >= 1 /\ m <= Len(s) + 1 /\ k \in Nat /\ k >= 1
        /\ Len(t) = Len(s) + n
    BY DEF IsInserted
  <1> HIDE DEF n
  <1>1. CASE k < m
    <2>1. k \in 1..Len(s)
      BY <1>0, <1>1
    <2> QED
      BY <1>1, <2>1 DEF IsInserted
  <1>2. CASE k >= m /\ k < m + n
    <2>1. k - m + 1 \in 1..n /\ k = m - 1 + (k - m + 1)
      BY <1>0, <1>2
    <2>2. t[m - 1 + (k - m + 1)] = y[k - m + 1]
      BY <2>1 DEF IsInserted, n
    <2> QED
      BY <2>1, <2>2 DEF n
  <1>3. CASE k >= m + n
    <2>1. k - n \in 1..Len(s) /\ ~(k - n < m) /\ k = (k - n) + n
      BY <1>0, <1>3
    <2>2. t[(k - n) + n] = s[k - n]
      BY <2>1 DEF IsInserted, n
    <2> QED
      BY <2>1, <2>2 DEF n
  <1> QED
    BY <1>0, <1>1, <1>2, <1>3

LEMMA InsertNear ==
  ASSUME NEW S, NEW s \in Seq(S), NEW y \in Seq(S), NEW t \in Seq(S), NEW m \in 1..(Len(s) + 1),
         IsInserted(t, s, m, y)
  PROVE  Near(s, t, ToSet(y), 0, Len(y)) /\ Len(t) <= Len(s) + Len(y)
  <1>1. ASSUME NEW k \in 1..Len(t)
        PROVE  \/ t[k] \in ToSet(y)
               \/ \E l \in 1..Len(s) : t[k] = s[l] /\ l <= k + 0 /\ k <= l + Len(y)
    <2> DEFINE n == Len(y)
    <2>1. n \in Nat /\ Len(s) \in Nat
      OBVIOUS
    <2>2. CASE \E l \in 1..Len(y) : k = m - 1 + l /\ t[k] = y[l]
      BY <2>2 DEF ToSet
    <2>3. CASE \E l \in 1..Len(s) : k = (IF l < m THEN l ELSE l + n) /\ t[k] = s[l]
      <3>1. PICK l \in 1..Len(s) : k = (IF l < m THEN l ELSE l + n) /\ t[k] = s[l]
        BY <2>3
      <3> HIDE DEF n
      <3>2. l <= k + 0 /\ k <= l + n
        BY <2>1, <3>1
      <3> QED
        BY <3>1, <3>2 DEF n
    <2>4. ComesFrom(t, s, m, y)
      BY InsertedFrom
    <2> QED
      BY <2>2, <2>3, <2>4 DEF ComesFrom
  <1>2. Len(t) = Len(s) + Len(y) /\ Len(s) + Len(y) \in Nat
    BY DEF IsInserted
  <1> QED
    BY <1>1, <1>2 DEF Near

LEMMA InsertDistinct ==
  ASSUME NEW S, NEW s \in Seq(S), NEW y \in Seq(S), NEW t \in Seq(S), NEW m \in 1..(Len(s) + 1),
         IsInserted(t, s, m, y), Distinct(s), Distinct(y), ToSet(s) \cap ToSet(y) = {}
  PROVE  Distinct(t)
  <1> SUFFICES ASSUME NEW a \in 1..Len(t), NEW b \in 1..Len(t), t[a] = t[b] PROVE a = b
    BY DEF Distinct
  <1>1. ASSUME NEW k \in 1..Len(t)
        PROVE  \/ \E l \in 1..Len(y) : k = m - 1 + l /\ t[k] = y[l] /\ y[l] \in ToSet(y)
               \/ \E l \in 1..Len(s) : k = (IF l < m THEN l ELSE l + Len(y)) /\ t[k] = s[l] /\ s[l] \in ToSet(s)
    <2>1. \A l \in 1..Len(y) : y[l] \in ToSet(y)
      BY DEF ToSet
    <2>2. \A l \in 1..Len(s) : s[l] \in ToSet(s)
      BY DEF ToSet
    <2>3. \/ \E l \in 1..Len(y) : k = m - 1 + l /\ t[k] = y[l]
          \/ \E l \in 1..Len(s) : k = (IF l < m THEN l ELSE l + Len(y)) /\ t[k] = s[l]
      <3>1. ComesFrom(t, s, m, y)
        BY InsertedFrom
      <3> QED
        BY <3>1 DEF ComesFrom
    <2>4. CASE \E l \in 1..Len(y) : k = m - 1 + l /\ t[k] = y[l]
      BY <2>1, <2>4
    <2>5. CASE \E l \in 1..Len(s) : k = (IF l < m THEN l ELSE l + Len(y)) /\ t[k] = s[l]
      BY <2>2, <2>5
    <2> QED
      BY <2>3, <2>4, <2>5
  <1>2. CASE \E l \in 1..Len(y) : a = m - 1 + l /\ t[a] = y[l] /\ y[l] \in ToSet(y)
    <2>1. PICK l \in 1..Len(y) : a = m - 1 + l /\ t[a] = y[l] /\ y[l] \in ToSet(y)
      BY <1>2
    <2>2. PICK q \in 1..Len(y) : b = m - 1 + q /\ t[b] = y[q]
      BY <1>1, <2>1
    <2> QED
      BY <2>1, <2>2 DEF Distinct
  <1>3. CASE \E l \in 1..Len(s) : a = (IF l < m THEN l ELSE l + Len(y)) /\ t[a] = s[l] /\ s[l] \in ToSet(s)
    <2>1. PICK l \in 1..Len(s) : a = (IF l < m THEN l ELSE l + Len(y)) /\ t[a] = s[l] /\ s[l] \in ToSet(s)
      BY <1>3
    <2>2. PICK q \in 1..Len(s) : b = (IF q < m THEN q ELSE q + Len(y)) /\ t[b] = s[q]
      BY <1>1, <2>1
    <2> QED
      BY <2>1, <2>2 DEF Distinct
  <1> QED
    BY <1>1, <1>2, <1>3

\* The row r comes first.
LEMMA TouchIs ==
  ASSUME NEW S, NEW s \in Seq(S), Distinct(s), NEW r \in ToSet(s)
  PROVE  LET t == <<r>> \o Without(s, {r})
         IN  t \in Seq(S) /\ Distinct(t) /\ Moves(s, t, {}, 1, 1)
  <1> DEFINE w == Without(s, {r})
             t == <<r>> \o w
  <1>1. /\ w \in Seq(S) /\ Distinct(w) /\ Len(w) <= Len(s)
        /\ \A k \in 1..Len(w) : \E l \in 1..Len(s) :
             w[k] = s[l] /\ s[l] \notin {r} /\ k <= l /\ l <= k + 1
    <2>1. IsFiniteSet({r}) /\ Cardinality({r}) = 1
      BY FS_Singleton
    <2> QED
      BY <2>1, WithoutIs
  <1>2. PICK o \in 1..Len(s) : s[o] = r
    BY DEF ToSet
  <1>3. /\ t \in Seq(S) /\ Len(t) = 1 + Len(w) /\ t[1] = r
        /\ \A k \in 1..Len(w) : t[1 + k] = w[k]
    <2> HIDE DEF w
    <2> DEFINE u == <<r>>
    <2>1. u \in Seq(S) /\ Len(u) = 1 /\ u[1] = r
      BY <1>2
    <2> HIDE DEF u
    <2>2. u \o w \in Seq(S) /\ IsConcat(u \o w, u, w)
      BY <1>1, <2>1, ConcatIs
    <2>3. t = u \o w
      BY DEF u
    <2> HIDE DEF t
    <2>4. t \in Seq(S) /\ IsConcat(t, u, w)
      BY <2>2, <2>3
    <2>5. 1 \in 1..Len(u)
      BY <2>1
    <2> QED
      BY <2>1, <2>4, <2>5 DEF IsConcat
  <1> HIDE DEF w, t
  <1>4. Len(s) \in Nat /\ Len(w) \in Nat /\ Len(t) \in Nat
    BY <1>1, <1>3
  <1>5. \A k \in 1..Len(t) : k = 1 \/ (k - 1 \in 1..Len(w) /\ t[k] = w[k - 1])
    <2>1. \A k \in 1..Len(t) : k = 1 \/ (k - 1 \in 1..Len(w) /\ 1 + (k - 1) = k)
      BY <1>3, <1>4
    <2> QED
      BY <1>3, <2>1
  <1>6. Distinct(t)
    <2>1. \A k \in 1..Len(w) : w[k] # r
      BY <1>1
    <2> SUFFICES ASSUME NEW a \in 1..Len(t), NEW b \in 1..Len(t), t[a] = t[b] PROVE a = b
      BY DEF Distinct
    <2>2. CASE a = 1 \/ b = 1
      BY <1>3, <1>5, <2>1, <2>2
    <2>3. CASE a # 1 /\ b # 1
      <3>1. a - 1 \in 1..Len(w) /\ b - 1 \in 1..Len(w) /\ w[a - 1] = w[b - 1]
        BY <1>5, <2>3
      <3>2. a - 1 = b - 1
        BY <1>1, <3>1 DEF Distinct
      <3> QED
        BY <1>4, <3>2
    <2> QED
      BY <2>2, <2>3
  <1>7. Near(s, t, {r}, 0, 1)
    <2> SUFFICES ASSUME NEW k \in 1..Len(t), k # 1
                 PROVE  \E l \in 1..Len(s) : t[k] = s[l] /\ l <= k + 0 /\ k <= l + 1
      BY <1>3 DEF Near
    <2>1. k - 1 \in 1..Len(w) /\ t[k] = w[k - 1]
      BY <1>5
    <2>2. PICK l \in 1..Len(s) : w[k - 1] = s[l] /\ k - 1 <= l /\ l <= (k - 1) + 1
      BY <1>1, <2>1
    <2>3. l <= k + 0 /\ k <= l + 1
      BY <1>4, <2>2
    <2> QED
      BY <2>1, <2>2, <2>3
  <1>8. Moves(s, t, {r}, 0, 1)
    <2>1. Len(t) <= Len(s) + 1
      BY <1>1, <1>3, <1>4
    <2> QED
      BY <1>3, <1>7, <2>1, NearMoves
  <1>9. ToSet(t) \subseteq ToSet(s)
    BY <1>8 DEF Moves
  <1>10. ASSUME NEW p \in Nat
         PROVE  \E X : AtMost(X, 1) /\ Ahead(t, p) \subseteq Ahead(s, p) \cup X
    <2>1. PICK X : AtMost(X, 0) /\ Ahead(t, p) \subseteq Ahead(s, p) \cup X \cup {r}
      BY <1>8 DEF Moves
    <2>2. AtMost({r}, 1)
      <3>1. IsFiniteSet({r}) /\ Cardinality({r}) = 1
        BY FS_Singleton
      <3> QED
        BY <3>1 DEF AtMost
    <2> DEFINE Y == X \cup {r}
    <2>3. AtMost(Y, 0 + 1)
      <3>1. Y \subseteq X \cup {r} /\ 0 \in Nat /\ 1 \in Nat /\ AtMost(X, 0)
        BY <2>1
      <3> HIDE DEF Y
      <3> QED
        BY <2>2, <3>1, AtMostMore
    <2> QED
      BY <2>1, <2>3
  <1>11. ASSUME NEW p \in Nat
         PROVE  \E X : AtMost(X, 1) /\ Behind(t, p) \subseteq Behind(s, p) \cup X
    <2>1. PICK X : AtMost(X, 1) /\ Behind(t, p) \subseteq Behind(s, p) \cup X \cup {r}
      BY <1>8 DEF Moves
    <2>2. ASSUME r \in Behind(t, p) PROVE r \in Behind(s, p)
      <3>1. PICK k \in 1..Len(t) : k > p /\ t[k] = r
        BY <2>2 DEF Behind
      <3>2. k = 1
        <4>1. 1 \in 1..Len(t) /\ t[1] = t[k]
          BY <1>3, <1>4, <3>1
        <4> HIDE DEF t
        <4> QED
          BY <1>6, <4>1 DEF Distinct
      <3>3. o > p
        BY <3>1, <3>2
      <3> QED
        BY <1>2, <3>3 DEF Behind
    <2> QED
      BY <2>1, <2>2
  <1>12. Moves(s, t, {}, 1, 1)
    BY <1>8, <1>9, <1>10, <1>11 DEF Moves
  <1> QED
    BY <1>3, <1>6, <1>12 DEF t, w
-----------------------------------------------------------------------------
\* Rows that are different are as many as their places.
LEMMA DistinctCount ==
  ASSUME NEW S, NEW s \in Seq(S)
  PROVE  /\ AtMost(ToSet(s), Len(s))
         /\ Distinct(s) => Cardinality(ToSet(s)) = Len(s)
  <1> DEFINE f == [k \in 1..Len(s) |-> s[k]]
             Y == {s[k] : k \in 1..Len(s)}
  <1>1. IsFiniteSet(1..Len(s)) /\ Cardinality(1..Len(s)) = Len(s)
    <2>1. Len(s) \in Nat
      OBVIOUS
    <2> QED
      BY <2>1, CardinalityUpTo
  <1>2. f \in Surjection(1..Len(s), Y) /\ ToSet(s) = Y
    BY DEF Surjection, ToSet
  <1>3. Distinct(s) => f \in Injection(1..Len(s), Y)
    BY DEF Injection, IsInjective, Distinct
  <1> HIDE DEF f, Y
  <1>4. /\ IsFiniteSet(Y) /\ Cardinality(Y) <= Cardinality(1..Len(s))
        /\ Cardinality(Y) = Cardinality(1..Len(s)) <=> f \in Injection(1..Len(s), Y)
    BY <1>1, <1>2, FS_Surjection
  <1> QED
    BY <1>1, <1>2, <1>3, <1>4 DEF AtMost

LEMMA ConcatSet ==
  ASSUME NEW S, NEW u \in Seq(S), NEW v \in Seq(S)
  PROVE  u \o v \in Seq(S) /\ Len(u \o v) = Len(u) + Len(v) /\ ToSet(u \o v) = ToSet(u) \cup ToSet(v)
  <1> DEFINE t == u \o v
  <1>1. t \in Seq(S) /\ IsConcat(t, u, v)
    BY ConcatIs
  <1> HIDE DEF t
  <1>2. Len(u) \in Nat /\ Len(v) \in Nat
    OBVIOUS
  <1>3. /\ Len(t) = Len(u) + Len(v)
        /\ \A k \in 1..Len(u) : t[k] = u[k]
        /\ \A k \in 1..Len(v) : t[Len(u) + k] = v[k]
    BY <1>1 DEF IsConcat
  <1>4. \A k \in 1..Len(t) : k \in 1..Len(u) \/ (k - Len(u) \in 1..Len(v) /\ t[k] = v[k - Len(u)])
    <2>1. \A k \in 1..Len(t) : k \in 1..Len(u) \/ (k - Len(u) \in 1..Len(v) /\ Len(u) + (k - Len(u)) = k)
      BY <1>2, <1>3
    <2> QED
      BY <1>3, <2>1
  <1>5. \A k \in 1..Len(u) : k \in 1..Len(t)
    BY <1>2, <1>3
  <1>6. \A k \in 1..Len(v) : Len(u) + k \in 1..Len(t)
    BY <1>2, <1>3
  <1>7. /\ ToSet(t) = {t[k] : k \in 1..Len(t)} /\ ToSet(u) = {u[k] : k \in 1..Len(u)}
        /\ ToSet(v) = {v[k] : k \in 1..Len(v)}
    BY <1>1 DEF ToSet
  <1>8. ToSet(t) \subseteq ToSet(u) \cup ToSet(v)
    BY <1>3, <1>4, <1>7
  <1>9. ToSet(u) \subseteq ToSet(t) /\ ToSet(v) \subseteq ToSet(t)
    BY <1>3, <1>5, <1>6, <1>7
  <1> QED
    BY <1>1, <1>3, <1>8, <1>9 DEF t

\* The page of n rows after the first p.
LEMMA PageIs ==
  ASSUME NEW S, NEW s \in Seq(S), Distinct(s), NEW p \in Nat, NEW n \in Nat
  PROVE  LET t == SubSeq(s, p + 1, IF p + n <= Len(s) THEN p + n ELSE Len(s))
         IN  /\ t \in Seq(S) /\ Cardinality(ToSet(t)) = Len(t) /\ ToSet(t) \subseteq ToSet(s)
             /\ ToSet(t) \subseteq Behind(s, p) /\ ToSet(t) \cap Behind(s, p + n) = {}
             /\ Ahead(s, p + n) \subseteq Ahead(s, p) \cup ToSet(t)
  <1> DEFINE e == IF p + n <= Len(s) THEN p + n ELSE Len(s)
             t == SubSeq(s, p + 1, e)
  <1>0. Len(s) \in Nat /\ e \in Nat /\ e <= Len(s) /\ e <= p + n /\ (p + n > Len(s) => e = Len(s)) /\ (p + n <= Len(s) => e = p + n)
    OBVIOUS
  <1> HIDE DEF e
  <1>1. t \in Seq(S) /\ Len(t) \in Nat
    BY <1>0
  <1>2. p + Len(t) <= Len(s) \/ Len(t) = 0
    BY <1>0
  <1>3. \A k \in 1..Len(t) : t[k] = s[p + k] /\ p + k <= e
    BY <1>0
  <1>4. \A k \in 1..Len(s) : k > p /\ k <= e => k - p \in 1..Len(t) /\ p + (k - p) = k
    BY <1>0
  <1> HIDE DEF t
  <1>5. \A k \in 1..Len(t) : p + k \in 1..Len(s) /\ p + k > p /\ ~(p + k > p + n)
    BY <1>0, <1>1, <1>3
  <1>6. Distinct(t)
    <2> SUFFICES ASSUME NEW k \in 1..Len(t), NEW l \in 1..Len(t), t[k] = t[l] PROVE k = l
      BY DEF Distinct
    <2>1. p + k = p + l
      BY <1>3, <1>5 DEF Distinct
    <2> QED
      BY <1>1, <2>1
  <1>7. ToSet(t) = {t[k] : k \in 1..Len(t)} /\ ToSet(s) = {s[k] : k \in 1..Len(s)}
    BY <1>1 DEF ToSet
  <1>8. ToSet(t) \subseteq ToSet(s)
    BY <1>3, <1>5, <1>7
  <1>9. ToSet(t) \subseteq Behind(s, p)
    BY <1>3, <1>5, <1>7 DEF Behind
  <1>10. ToSet(t) \cap Behind(s, p + n) = {}
    <2> SUFFICES ASSUME NEW k \in 1..Len(t), NEW l \in 1..Len(s), l > p + n, s[l] = t[k] PROVE FALSE
      BY <1>7 DEF Behind
    <2>1. l = p + k
      BY <1>3, <1>5 DEF Distinct
    <2> QED
      BY <1>5, <2>1
  <1>11. Ahead(s, p + n) \subseteq Ahead(s, p) \cup ToSet(t)
    <2> SUFFICES ASSUME NEW x \in ToSet(s), NEW k \in 1..Len(s), k <= p + n, s[k] = x, ~(k <= p)
                 PROVE  x \in ToSet(t)
      BY DEF Ahead
    <2>1. k > p /\ k <= e
      BY <1>0
    <2>2. k - p \in 1..Len(t) /\ t[k - p] = s[k]
      BY <1>3, <1>4, <2>1
    <2> QED
      BY <1>7, <2>2
  <1>12. Cardinality(ToSet(t)) = Len(t)
    BY <1>1, <1>6, DistinctCount
  <1> QED
    BY <1>1, <1>8, <1>9, <1>10, <1>11, <1>12 DEF t, e

LEMMA BehindAfter ==
  ASSUME NEW S, NEW s \in Seq(S), NEW p \in Nat, NEW n \in Nat
  PROVE  Behind(s, p + n) \subseteq Behind(s, p)
  BY DEF Behind

LEMMA BehindCount ==
  ASSUME NEW S, NEW s \in Seq(S), NEW p \in Nat, NEW n \in Nat, Len(s) <= p + n
  PROVE  AtMost(Behind(s, p), n)
  <1>1. Len(s) \in Nat /\ p + 1 \in Int /\ (p + 1) + n - 1 = p + n
    OBVIOUS
  <1>2. \A x \in Behind(s, p) : \E k \in (p + 1)..((p + 1) + n - 1) : s[k] = x
    BY <1>1 DEF Behind
  <1> QED
    BY <1>1, <1>2, AtMostPlaces

LEMMA AheadAll ==
  ASSUME NEW S, NEW s \in Seq(S), NEW p \in Nat
  PROVE  /\ Len(s) <= p => ToSet(s) \subseteq Ahead(s, p)
         /\ ToSet(s) \subseteq Ahead(s, p) \cup Behind(s, p)
         /\ Ahead(s, p) \subseteq ToSet(s) /\ Behind(s, p) \subseteq ToSet(s)
         /\ Ahead(s, 0) = {}
  BY DEF Ahead, Behind, ToSet

\* What a page repeats was in front of it before.
LEMMA PageRepeats ==
  ASSUME NEW R, IsFiniteSet(R), NEW G, IsFiniteSet(G), NEW B, NEW C,
         G \subseteq B, C \subseteq B, G \cap C = {}
  PROVE  /\ Cardinality(R) + Cardinality(G) + Cardinality((R \cup G) \cap C)
              <= Cardinality(R \cup G) + Cardinality(R \cap B)
  <1> DEFINE RG == R \cap G
             RC == R \cap C
             RB == R \cap B
  <1>1. IsFiniteSet(RG) /\ IsFiniteSet(RC) /\ IsFiniteSet(RB) /\ IsFiniteSet(R \cup G)
    BY FS_Subset, FS_Union
  <1>2. Cardinality(R \cup G) = Cardinality(R) + Cardinality(G) - Cardinality(RG)
    BY FS_Union
  <1>3. RG \cap RC = {} /\ RG \cup RC \subseteq RB /\ (R \cup G) \cap C = RC
    OBVIOUS
  <1> HIDE DEF RG, RC, RB
  <1>4. Cardinality(RG \cup RC) = Cardinality(RG) + Cardinality(RC) - Cardinality({})
    BY <1>1, <1>3, FS_Union
  <1>5. Cardinality({}) = 0
    BY FS_EmptySet
  <1>6. Cardinality(RG \cup RC) <= Cardinality(RB)
    BY <1>1, <1>3, FS_Subset
  <1>7. /\ Cardinality(RG) \in Nat /\ Cardinality(RC) \in Nat /\ Cardinality(RB) \in Nat
        /\ Cardinality(R) \in Nat /\ Cardinality(G) \in Nat
    BY <1>1, FS_CardinalityType
  <1>8. Cardinality(R) + Cardinality(G) + Cardinality(RC) <= Cardinality(R \cup G) + Cardinality(RB)
    BY <1>2, <1>4, <1>5, <1>6, <1>7
  <1>9. Cardinality((R \cup G) \cap C) = Cardinality(RC)
    BY <1>3
  <1> QED
    BY <1>8, <1>9 DEF RB
-----------------------------------------------------------------------------
\* What the reader wants, the rows it has been sent, and how many places of the list
\* its queries have passed.
Want(r) == IF r.wanted = None THEN {} ELSE r.wanted
Sent(r) == IF r.rows = None THEN r.got ELSE r.got \o r.rows
Through(r) == IF r.rows = None THEN (r.page - 1) * Limit ELSE r.page * Limit

Unread(s, r) == (Want(r) \cap ToSet(s)) \ ToSet(Sent(r))

\* Rows before the place it is at are missed by what went there, and rows after it are
\* repeated by what came there.
PassedCounts(s, r) ==
    /\ AtMost(Unread(s, r) \cap Ahead(s, Through(r)), r.gone)
    /\ Len(Sent(r)) + Cardinality(ToSet(Sent(r)) \cap Behind(s, Through(r)))
         <= r.come + Cardinality(ToSet(Sent(r)))

\* Of a page whose total is there first, late rows came since; of one that is there and
\* says it is the last, what is unread is accounted for.
LastCounts(s, r) ==
    /\ r.op = "wait" /\ r.total # None /\ r.rows = None => Len(s) <= r.total + r.late
    /\ r.op = "wait" /\ r.total # None /\ r.rows # None /\ ~HasNextPage(r.total, r.page) =>
         AtMost(Unread(s, r), r.gone + r.late)
    /\ r.op = "ended" => r.rows = None /\ AtMost(Unread(s, r), r.gone + r.late)

OffsetRows(s, n, r) ==
    /\ n \in 0..MaxRows
    /\ s \in Seq(Nat) /\ Distinct(s) /\ ToSet(s) \subseteq 1..n
    /\ r \in Reader
    /\ Want(r) \subseteq 1..n /\ ToSet(Sent(r)) \subseteq 1..n
    /\ r.wanted = None => r.op = "wait" /\ r.page = 1 /\ r.rows = None /\ r.got = <<>>

\* The inductive invariant behind OffsetBounded.
OffsetInv ==
    list # "messages" =>
      OffsetRows(order, born, reader) /\ PassedCounts(order, reader) /\ LastCounts(order, reader)

LEMMA SentIs ==
  ASSUME NEW s, NEW n, NEW r, OffsetRows(s, n, r)
  PROVE  /\ Sent(r) \in Seq(Nat) /\ Len(Sent(r)) \in Nat
         /\ IsFiniteSet(ToSet(Sent(r))) /\ Cardinality(ToSet(Sent(r))) \in Nat
         /\ Through(r) \in Nat /\ n \in Nat
  <1>1. r \in Reader /\ ToSet(Sent(r)) \subseteq 1..n /\ n \in Nat /\ Limit \in Nat
    BY BoundsAssumption DEF OffsetRows
  <1>2. r.got \in Seq(Nat) /\ (r.rows # None => r.rows \in Seq(Nat)) /\ r.page \in Nat /\ r.page >= 1
    <2>1. r.got \in Seq(Rows) /\ (r.rows # None => r.rows \in Seq(Rows)) /\ r.page \in Nat \ {0}
      BY <1>1 DEF Reader
    <2>2. \A q \in Seq(Rows) : q \in Seq(Nat)
      BY BoundsAssumption DEF Rows
    <2> QED
      BY <2>1, <2>2
  <1>3. Sent(r) \in Seq(Nat)
    BY <1>2, ConcatSet DEF Sent
  <1>4. IsFiniteSet(ToSet(Sent(r)))
    <2>1. IsFiniteSet(1..n)
      BY <1>1, CardinalityUpTo
    <2> QED
      BY <1>1, <2>1, FS_Subset
  <1>5. Through(r) \in Nat
    <2>1. r.page - 1 \in Nat
      BY <1>2
    <2>2. \A a, b \in Nat : a * b \in Nat
      OBVIOUS
    <2> QED
      BY <1>1, <1>2, <2>1, <2>2 DEF Through
  <1> QED
    BY <1>1, <1>3, <1>4, <1>5, FS_CardinalityType

LEMMA OffsetInit == PagesInit => OffsetInv
  <1> SUFFICES ASSUME PagesInit PROVE OffsetInv
    OBVIOUS
  <1>1. born \in 0..MaxRows /\ born \in Nat
    BY BoundsAssumption DEF PagesInit
  <1>2. order = [i \in 1..born |-> born + 1 - i]
    BY DEF PagesInit
  <1>3. order \in Seq(Nat) /\ Len(order) = born
    BY <1>1, <1>2
  <1>4. Distinct(order) /\ \A i \in 1..Len(order) : order[i] \in 1..born
    BY <1>1, <1>2, <1>3 DEF Distinct
  <1>5. ToSet(order) \subseteq 1..born
    BY <1>3, <1>4 DEF ToSet
  <1>6. /\ reader \in Reader /\ reader.wanted = None /\ reader.got = <<>> /\ reader.op = "wait"
        /\ reader.rows = None /\ reader.total = None /\ reader.page = 1 /\ reader.gone = 0 /\ reader.come = 0
    <2>1. reader = [op |-> "wait", page |-> 1, rows |-> None, total |-> None, got |-> <<>>,
                    wanted |-> None, gone |-> 0, come |-> 0, late |-> 0]
      BY DEF PagesInit
    <2>2. /\ "wait" \in {"wait", "ended"} /\ <<>> \in Seq(Rows) /\ 1 \in Nat \ {0} /\ 0 \in Nat
          /\ None \in Seq(Rows) \cup {None} /\ None \in Nat \cup {None} /\ None \in (SUBSET Rows) \cup {None}
      OBVIOUS
    <2>3. reader \in Reader
      BY <2>1, <2>2 DEF Reader
    <2> QED
      BY <2>1, <2>3
  <1>7. Want(reader) = {} /\ Sent(reader) = <<>> /\ ToSet(Sent(reader)) = {} /\ Len(Sent(reader)) = 0
    BY <1>6 DEF Want, Sent, ToSet
  <1>8. OffsetRows(order, born, reader)
    BY <1>1, <1>3, <1>4, <1>5, <1>6, <1>7 DEF OffsetRows
  <1>9. IsFiniteSet({}) /\ Cardinality({}) = 0
    BY FS_EmptySet
  <1>10. AtMost(Unread(order, reader) \cap Ahead(order, Through(reader)), reader.gone)
    <2>1. Unread(order, reader) \cap Ahead(order, Through(reader)) = {}
      BY <1>7 DEF Unread
    <2> QED
      BY <1>6, <2>1, AtMostNone
  <1>11. ToSet(Sent(reader)) \cap Behind(order, Through(reader)) = {}
    BY <1>7
  <1>12. PassedCounts(order, reader)
    <2>1. Len(Sent(reader)) + Cardinality(ToSet(Sent(reader)) \cap Behind(order, Through(reader)))
            <= reader.come + Cardinality(ToSet(Sent(reader)))
      <3>1. Cardinality(ToSet(Sent(reader)) \cap Behind(order, Through(reader))) = 0
        BY <1>9, <1>11
      <3>2. Cardinality(ToSet(Sent(reader))) = 0
        BY <1>7, <1>9
      <3> QED
        BY <1>6, <1>7, <3>1, <3>2
    <2> QED
      BY <1>10, <2>1 DEF PassedCounts
  <1>13. LastCounts(order, reader)
    BY <1>6 DEF LastCounts
  <1> QED
    BY <1>8, <1>12, <1>13 DEF OffsetInv

\* The list changes: what the reader has stays, and what it counts goes up.
Counted(r, g, c) ==
    [r EXCEPT !.gone = IF r.wanted # None THEN @ + g ELSE @,
              !.come = IF r.wanted # None THEN @ + c ELSE @,
              !.late = IF r.total # None /\ r.rows = None THEN @ + c ELSE @]

IsCounted(q, r, g, c) ==
    /\ q \in Reader /\ Want(q) = Want(r) /\ Sent(q) = Sent(r) /\ Through(q) = Through(r)
    /\ q.op = r.op /\ q.page = r.page /\ q.rows = r.rows /\ q.total = r.total
    /\ q.wanted = r.wanted /\ q.got = r.got
    /\ q.gone \in Nat /\ q.come \in Nat /\ q.late \in Nat
    /\ q.gone = (IF r.wanted # None THEN r.gone + g ELSE r.gone)
    /\ q.come = (IF r.wanted # None THEN r.come + c ELSE r.come)
    /\ q.late = (IF r.total # None /\ r.rows = None THEN r.late + c ELSE r.late)

LEMMA CountedIs ==
  ASSUME NEW r \in Reader, NEW g \in Nat, NEW c \in Nat
  PROVE  IsCounted(Counted(r, g, c), r, g, c)
  <1> DEFINE q == Counted(r, g, c)
  <1>1. r.gone \in Nat /\ r.come \in Nat /\ r.late \in Nat
    BY DEF Reader
  <1>2. /\ r.gone + g \in Nat /\ r.come + c \in Nat /\ r.late + c \in Nat
    BY <1>1
  <1>3. /\ q.op = r.op /\ q.page = r.page /\ q.rows = r.rows /\ q.total = r.total
        /\ q.wanted = r.wanted /\ q.got = r.got
        /\ q.gone = (IF r.wanted # None THEN r.gone + g ELSE r.gone)
        /\ q.come = (IF r.wanted # None THEN r.come + c ELSE r.come)
        /\ q.late = (IF r.total # None /\ r.rows = None THEN r.late + c ELSE r.late)
    BY DEF Counted, Reader
  <1>4. q \in Reader
    BY <1>1, <1>2 DEF Counted, Reader
  <1> HIDE DEF q
  <1>5. Want(q) = Want(r) /\ Sent(q) = Sent(r) /\ Through(q) = Through(r)
    BY <1>3 DEF Want, Sent, Through
  <1> QED
    BY <1>1, <1>2, <1>3, <1>4, <1>5 DEF q, IsCounted

LEMMA ChangeCounts ==
  ASSUME NEW s, NEW n, NEW r, OffsetRows(s, n, r), PassedCounts(s, r), LastCounts(s, r), r.op = "wait",
         NEW t, NEW new, NEW g \in Nat, NEW c \in Nat, Moves(s, t, new, g, c),
         t \in Seq(Nat), new \cap (1..n) = {}
  PROVE  PassedCounts(t, Counted(r, g, c)) /\ LastCounts(t, Counted(r, g, c))
  <1> DEFINE q == Counted(r, g, c)
             P == Through(r)
             R == ToSet(Sent(r))
             W == Want(r)
  <1>1. /\ r \in Reader /\ W \subseteq 1..n /\ R \subseteq 1..n /\ s \in Seq(Nat)
        /\ r.wanted = None => W = {} /\ Sent(r) = <<>> /\ R = {}
    <2>1. r \in Reader /\ W \subseteq 1..n /\ R \subseteq 1..n /\ s \in Seq(Nat)
      BY DEF OffsetRows
    <2>2. r.wanted = None => W = {} /\ Sent(r) = <<>>
      BY DEF OffsetRows, Want, Sent
    <2>3. ToSet(<<>>) = {}
      BY DEF ToSet
    <2> QED
      BY <2>1, <2>2, <2>3
  <1>2. Len(Sent(r)) \in Nat /\ IsFiniteSet(R) /\ Cardinality(R) \in Nat /\ P \in Nat
    BY SentIs
  <1>3. /\ Want(q) = W /\ Sent(q) = Sent(r) /\ Through(q) = P
        /\ q.op = r.op /\ q.page = r.page /\ q.rows = r.rows /\ q.total = r.total
        /\ q.gone \in Nat /\ q.come \in Nat /\ q.late \in Nat
        /\ q.gone = (IF r.wanted # None THEN r.gone + g ELSE r.gone)
        /\ q.come = (IF r.wanted # None THEN r.come + c ELSE r.come)
        /\ q.late = (IF r.total # None /\ r.rows = None THEN r.late + c ELSE r.late)
    <2>1. IsCounted(q, r, g, c)
      BY <1>1, CountedIs
    <2> HIDE DEF q
    <2> QED
      BY <2>1 DEF IsCounted
  <1>4. r.gone \in Nat /\ r.come \in Nat /\ r.late \in Nat /\ (r.total # None => r.total \in Nat)
    BY <1>1 DEF Reader
  <1>5. Unread(s, r) = (W \cap ToSet(s)) \ R /\ Unread(t, q) = (W \cap ToSet(t)) \ R
    BY <1>3 DEF Unread
  <1>6. IsFiniteSet({}) /\ Cardinality({}) = 0
    BY FS_EmptySet
  <1> HIDE DEF q, P, R, W
  <1>7. Unread(t, q) \subseteq Unread(s, r)
    BY <1>1, <1>5 DEF Moves
  <1>8. AtMost(Unread(t, q) \cap Ahead(t, P), q.gone)
    <2>1. CASE r.wanted = None
      <3>1. Unread(t, q) \cap Ahead(t, P) = {}
        BY <1>1, <1>5, <2>1
      <3> QED
        BY <1>3, <3>1, AtMostNone
    <2>2. CASE r.wanted # None
      <3> DEFINE A == Unread(s, r) \cap Ahead(s, P)
                 B == Unread(t, q) \cap Ahead(t, P)
                 a == r.gone
      <3>1. PICK X : AtMost(X, g) /\ Ahead(t, P) \subseteq Ahead(s, P) \cup X \cup new
        BY <1>2 DEF Moves
      <3>2. B \subseteq A \cup X
        BY <1>1, <1>5, <1>7, <3>1
      <3>3. AtMost(A, a) /\ a \in Nat
        BY <1>4 DEF PassedCounts, P
      <3> HIDE DEF A, B, a
      <3>4. AtMost(B, a + g)
        BY <3>1, <3>2, <3>3, AtMostMore
      <3>5. q.gone = a + g
        BY <1>3, <2>2 DEF a
      <3> QED
        BY <3>4, <3>5 DEF B
    <2> QED
      BY <2>1, <2>2
  <1>9. Len(Sent(r)) + Cardinality(R \cap Behind(t, P)) <= q.come + Cardinality(R)
    <2>1. CASE r.wanted = None
      <3>1. R \cap Behind(t, P) = {} /\ R = {} /\ Len(Sent(r)) = 0
        BY <1>1, <2>1
      <3> QED
        BY <1>3, <1>6, <3>1
    <2>2. CASE r.wanted # None
      <3> DEFINE A == R \cap Behind(s, P)
                 B == R \cap Behind(t, P)
                 a == Cardinality(A)
      <3>1. PICK X : AtMost(X, c) /\ Behind(t, P) \subseteq Behind(s, P) \cup X \cup new
        BY <1>2 DEF Moves
      <3>2. B \subseteq A \cup X
        BY <1>1, <3>1
      <3>3. IsFiniteSet(A) /\ a \in Nat /\ IsFiniteSet(B) /\ Cardinality(B) \in Nat
        <4>1. A \subseteq R /\ B \subseteq R
          OBVIOUS
        <4> HIDE DEF A, B
        <4> QED
          BY <1>2, <4>1, FS_Subset, FS_CardinalityType
      <3>4. Len(Sent(r)) + a <= r.come + Cardinality(R)
        BY DEF PassedCounts, P, R
      <3>5. AtMost(A, a)
        BY <3>3 DEF AtMost
      <3> HIDE DEF A, B, a
      <3>6. Cardinality(B) <= a + c
        <4>1. AtMost(B, a + c)
          BY <3>1, <3>2, <3>3, <3>5, AtMostMore
        <4> QED
          BY <4>1 DEF AtMost
      <3>7. q.come = r.come + c
        BY <1>3, <2>2
      <3>8. Len(Sent(r)) + Cardinality(B) <= q.come + Cardinality(R)
        BY <1>2, <1>4, <3>3, <3>4, <3>6, <3>7
      <3> QED
        BY <3>8 DEF B
    <2> QED
      BY <2>1, <2>2
  <1>10. PassedCounts(t, q)
    BY <1>3, <1>8, <1>9 DEF PassedCounts, R
  <1>11. r.total # None /\ r.rows = None => Len(t) <= r.total + q.late
    <2>1. Len(t) <= Len(s) + c /\ Len(s) \in Nat /\ Len(t) \in Nat
      BY <1>1 DEF Moves
    <2>2. r.total # None /\ r.rows = None => Len(s) <= r.total + r.late /\ q.late = r.late + c
      BY <1>3 DEF LastCounts
    <2> QED
      BY <1>4, <2>1, <2>2
  <1>12. r.total # None /\ r.rows # None /\ ~HasNextPage(r.total, r.page) =>
           AtMost(Unread(t, q), q.gone + q.late)
    <2> SUFFICES ASSUME r.total # None, r.rows # None, ~HasNextPage(r.total, r.page)
                 PROVE  AtMost(Unread(t, q), q.gone + q.late)
      OBVIOUS
    <2>1. AtMost(Unread(s, r), r.gone + r.late)
      BY DEF LastCounts
    <2>2. r.gone + r.late \in Nat /\ q.gone + q.late \in Nat /\ r.gone + r.late <= q.gone + q.late
      <3>1. r.gone <= q.gone /\ q.gone \in Nat
        BY <1>3, <1>4
      <3>2. r.late <= q.late /\ q.late \in Nat
        BY <1>3, <1>4
      <3>3. \A k, l, m, h \in Nat : k <= m /\ l <= h => k + l \in Nat /\ m + h \in Nat /\ k + l <= m + h
        OBVIOUS
      <3> QED
        BY <1>4, <3>1, <3>2, <3>3, Zenon
    <2>3. AtMost(Unread(t, q), r.gone + r.late)
      BY <1>7, <2>1, <2>2, AtMostLess
    <2>4. Cardinality(Unread(t, q)) \in Nat
      BY <2>3, FS_CardinalityType DEF AtMost
    <2> QED
      BY <2>2, <2>3, <2>4 DEF AtMost
  <1>13. LastCounts(t, q)
    BY <1>3, <1>11, <1>12 DEF LastCounts
  <1> QED
    BY <1>10, <1>13 DEF q

LEMMA OffsetChange ==
  ASSUME OffsetInv, list # "messages", list' = list, NEW new, NEW g \in Nat, NEW c \in Nat,
         Unnoticed(g, c), Moves(order, order', new, g, c), order' \in Seq(Nat), Distinct(order'),
         new \cap (1..born) = {}, born' \in 0..MaxRows, born' >= born, ToSet(order') \subseteq 1..born'
  PROVE  OffsetInv'
  <1>1. OffsetRows(order, born, reader) /\ PassedCounts(order, reader) /\ LastCounts(order, reader)
    BY DEF OffsetInv
  <1>2. reader.op = "wait" /\ reader' = Counted(reader, g, c) /\ (reader.wanted # None \/ reader.total # None)
    BY DEF Unnoticed, Counted
  <1>3. PassedCounts(order', reader') /\ LastCounts(order', reader')
    <2> DEFINE t == order'
    <2>1. t \in Seq(Nat) /\ Moves(order, t, new, g, c)
      OBVIOUS
    <2> HIDE DEF t
    <2>2. PassedCounts(t, Counted(reader, g, c)) /\ LastCounts(t, Counted(reader, g, c))
      BY <1>1, <1>2, <2>1, ChangeCounts
    <2> QED
      BY <1>2, <2>2 DEF t
  <1>4. reader \in Reader /\ Want(reader) \subseteq 1..born /\ ToSet(Sent(reader)) \subseteq 1..born /\ born \in Nat
    BY <1>1, SentIs DEF OffsetRows
  <1>5. IsCounted(reader', reader, g, c)
    BY <1>2, <1>4, CountedIs
  <1>6. 1..born \subseteq 1..born' /\ born' \in Nat
    BY <1>4, BoundsAssumption
  <1>7. OffsetRows(order', born', reader')
    <2>1. /\ reader' \in Reader /\ Want(reader') = Want(reader) /\ Sent(reader') = Sent(reader)
          /\ reader'.wanted = reader.wanted /\ reader'.op = reader.op /\ reader'.page = reader.page
          /\ reader'.rows = reader.rows /\ reader'.got = reader.got
      BY <1>5 DEF IsCounted
    <2>2. reader.wanted = None => reader.op = "wait" /\ reader.page = 1 /\ reader.rows = None /\ reader.got = <<>>
      BY <1>1 DEF OffsetRows
    <2>3. Want(reader') \subseteq 1..born' /\ ToSet(Sent(reader')) \subseteq 1..born'
      BY <1>4, <1>6, <2>1
    <2> QED
      BY <2>1, <2>2, <2>3 DEF OffsetRows
  <1> QED
    BY <1>3, <1>7 DEF OffsetInv

LEMMA OffsetInsert ==
  ASSUME OffsetInv, list # "messages", NEW i \in Place, NEW n \in 1..2, Insert(i, n)
  PROVE  OffsetInv'
  <1> DEFINE y == [j \in 1..n |-> born + j]
  <1>1. order \in Seq(Nat) /\ Distinct(order) /\ ToSet(order) \subseteq 1..born /\ born \in 0..MaxRows
    BY DEF OffsetInv, OffsetRows
  <1>2. born \in Nat /\ n \in Nat /\ MaxRows \in Nat /\ Len(order) \in Nat /\ born + n <= MaxRows
    BY <1>1, BoundsAssumption DEF Insert
  <1>3. i \in 1..(Len(order) + 1)
    BY DEF Place
  <1>4. y \in Seq(Nat) /\ Len(y) = n /\ \A k \in 1..n : y[k] = born + k
    BY <1>2
  <1>5. order' = SubSeq(order, 1, i - 1) \o y \o SubSeq(order, i, Len(order))
    BY DEF Insert
  <1> HIDE DEF y
  <1>6. order' \in Seq(Nat) /\ IsInserted(order', order, i, y)
    <2>1. LET t == SubSeq(order, 1, i - 1) \o y \o SubSeq(order, i, Len(order))
          IN  t \in Seq(Nat) /\ IsInserted(t, order, i, y)
      BY <1>1, <1>3, <1>4, InsertInto
    <2> QED
      BY <1>5, <2>1
  <1>7. ToSet(y) \subseteq (born + 1)..(born + n) /\ Distinct(y)
    <2>1. \A k \in 1..n : y[k] \in (born + 1)..(born + n)
      BY <1>2, <1>4
    <2>2. ToSet(y) = {y[k] : k \in 1..n}
      BY <1>4 DEF ToSet
    <2>3. Distinct(y)
      BY <1>2, <1>4 DEF Distinct
    <2> QED
      BY <2>1, <2>2, <2>3
  <1>8. ToSet(y) \cap (1..born) = {}
    BY <1>2, <1>7
  <1>9. Moves(order, order', ToSet(y), 0, n) /\ Distinct(order')
    <2> DEFINE t == order'
    <2>1. t \in Seq(Nat) /\ IsInserted(t, order, i, y)
      BY <1>6
    <2> HIDE DEF t
    <2>2. Near(order, t, ToSet(y), 0, n) /\ Len(t) <= Len(order) + n
      BY <1>1, <1>3, <1>4, <2>1, InsertNear
    <2>3. Moves(order, t, ToSet(y), 0, n)
      BY <1>1, <1>2, <2>1, <2>2, NearMoves
    <2>4. ToSet(order) \cap ToSet(y) = {}
      BY <1>1, <1>8
    <2>5. Distinct(t)
      BY <1>1, <1>3, <1>4, <1>7, <2>1, <2>4, InsertDistinct
    <2> QED
      BY <2>3, <2>5 DEF t
  <1>10. ToSet(order') \subseteq 1..(born + n)
    <2>1. ToSet(order') \subseteq ToSet(order) \cup ToSet(y)
      BY <1>9 DEF Moves
    <2>2. 1..born \subseteq 1..(born + n) /\ (born + 1)..(born + n) \subseteq 1..(born + n)
      BY <1>2
    <2> QED
      BY <1>1, <1>7, <2>1, <2>2
  <1>11. /\ born' = born + n /\ born' >= born /\ born' \in 0..MaxRows /\ list' = list
         /\ Unnoticed(0, n) /\ 0 \in Nat
    BY <1>2 DEF Insert
  <1> QED
    BY <1>2, <1>6, <1>8, <1>9, <1>10, <1>11, OffsetChange

LEMMA OffsetDelete ==
  ASSUME OffsetInv, list # "messages", NEW S \in SUBSET ToSet(order), Delete(S)
  PROVE  OffsetInv'
  <1> DEFINE n == Cardinality(S)
  <1>1. order \in Seq(Nat) /\ Distinct(order) /\ ToSet(order) \subseteq 1..born /\ born \in 0..MaxRows
    BY DEF OffsetInv, OffsetRows
  <1>2. born \in Nat /\ Len(order) \in Nat
    BY <1>1, BoundsAssumption
  <1>3. IsFiniteSet(S) /\ n \in Nat
    <2>1. IsFiniteSet(1..born)
      BY <1>2, CardinalityUpTo
    <2> QED
      BY <1>1, <2>1, FS_Subset, FS_CardinalityType
  <1>4. order' = Without(order, S) /\ Unnoticed(n, 0) /\ list' = list /\ born' = born /\ 0 \in Nat
    BY DEF Delete
  <1>5. /\ order' \in Seq(Nat) /\ Distinct(order') /\ Len(order') <= Len(order)
        /\ \A k \in 1..Len(order') : \E l \in 1..Len(order) :
             order'[k] = order[l] /\ order[l] \notin S /\ k <= l /\ l <= k + n
    BY <1>1, <1>3, <1>4, WithoutIs
  <1> HIDE DEF n
  <1>6. Moves(order, order', {}, n, 0)
    <2> DEFINE t == order'
    <2>1. t \in Seq(Nat) /\ Len(t) <= Len(order) + 0 /\ Len(t) \in Nat
      BY <1>2, <1>5
    <2>2. \A k \in 1..Len(t) : \E l \in 1..Len(order) : t[k] = order[l] /\ k <= l /\ l <= k + n
      BY <1>5
    <2> HIDE DEF t
    <2>3. Near(order, t, {}, n, 0)
      BY <2>2 DEF Near
    <2>4. Moves(order, t, {}, n, 0)
      BY <1>1, <1>3, <1>4, <2>1, <2>3, NearMoves
    <2> QED
      BY <2>4 DEF t
  <1>7. ToSet(order') \subseteq 1..born' /\ born' \in 0..MaxRows /\ born' >= born /\ {} \cap (1..born) = {}
    BY <1>1, <1>2, <1>4, <1>6 DEF Moves
  <1> QED
    BY <1>3, <1>4, <1>5, <1>6, <1>7, OffsetChange

LEMMA OffsetTouch ==
  ASSUME OffsetInv, list # "messages", NEW r \in ToSet(order), Touch(r)
  PROVE  OffsetInv'
  <1>1. order \in Seq(Nat) /\ Distinct(order) /\ ToSet(order) \subseteq 1..born /\ born \in 0..MaxRows
    BY DEF OffsetInv, OffsetRows
  <1>2. order' = <<r>> \o Without(order, {r}) /\ Unnoticed(1, 1) /\ list' = list /\ born' = born /\ 1 \in Nat
    BY DEF Touch
  <1>3. order' \in Seq(Nat) /\ Distinct(order') /\ Moves(order, order', {}, 1, 1)
    BY <1>1, <1>2, TouchIs
  <1>4. ToSet(order') \subseteq 1..born' /\ born' \in 0..MaxRows /\ born' >= born /\ {} \cap (1..born) = {}
    <2>1. ToSet(order') \subseteq ToSet(order)
      BY <1>3 DEF Moves
    <2>2. born \in Nat
      BY <1>1, BoundsAssumption
    <2> QED
      <3>1. 0..MaxRows = 0..MaxRows /\ {} \cap (1..born) = {} /\ born >= born
        BY <2>2
      <3>2. ToSet(order') \subseteq 1..born
        BY <1>1, <2>1
      <3> QED
        BY <1>1, <1>2, <3>1, <3>2
  <1> QED
    BY <1>2, <1>3, <1>4, OffsetChange

\* Two neighbours change places.
LEMMA SwapIs ==
  ASSUME NEW S, NEW s \in Seq(S), Distinct(s), NEW i \in 1..(Len(s) - 1)
  PROVE  LET t == [k \in DOMAIN s |-> CASE k = i -> s[i + 1] [] k = i + 1 -> s[i] [] OTHER -> s[k]]
         IN  t \in Seq(S) /\ Distinct(t) /\ Moves(s, t, {}, 1, 1)
  <1> DEFINE t == [k \in DOMAIN s |-> CASE k = i -> s[i + 1] [] k = i + 1 -> s[i] [] OTHER -> s[k]]
             From(k) == CASE k = i -> i + 1 [] k = i + 1 -> i [] OTHER -> k
  <1>1. Len(s) \in Nat /\ DOMAIN s = 1..Len(s) /\ i \in Nat /\ i + 1 \in 1..Len(s) /\ i \in 1..Len(s)
    OBVIOUS
  <1>2. ASSUME NEW k \in 1..Len(s)
        PROVE  /\ From(k) \in 1..Len(s) /\ From(k) <= k + 1 /\ k <= From(k) + 1
               /\ t[k] = s[From(k)] /\ From(From(k)) = k
    BY <1>1
  <1>3. t \in Seq(S) /\ Len(t) = Len(s)
    <2>1. t = [k \in 1..Len(s) |-> t[k]]
      BY <1>1
    <2>2. \A k \in 1..Len(s) : t[k] \in S
      BY <1>2
    <2> HIDE DEF t
    <2> QED
      BY <1>1, <2>1, <2>2
  <1> HIDE DEF t, From
  <1>4. Distinct(t)
    <2> SUFFICES ASSUME NEW a \in 1..Len(t), NEW b \in 1..Len(t), t[a] = t[b] PROVE a = b
      BY DEF Distinct
    <2>1. From(a) = From(b)
      BY <1>2, <1>3 DEF Distinct
    <2> QED
      BY <1>2, <1>3, <2>1
  <1>5. Near(s, t, {}, 1, 1)
    BY <1>2, <1>3 DEF Near
  <1>6. Moves(s, t, {}, 1, 1)
    <2>1. Len(t) <= Len(s) + 1
      BY <1>1, <1>3
    <2> QED
      BY <1>3, <1>5, <2>1, NearMoves
  <1> QED
    BY <1>3, <1>4, <1>6 DEF t

LEMMA OffsetSwap ==
  ASSUME OffsetInv, list # "messages", NEW i \in 1..(Len(order) - 1), Swap(i)
  PROVE  OffsetInv'
  <1>1. order \in Seq(Nat) /\ Distinct(order) /\ ToSet(order) \subseteq 1..born /\ born \in 0..MaxRows
    BY DEF OffsetInv, OffsetRows
  <1>2. /\ order' = [k \in DOMAIN order |-> CASE k = i -> order[i + 1]
                                            [] k = i + 1 -> order[i]
                                            [] OTHER -> order[k]]
        /\ Unnoticed(1, 1) /\ list' = list /\ born' = born /\ 1 \in Nat
    BY DEF Swap
  <1>3. order' \in Seq(Nat) /\ Distinct(order') /\ Moves(order, order', {}, 1, 1)
    BY <1>1, <1>2, SwapIs
  <1>4. ToSet(order') \subseteq 1..born' /\ born' \in 0..MaxRows /\ born' >= born /\ {} \cap (1..born) = {}
    <2>1. ToSet(order') \subseteq ToSet(order)
      BY <1>3 DEF Moves
    <2>2. born \in Nat
      BY <1>1, BoundsAssumption
    <2>3. {} \cap (1..born) = {} /\ born >= born
      BY <2>2
    <2>4. ToSet(order') \subseteq 1..born
      BY <1>1, <2>1
    <2> QED
      BY <1>1, <1>2, <2>3, <2>4
  <1> QED
    BY <1>2, <1>3, <1>4, OffsetChange
-----------------------------------------------------------------------------
LEMMA PageArithmetic ==
  ASSUME NEW page \in Nat \ {0}, NEW L \in Nat \ {0}
  PROVE  /\ (page - 1) * L \in Nat /\ page * L = (page - 1) * L + L
         /\ \A total \in Nat : ~(page < (total + L - 1) \div L) => total <= page * L
  <1>1. (page - 1) * L \in Nat /\ page * L = (page - 1) * L + L
    <2>1. page - 1 \in Nat /\ \A a, b \in Nat : a * b \in Nat
      OBVIOUS
    <2> QED
      BY <2>1
  <1>2. ASSUME NEW total \in Nat, ~(page < (total + L - 1) \div L) PROVE total <= page * L
    <2> DEFINE a == total + L - 1
               q == a \div L
               m == a % L
    <2>1. a \in Nat
      OBVIOUS
    <2>2. q \in Nat /\ m \in 0..(L - 1) /\ a = L * q + m
      <3> HIDE DEF a
      <3> QED
        BY <2>1
    <2>3. q <= page
      BY <1>2, <2>2
    <2> HIDE DEF q, m
    <2>4. L * q <= page * L
      <3>1. page - q \in Nat /\ L * (page - q) \in Nat
        BY <2>2, <2>3
      <3>2. L * (page - q) = page * L - L * q
        BY <2>2
      <3>3. L * q \in Nat /\ page * L \in Nat
        BY <2>2
      <3> QED
        BY <3>1, <3>2, <3>3
    <2> QED
      BY <2>2, <2>4
  <1> QED
    BY <1>1, <1>2

\* The query of the rows of a page: it passes Limit places more.
Queried(s, r) ==
    [r EXCEPT !.rows = SubSeq(s, (r.page - 1) * Limit + 1,
                              IF (r.page - 1) * Limit + Limit <= Len(s)
                              THEN (r.page - 1) * Limit + Limit ELSE Len(s)),
              !.wanted = IF r.wanted = None THEN ToSet(s) ELSE r.wanted]

IsQueried(q, r, s, pg) ==
    /\ q \in Reader /\ pg \in Seq(Nat)
    /\ q.rows = pg /\ q.rows # None /\ q.wanted # None
    /\ Sent(r) = r.got /\ Sent(q) = r.got \o pg /\ ToSet(Sent(q)) = ToSet(Sent(r)) \cup ToSet(pg)
    /\ Len(Sent(q)) = Len(Sent(r)) + Len(pg)
    /\ Through(q) = Through(r) + Limit
    /\ Want(q) = IF r.wanted = None THEN ToSet(s) ELSE Want(r)
    /\ q.op = r.op /\ q.page = r.page /\ q.total = r.total /\ q.got = r.got
    /\ q.gone = r.gone /\ q.come = r.come /\ q.late = r.late

IsPage(pg, s, p) ==
    /\ pg \in Seq(Nat) /\ Cardinality(ToSet(pg)) = Len(pg) /\ ToSet(pg) \subseteq ToSet(s)
    /\ ToSet(pg) \subseteq Behind(s, p) /\ ToSet(pg) \cap Behind(s, p + Limit) = {}
    /\ Ahead(s, p + Limit) \subseteq Ahead(s, p) \cup ToSet(pg)

LEMMA RowsAreRows ==
  ASSUME NEW u \in Seq(Nat), ToSet(u) \subseteq Rows
  PROVE  u \in Seq(Rows)
  <1>1. \A k \in 1..Len(u) : u[k] \in Rows
    BY DEF ToSet
  <1> QED
    BY <1>1

LEMMA QueriedIs ==
  ASSUME NEW s, NEW n, NEW r, OffsetRows(s, n, r), r.rows = None
  PROVE  LET pg == SubSeq(s, (r.page - 1) * Limit + 1,
                          IF (r.page - 1) * Limit + Limit <= Len(s)
                          THEN (r.page - 1) * Limit + Limit ELSE Len(s))
         IN  IsPage(pg, s, Through(r)) /\ IsQueried(Queried(s, r), r, s, pg)
  <1> DEFINE p == (r.page - 1) * Limit
             pg == SubSeq(s, p + 1, IF p + Limit <= Len(s) THEN p + Limit ELSE Len(s))
             q == Queried(s, r)
             W == IF r.wanted = None THEN ToSet(s) ELSE r.wanted
  <1>1. s \in Seq(Nat) /\ Distinct(s) /\ ToSet(s) \subseteq 1..n /\ n \in 0..MaxRows /\ r \in Reader
    BY DEF OffsetRows
  <1>2. r.page \in Nat \ {0} /\ Limit \in Nat \ {0}
    BY <1>1, BoundsAssumption DEF Reader
  <1>3. p \in Nat /\ r.page * Limit = p + Limit
    BY <1>2, PageArithmetic
  <1>4. Through(r) = p
    BY DEF Through
  <1> HIDE DEF p
  <1>5. IsPage(pg, s, p)
    <2>1. /\ pg \in Seq(Nat) /\ Cardinality(ToSet(pg)) = Len(pg) /\ ToSet(pg) \subseteq ToSet(s)
          /\ ToSet(pg) \subseteq Behind(s, p) /\ ToSet(pg) \cap Behind(s, p + Limit) = {}
          /\ Ahead(s, p + Limit) \subseteq Ahead(s, p) \cup ToSet(pg)
      BY <1>1, <1>2, <1>3, PageIs
    <2> QED
      BY <2>1 DEF IsPage
  <1>6. q = [r EXCEPT !.rows = pg, !.wanted = W]
    BY DEF Queried, p
  <1> HIDE DEF pg, q
  <1>7. pg \in Seq(Rows) /\ pg # None /\ ToSet(s) \in SUBSET Rows
    <2>1. ToSet(s) \in SUBSET Rows
      BY <1>1, BoundsAssumption DEF Rows
    <2>2. pg \in Seq(Rows)
      BY <1>5, <2>1, RowsAreRows DEF IsPage
    <2> QED
      BY <2>1, <2>2, NoneAssumption DEF Rows
  <1>8. W \in SUBSET Rows /\ W # None
    <2>1. r.wanted \in (SUBSET Rows) \cup {None}
      BY <1>1 DEF Reader
    <2>2. ToSet(s) # None
      BY <1>7, NoneAssumption DEF Rows
    <2> QED
      BY <1>7, <2>1, <2>2
  <1> HIDE DEF W
  <1>9. /\ q.rows = pg /\ q.wanted = W
        /\ q.op = r.op /\ q.page = r.page /\ q.total = r.total /\ q.got = r.got
        /\ q.gone = r.gone /\ q.come = r.come /\ q.late = r.late
    BY <1>1, <1>6 DEF Reader
  <1>10. q \in Reader
    BY <1>1, <1>6, <1>7, <1>8 DEF Reader
  <1>11. Sent(r) = r.got /\ Sent(q) = r.got \o pg
    BY <1>7, <1>9 DEF Sent
  <1>12. r.got \in Seq(Nat)
    <2>1. Sent(r) \in Seq(Nat)
      BY SentIs
    <2> QED
      BY <1>11, <2>1
  <1>13. ToSet(Sent(q)) = ToSet(Sent(r)) \cup ToSet(pg) /\ Len(Sent(q)) = Len(Sent(r)) + Len(pg)
    <2>1. pg \in Seq(Nat)
      BY <1>5 DEF IsPage
    <2> QED
      BY <1>11, <1>12, <2>1, ConcatSet
  <1>14. Through(q) = Through(r) + Limit
    BY <1>3, <1>4, <1>7, <1>9 DEF Through
  <1>15. Want(q) = IF r.wanted = None THEN ToSet(s) ELSE Want(r)
    BY <1>8, <1>9 DEF Want, W
  <1>16. IsQueried(q, r, s, pg)
    BY <1>5, <1>7, <1>8, <1>9, <1>10, <1>11, <1>13, <1>14, <1>15 DEF IsQueried, IsPage
  <1> QED
    BY <1>4, <1>5, <1>16 DEF q, pg, p

LEMMA QueryCounts ==
  ASSUME NEW s, NEW n, NEW r, OffsetRows(s, n, r), PassedCounts(s, r), LastCounts(s, r),
         r.op = "wait", r.rows = None, NEW q, NEW pg, IsPage(pg, s, Through(r)), IsQueried(q, r, s, pg)
  PROVE  OffsetRows(s, n, q) /\ PassedCounts(s, q) /\ LastCounts(s, q)
  <1> DEFINE P == Through(r)
             Q == P + Limit
             R == ToSet(Sent(r))
             G == ToSet(pg)
  <1>1. /\ r \in Reader /\ Want(r) \subseteq 1..n /\ R \subseteq 1..n
        /\ s \in Seq(Nat) /\ Distinct(s) /\ ToSet(s) \subseteq 1..n /\ n \in 0..MaxRows
        /\ r.wanted = None => r.page = 1 /\ r.got = <<>>
    BY DEF OffsetRows
  <1>2. /\ Len(Sent(r)) \in Nat /\ IsFiniteSet(R) /\ Cardinality(R) \in Nat /\ P \in Nat
    BY SentIs
  <1>3. /\ pg \in Seq(Nat) /\ Cardinality(G) = Len(pg) /\ G \subseteq ToSet(s) /\ G \subseteq Behind(s, P)
        /\ G \cap Behind(s, Q) = {} /\ Ahead(s, Q) \subseteq Ahead(s, P) \cup G
    BY DEF IsPage
  <1>4. /\ q \in Reader /\ q.rows # None /\ q.wanted # None
        /\ ToSet(Sent(q)) = R \cup G /\ Len(Sent(q)) = Len(Sent(r)) + Len(pg)
        /\ Through(q) = Q
        /\ Want(q) = IF r.wanted = None THEN ToSet(s) ELSE Want(r)
        /\ q.op = r.op /\ q.page = r.page /\ q.total = r.total
        /\ q.gone = r.gone /\ q.come = r.come /\ q.late = r.late
    BY DEF IsQueried
  <1>5. r.gone \in Nat /\ r.come \in Nat /\ r.late \in Nat /\ r.page \in Nat \ {0}
        /\ (r.total # None => r.total \in Nat)
    BY <1>1 DEF Reader
  <1>6. Q \in Nat /\ Limit \in Nat
    BY <1>2, BoundsAssumption
  <1>7. r.wanted = None => R = {} /\ Ahead(s, P) = {}
    <2> SUFFICES ASSUME r.wanted = None PROVE R = {} /\ Ahead(s, P) = {}
      OBVIOUS
    <2>1. r.page = 1 /\ r.got = <<>>
      BY <1>1
    <2>2. P = 0
      <3>1. (1 - 1) * Limit = 0
        BY <1>6
      <3> QED
        BY <2>1, <3>1 DEF Through
    <2>3. Sent(r) = <<>> /\ ToSet(<<>>) = {}
      BY <2>1 DEF Sent, ToSet
    <2>4. Ahead(s, 0) = {}
      BY <1>1, AheadAll
    <2> QED
      BY <2>2, <2>3, <2>4
  <1>8. Unread(s, q) = (Want(q) \cap ToSet(s)) \ (R \cup G) /\ Unread(s, r) = (Want(r) \cap ToSet(s)) \ R
    BY <1>4 DEF Unread
  <1> DEFINE U == Unread(s, q) \cap Ahead(s, Q)
             V == Unread(s, r) \cap Ahead(s, P)
  <1> HIDE DEF P, Q, R, G
  <1>9. U \subseteq V
    BY <1>3, <1>4, <1>7, <1>8
  <1>10. AtMost(V, r.gone)
    BY DEF PassedCounts, P
  <1>11. AtMost(U, q.gone)
    <2> HIDE DEF U, V
    <2>1. AtMost(U, r.gone)
      BY <1>5, <1>9, <1>10, AtMostLess
    <2> QED
      BY <1>4, <2>1
  <1>12. Len(Sent(q)) + Cardinality(ToSet(Sent(q)) \cap Behind(s, Q)) <= q.come + Cardinality(ToSet(Sent(q)))
    <2> DEFINE B == Behind(s, P)
               C == Behind(s, Q)
               rb == Cardinality(R \cap B)
               rg == Cardinality(R \cup G)
               rc == Cardinality((R \cup G) \cap C)
    <2>1. IsFiniteSet(G)
      BY <1>3, DistinctCount DEF AtMost, G
    <2>2. C \subseteq B
      BY <1>1, <1>2, <1>6, BehindAfter DEF Q
    <2>3. G \subseteq B /\ G \cap C = {}
      BY <1>3
    <2>4. /\ IsFiniteSet(R \cap B) /\ IsFiniteSet(R \cup G) /\ IsFiniteSet((R \cup G) \cap C)
      BY <1>2, <2>1, FS_Union, FS_Subset
    <2>5. rb \in Nat /\ rg \in Nat /\ rc \in Nat
      BY <2>4, FS_CardinalityType
    <2>6. Len(Sent(r)) + rb <= r.come + Cardinality(R)
      BY DEF PassedCounts, P, R
    <2> HIDE DEF B, C
    <2>7. Cardinality(R) + Cardinality(G) + rc <= rg + rb
      BY <1>2, <2>1, <2>2, <2>3, PageRepeats
    <2>8. Len(pg) \in Nat
      BY <1>3
    <2> HIDE DEF rb, rg, rc
    <2>9. Len(Sent(r)) + Len(pg) + rc <= r.come + rg
      BY <1>2, <1>3, <1>5, <2>5, <2>6, <2>7, <2>8
    <2> QED
      BY <1>4, <2>9 DEF rc, rg, C
  <1>13. PassedCounts(s, q)
    BY <1>4, <1>11, <1>12 DEF PassedCounts
  <1>14. ASSUME r.total # None, ~HasNextPage(r.total, r.page)
         PROVE  AtMost(Unread(s, q), q.gone + q.late)
    <2>1. Len(s) <= r.total + r.late /\ r.total \in Nat /\ Len(s) \in Nat
      BY <1>1, <1>5, <1>14 DEF LastCounts
    <2>2. r.total <= Q
      <3>1. Limit \in Nat \ {0}
        BY BoundsAssumption
      <3>2. r.total <= r.page * Limit /\ r.page * Limit = (r.page - 1) * Limit + Limit
        BY <1>5, <1>14, <2>1, <3>1, PageArithmetic DEF HasNextPage
      <3> QED
        BY <3>2 DEF Q, P, Through
    <2>3. Len(s) <= Q + r.late
      BY <1>5, <1>6, <2>1, <2>2
    <2>4. AtMost(Behind(s, Q), r.late)
      BY <1>1, <1>5, <1>6, <2>3, BehindCount
    <2>5. ToSet(s) \subseteq Ahead(s, Q) \cup Behind(s, Q)
      BY <1>1, <1>6, AheadAll
    <2>6. Unread(s, q) \subseteq U \cup Behind(s, Q)
      BY <1>8, <2>5
    <2>7. AtMost(U, r.gone)
      BY <1>4, <1>11
    <2> HIDE DEF U
    <2>8. AtMost(Unread(s, q), r.gone + r.late)
      BY <1>5, <2>4, <2>6, <2>7, AtMostMore
    <2> QED
      BY <1>4, <2>8
  <1>15. LastCounts(s, q)
    BY <1>4, <1>14 DEF LastCounts
  <1>16. OffsetRows(s, n, q)
    <2>1. Want(q) \subseteq 1..n /\ ToSet(Sent(q)) \subseteq 1..n
      BY <1>1, <1>3, <1>4
    <2> QED
      BY <1>1, <1>4, <2>1 DEF OffsetRows
  <1> QED
    BY <1>13, <1>15, <1>16

LEMMA OffsetQueryRows == ASSUME OffsetInv, QueryRows PROVE OffsetInv'
  <1>1. /\ list # "messages" /\ reader.rows = None /\ reader.op = "wait"
        /\ order' = order /\ born' = born /\ reader' = Queried(order, reader)
    BY DEF QueryRows, Waits, Page, Skip, WantedNow, Queried
  <1>2. OffsetRows(order, born, reader) /\ PassedCounts(order, reader) /\ LastCounts(order, reader)
    BY <1>1 DEF OffsetInv
  <1>3. PICK pg : IsPage(pg, order, Through(reader)) /\ IsQueried(Queried(order, reader), reader, order, pg)
    BY <1>1, <1>2, QueriedIs
  <1>4. OffsetRows(order, born, reader') /\ PassedCounts(order, reader') /\ LastCounts(order, reader')
    BY <1>1, <1>2, <1>3, QueryCounts
  <1> QED
    BY <1>1, <1>4 DEF OffsetInv

LEMMA OffsetQueryTotal == ASSUME OffsetInv, QueryTotal PROVE OffsetInv'
  <1> DEFINE r == reader
             s == order
             q == [reader EXCEPT !.total = Len(order)]
             P == Through(r)
  <1>1. /\ list # "messages" /\ r.op = "wait" /\ r.total = None
        /\ order' = order /\ born' = born /\ reader' = q
    BY DEF QueryTotal, Waits
  <1>2. OffsetRows(s, born, r) /\ PassedCounts(s, r) /\ LastCounts(s, r)
    BY <1>1 DEF OffsetInv
  <1>3. r \in Reader /\ s \in Seq(Nat) /\ Len(s) \in Nat /\ Len(s) # None
    BY <1>2, NoneAssumption DEF OffsetRows
  <1>4. /\ q.total = Len(s) /\ q.op = r.op /\ q.page = r.page /\ q.rows = r.rows /\ q.got = r.got
        /\ q.wanted = r.wanted /\ q.gone = r.gone /\ q.come = r.come /\ q.late = r.late
    BY <1>3 DEF Reader
  <1>5. q \in Reader
    BY <1>3 DEF Reader
  <1> HIDE DEF q
  <1>6. Want(q) = Want(r) /\ Sent(q) = Sent(r) /\ Through(q) = P /\ Unread(s, q) = Unread(s, r)
    BY <1>4 DEF Want, Sent, Through, Unread
  <1>7. OffsetRows(s, born, q) /\ PassedCounts(s, q)
    BY <1>2, <1>4, <1>5, <1>6 DEF OffsetRows, PassedCounts
  <1>8. r.gone \in Nat /\ r.late \in Nat /\ r.page \in Nat \ {0} /\ P \in Nat
    BY <1>2, <1>3, SentIs DEF Reader
  <1>9. ASSUME r.rows # None, ~HasNextPage(q.total, r.page)
        PROVE  AtMost(Unread(s, r), r.gone + r.late)
    <2>1. Len(s) <= P
      <3>1. Limit \in Nat \ {0}
        BY BoundsAssumption
      <3>2. Len(s) <= r.page * Limit
        BY <1>3, <1>4, <1>8, <1>9, <3>1, PageArithmetic DEF HasNextPage
      <3> QED
        BY <1>9, <3>2 DEF Through
    <2>2. Unread(s, r) \subseteq Unread(s, r) \cap Ahead(s, P)
      <3>1. ToSet(s) \subseteq Ahead(s, P)
        BY <1>3, <1>8, <2>1, AheadAll
      <3> QED
        BY <3>1 DEF Unread
    <2>3. AtMost(Unread(s, r) \cap Ahead(s, P), r.gone)
      BY <1>2 DEF PassedCounts
    <2>4. AtMost({}, r.late)
      BY <1>8, AtMostNone
    <2>5. Unread(s, r) \subseteq (Unread(s, r) \cap Ahead(s, P)) \cup {}
      BY <2>2
    <2> DEFINE A == Unread(s, r) \cap Ahead(s, P)
    <2> HIDE DEF A
    <2>6. AtMost(A, r.gone) /\ Unread(s, r) \subseteq A \cup {}
      BY <2>3, <2>5 DEF A
    <2> QED
      BY <1>8, <2>4, <2>6, AtMostMore
  <1>10. LastCounts(s, q)
    <2>1. Len(s) <= q.total + q.late
      BY <1>3, <1>4, <1>8
    <2> QED
      BY <1>1, <1>4, <1>6, <1>9, <2>1 DEF LastCounts
  <1> QED
    BY <1>1, <1>7, <1>10 DEF OffsetInv

LEMMA OffsetAnswer == ASSUME OffsetInv, list # "messages", Answer PROVE OffsetInv'
  <1> DEFINE r == reader
             s == order
             next == HasNextPage(r.total, r.page)
             q == [reader EXCEPT !.got = @ \o reader.rows, !.rows = None, !.total = None,
                                 !.page = @ + 1,
                                 !.op = IF HasNextPage(reader.total, reader.page) THEN @ ELSE "ended",
                                 !.late = IF HasNextPage(reader.total, reader.page) THEN 0 ELSE @]
  <1>1. /\ r.op = "wait" /\ r.total # None /\ r.rows # None
        /\ order' = order /\ born' = born /\ reader' = q
    BY DEF Answer, Waits
  <1>2. OffsetRows(s, born, r) /\ PassedCounts(s, r) /\ LastCounts(s, r)
    BY DEF OffsetInv
  <1>3. r \in Reader
    BY <1>2 DEF OffsetRows
  <1>4. /\ q.total = None /\ q.rows = None /\ q.page = r.page + 1 /\ q.got = r.got \o r.rows
        /\ q.op = (IF next THEN r.op ELSE "ended") /\ q.late = (IF next THEN 0 ELSE r.late)
        /\ q.wanted = r.wanted /\ q.gone = r.gone /\ q.come = r.come
    BY <1>3 DEF Reader
  <1>5. q \in Reader
    <2>1. r.got \o r.rows \in Seq(Rows)
      BY <1>1, <1>3, ConcatSet DEF Reader
    <2>2. r.page + 1 \in Nat \ {0} /\ (IF next THEN r.op ELSE "ended") \in {"wait", "ended"}
          /\ (IF next THEN 0 ELSE r.late) \in Nat
      BY <1>3 DEF Reader
    <2> QED
      BY <1>3, <2>1, <2>2 DEF Reader
  <1> HIDE DEF q, next
  <1>6. Want(q) = Want(r) /\ Sent(q) = Sent(r)
    BY <1>1, <1>4 DEF Want, Sent
  <1>7. Through(q) = Through(r)
    <2>1. r.page \in Nat /\ (r.page + 1) - 1 = r.page
      BY <1>3 DEF Reader
    <2> QED
      BY <1>1, <1>4, <2>1 DEF Through
  <1>8. Unread(s, q) = Unread(s, r)
    BY <1>6 DEF Unread
  <1>9. r.wanted # None
    BY <1>1, <1>2 DEF OffsetRows
  <1>10. OffsetRows(s, born, q) /\ PassedCounts(s, q)
    BY <1>2, <1>4, <1>5, <1>6, <1>7, <1>8, <1>9 DEF OffsetRows, PassedCounts
  <1>11. q.op = "ended" => ~next
    BY <1>1, <1>4
  <1>12. LastCounts(s, q)
    <2>1. ~next => AtMost(Unread(s, r), r.gone + r.late)
      BY <1>1, <1>2 DEF LastCounts, next
    <2> QED
      BY <1>4, <1>8, <1>11, <2>1 DEF LastCounts
  <1> QED
    BY <1>1, <1>10, <1>12 DEF OffsetInv

LEMMA OffsetStep == OffsetInv /\ [PagesNext]_pagesVars => OffsetInv'
  <1> SUFFICES ASSUME OffsetInv, [PagesNext]_pagesVars PROVE OffsetInv'
    OBVIOUS
  <1>1. CASE UNCHANGED pagesVars
    <2>1. list' = list /\ order' = order /\ born' = born /\ reader' = reader
      BY <1>1 DEF pagesVars
    <2> QED
      BY <2>1 DEF OffsetInv
  <1>2. CASE PagesNext /\ list = "messages"
    <2>1. list' = list
      BY <1>2 DEF PagesNext, Insert, Delete, Touch, Swap, GetMessages, QueryRows, QueryTotal, Answer
    <2> QED
      BY <1>2, <2>1 DEF OffsetInv
  <1>3. CASE PagesNext /\ list # "messages"
    <2>1. CASE \E i \in Place, n \in 1..2 : Insert(i, n)
      BY <1>3, <2>1, OffsetInsert
    <2>2. CASE \E S \in SUBSET ToSet(order) : Delete(S)
      BY <1>3, <2>2, OffsetDelete
    <2>3. CASE \E r \in ToSet(order) : Touch(r)
      BY <1>3, <2>3, OffsetTouch
    <2>8. CASE \E i \in 1..(Len(order) - 1) : Swap(i)
      BY <1>3, <2>8, OffsetSwap
    <2>4. CASE GetMessages
      BY <1>3, <2>4 DEF GetMessages
    <2>5. CASE QueryRows
      BY <2>5, OffsetQueryRows
    <2>6. CASE QueryTotal
      BY <2>6, OffsetQueryTotal
    <2>7. CASE Answer
      BY <1>3, <2>7, OffsetAnswer
    <2> QED
      BY <1>3, <2>1, <2>2, <2>3, <2>4, <2>5, <2>6, <2>7, <2>8 DEF PagesNext
  <1> QED
    BY <1>1, <1>2, <1>3

LEMMA OffsetSays == OffsetInv => OffsetBounded
  <1> SUFFICES ASSUME OffsetInv, list # "messages", reader.wanted # None
               PROVE  /\ reader.op = "ended" => Cardinality(Missed) <= reader.gone + reader.late
                      /\ Again <= reader.come
    BY DEF OffsetBounded
  <1> DEFINE r == reader
  <1>1. OffsetRows(order, born, r) /\ PassedCounts(order, r) /\ LastCounts(order, r)
    BY DEF OffsetInv
  <1>2. r \in Reader
    BY <1>1 DEF OffsetRows
  <1>3. reader.op = "ended" => Cardinality(Missed) <= reader.gone + reader.late
    <2> SUFFICES ASSUME reader.op = "ended" PROVE Cardinality(Missed) <= reader.gone + reader.late
      OBVIOUS
    <2>1. r.rows = None /\ AtMost(Unread(order, r), r.gone + r.late)
      BY <1>1 DEF LastCounts
    <2>2. Missed = Unread(order, r)
      BY <2>1 DEF Missed, Got, Unread, Want, Sent
    <2> QED
      BY <2>1, <2>2 DEF AtMost
  <1>4. Again <= reader.come
    <2> DEFINE R == ToSet(Sent(r))
               b == Cardinality(R \cap Behind(order, Through(r)))
               G == ToSet(r.got)
    <2>1. /\ Len(Sent(r)) \in Nat /\ IsFiniteSet(R) /\ Cardinality(R) \in Nat
      BY <1>1, SentIs
    <2>2. b \in Nat
      BY <2>1, FS_Subset, FS_CardinalityType
    <2>3. Len(Sent(r)) + b <= r.come + Cardinality(R)
      BY <1>1 DEF PassedCounts
    <2>4. r.got \in Seq(Rows) /\ r.rows \in Seq(Rows) \cup {None} /\ r.come \in Nat
      BY <1>2 DEF Reader
    <2>5. IsFiniteSet(G) /\ Cardinality(G) \in Nat /\ Len(r.got) \in Nat
      BY <2>4, DistinctCount, FS_CardinalityType DEF AtMost
    <2>6. Len(r.got) + Cardinality(R) <= Len(Sent(r)) + Cardinality(G)
      <3>1. CASE r.rows = None
        <4>1. Sent(r) = r.got
          BY <3>1 DEF Sent
        <4> QED
          BY <2>5, <4>1
      <3>2. CASE r.rows # None
        <4> DEFINE Y == ToSet(r.rows)
        <4>1. r.rows \in Seq(Rows) /\ Sent(r) = r.got \o r.rows /\ Len(r.rows) \in Nat
          <5>1. r.rows \in Seq(Rows)
            BY <2>4, <3>2
          <5>2. Sent(r) = r.got \o r.rows
            BY <3>2 DEF Sent
          <5>3. \A u \in Seq(Rows) : Len(u) \in Nat
            OBVIOUS
          <5> QED
            BY <5>1, <5>2, <5>3
        <4>2. Len(Sent(r)) = Len(r.got) + Len(r.rows) /\ R = G \cup Y
          BY <2>4, <4>1, ConcatSet
        <4>3. AtMost(Y, Len(r.rows)) /\ AtMost(G, Cardinality(G))
          BY <2>4, <2>5, <4>1, DistinctCount DEF AtMost
        <4>4. R \subseteq G \cup Y
          BY <4>2
        <4> HIDE DEF R, G, Y
        <4>5. AtMost(R, Cardinality(G) + Len(r.rows))
          BY <2>5, <4>1, <4>3, <4>4, AtMostMore
        <4>6. Cardinality(R) <= Cardinality(G) + Len(r.rows)
          BY <4>5 DEF AtMost
        <4>7. /\ Cardinality(R) \in Nat /\ Cardinality(G) \in Nat /\ Len(r.got) \in Nat
              /\ Len(r.rows) \in Nat /\ Len(Sent(r)) = Len(r.got) + Len(r.rows)
          BY <2>1, <2>5, <4>1, <4>2 DEF R, G
        <4>8. \A a, c, e, h, k \in Nat : a <= c + e /\ h = k + e => k + a <= h + c
          OBVIOUS
        <4>9. Len(Sent(r)) \in Nat
          BY <2>1
        <4> QED
          BY <4>6, <4>7, <4>8, <4>9, Zenon
      <3> QED
        BY <3>1, <3>2
    <2>7. Again = Len(r.got) - Cardinality(G)
      BY DEF Again, Got
    <2> HIDE DEF R, b, G
    <2> QED
      BY <2>1, <2>2, <2>3, <2>4, <2>5, <2>6, <2>7
  <1> QED
    BY <1>3, <1>4

\* Reading a list by offset misses at most as many rows as left it or moved in it while
\* it was read, and as came between the total and the rows of the last page, and repeats
\* at most as many as came, for every list, page size and number of changes.
THEOREM PagingMissesOnlyWhatMoved == PagesSpec => []OffsetBounded
  <1> QED
    BY OffsetInit, OffsetStep, OffsetSays, PTL DEF PagesSpec
-----------------------------------------------------------------------------
\* Of either kind of list, the two invariants give every variable its type.
PagesTypeInv == list \in Lists /\ moves \in 0..MaxMoves /\ PagesInv /\ OffsetInv

LEMMA PagesTypeStep == PagesTypeInv /\ [PagesNext]_pagesVars => PagesTypeInv'
  <1> SUFFICES ASSUME PagesTypeInv, [PagesNext]_pagesVars PROVE PagesTypeInv'
    OBVIOUS
  <1>1. list' = list
    BY DEF PagesNext, pagesVars, Insert, Delete, Touch, Swap, GetMessages, QueryRows,
            QueryTotal, Answer
  <1>2. moves' = moves \/ (moves < MaxMoves /\ moves' = moves + 1)
    BY DEF PagesNext, pagesVars, Insert, Delete, Touch, Swap, GetMessages, QueryRows,
            QueryTotal, Answer
  <1>3. list \in Lists /\ moves \in 0..MaxMoves
    BY DEF PagesTypeInv
  <1>4. moves' \in 0..MaxMoves
    BY <1>2, <1>3, BoundsAssumption
  <1>5. PagesInv' /\ OffsetInv'
    BY ChatStep, OffsetStep DEF PagesTypeInv
  <1> QED
    BY <1>1, <1>3, <1>4, <1>5 DEF PagesTypeInv

LEMMA PagesTypeSays == PagesTypeInv => PagesTypeOK
  <1> SUFFICES ASSUME PagesTypeInv PROVE PagesTypeOK
    OBVIOUS
  <1>1. list \in Lists /\ moves \in 0..MaxMoves /\ PagesInv /\ OffsetInv
    BY DEF PagesTypeInv
  <1>2. /\ order \in Seq(Nat) /\ Distinct(order) /\ born \in 0..MaxRows /\ ToSet(order) \subseteq 1..born
    <2>1. CASE list = "messages"
      <3>1. ChatRows(order, born)
        BY <1>1, <2>1 DEF PagesInv
      <3> QED
        BY <3>1 DEF ChatRows, ToSet
    <2>2. CASE list # "messages"
      BY <1>1, <2>2 DEF OffsetInv, OffsetRows
    <2> QED
      BY <2>1, <2>2
  <1>3. ToSet(order) \subseteq Rows
    BY <1>2, BoundsAssumption DEF Rows
  <1>4. order \in Seq(Rows)
    BY <1>2, <1>3, RowsAreRows
  <1>5. IsInjective(order)
    BY <1>2 DEF IsInjective, Distinct
  <1>6. reader \in Reader
    <2>1. CASE list = "messages"
      <3>1. /\ reader \in ChatReader
            /\ reader.wanted = None => reader.got = <<>>
            /\ reader.wanted # None => Started(order, reader)
        BY <1>1, <2>1 DEF PagesInv
      <3>2. reader.got \in Seq(Nat)
        BY <3>1 DEF ChatReader
      <3>3. ToSet(reader.got) \subseteq Rows
        <4>1. CASE reader.wanted = None
          BY <3>1, <4>1 DEF ToSet
        <4>2. CASE reader.wanted # None
          <5>1. PICK p : ReadTo(order, reader.got, reader.wanted, p)
            BY <3>1, <4>2 DEF Started
          <5>2. p \in 0..Len(order) /\ Len(order) \in Nat
            BY <1>2, <5>1 DEF ReadTo
          <5>3. \A k \in 1..p : order[k] \in Rows
            BY <1>4, <5>2
          <5>4. \A i \in 1..Len(reader.got) : reader.got[i] \in Rows
            BY <5>1, <5>3 DEF ReadTo
          <5> QED
            BY <3>2, <5>4 DEF ToSet
        <4> QED
          BY <4>1, <4>2
      <3>4. reader.got \in Seq(Rows)
        BY <3>2, <3>3, RowsAreRows
      <3> QED
        BY <3>1, <3>4 DEF ChatReader, Reader, Rows
    <2>2. CASE list # "messages"
      BY <1>1, <2>2 DEF OffsetInv, OffsetRows
    <2> QED
      BY <2>1, <2>2
  <1> QED
    BY <1>1, <1>2, <1>4, <1>5, <1>6 DEF PagesTypeOK

\* The rows of a list are different ones of those it ever had, and what a client holds
\* are rows of it.
THEOREM PagesTypeCorrect == PagesSpec => []PagesTypeOK
  <1>1. PagesInit => PagesTypeInv
    BY PagesInvInit, OffsetInit, BoundsAssumption DEF PagesInit, PagesTypeInv
  <1> QED
    BY <1>1, PagesTypeStep, PagesTypeSays, PTL DEF PagesSpec
=============================================================================
