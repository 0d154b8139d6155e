-------------------------- MODULE ChatTurnsProofs --------------------------
(***************************************************************************)
(* What ChatTurns promises, for every set of requests and faults and both  *)
(* choices of the framework: messages have sessions, answers follow their  *)
(* questions, a finished chat is in the transcript and a deletion is final. *)
(*                                                                         *)
(* The argument is about one turn at a time, because what a turn wrote and *)
(* not yet committed is its own; LockInv is the one fact about two         *)
(* requests, and it is what the key-share lock of the foreign key gives.   *)
(***************************************************************************)
EXTENDS ChatTurns, TLAPS

\* A turn of r has begun.
Began(r) == pc[r] # "idle" /\ kind[r] \in Turns

\* The question of r is written and not yet committed.
Asking(r) ==
    /\ pc[r] \in {"open", "generate", "answer", "touch", "respond", "commit"}
    /\ ~(commitFirst /\ kind[r] = "stream" /\ pc[r] # "open")

\* What a turn or a deletion may have in hand at each step.
PhaseInv(r) ==
    /\ pc[r] = "idle" => of[r] = r /\ kind[r] = "chat" /\ outcome[r] = "none"
    /\ pc[r] \in {"erase", "erased"} => kind[r] = "delete"
    /\ pc[r] \in {"resolve", "ask", "open", "generate", "answer", "touch", "respond", "commit"}
          => kind[r] \in Turns
    /\ pc[r] = "open" => kind[r] = "stream"
    /\ pc[r] = "respond" => ~commitFirst
    /\ pc[r] \in {"respond", "commit"} => ~(commitFirst /\ kind[r] = "stream")
    /\ commitFirst /\ kind[r] = "chat" /\ outcome[r] = "done" => pc[r] = "end"

\* The open transaction of a turn holds its question, and its answer once that
\* is written.  A lost answer is in a transaction of its own, which may outlive the
\* request.
DraftInv(r) ==
    /\ <<r, "user">> \in draft <=> Asking(r)
    /\ <<r, "assistant">> \in draft => Asking(r) \/ (Lost(r) /\ pc[r] \in {"touch", "end"})
    /\ kind[r] = "chat" /\ pc[r] \in {"touch", "respond", "commit"} =>
          <<r, "assistant">> \in draft

\* A session that a turn creates appears with the commit of its question, once,
\* and before the client may name it when the framework commits first.
SessionInv(s) ==
    /\ sess[s] # "none" => Began(s) /\ of[s] = s
    /\ s \in told => Began(s) /\ of[s] = s
    /\ commitFirst /\ s \in told => sess[s] # "none"
    /\ of[s] = s /\ (Asking(s) \/ pc[s] \in {"resolve", "ask"}) => sess[s] = "none"

\* What a turn writes to a session of another turn, it writes while the session
\* is there.
PlaceInv(r) ==
    /\ of[r] # r => of[r] \in told
    /\ pc[r] \in {"ask", "erase", "erased"} /\ of[r] # r => sess[of[r]] # "none"
    /\ pc[r] \in {"erase", "erased"} => of[r] # r
    /\ Asking(r) /\ of[r] # r => sess[of[r]] = "stored"

\* What the transcripts hold.
RecordInv(r) ==
    /\ <<r, "assistant">> \in stored => <<r, "user">> \in stored
    /\ <<r, "user">> \in stored => Began(r) /\ sess[of[r]] = "stored"
    /\ commitFirst /\ kind[r] = "chat" /\ outcome[r] = "done" /\ sess[of[r]] # "gone" =>
          <<r, "assistant">> \in stored

TurnInv(r) == PhaseInv(r) /\ DraftInv(r) /\ SessionInv(r) /\ PlaceInv(r) /\ RecordInv(r)

\* The lock of a question in an open transaction keeps deletions away.
LockInv(r, d) == Asking(r) /\ pc[d] = "erased" => of[d] # of[r]

ChatInv ==
    /\ TypeOK
    /\ \A r \in Requests : TurnInv(r)
    /\ \A r, d \in Requests : LockInv(r, d)

-----------------------------------------------------------------------------

\* The two messages of a turn.
LEMMA MessagePairs ==
    ASSUME NEW r \in Requests
    PROVE  /\ MessagesOf(r) = {<<r, "user">>, <<r, "assistant">>}
           /\ MessagesOf(r) \subseteq Messages
BY DEF MessagesOf, Messages

\* A commit stores what the turn has in hand, and nothing else.
LEMMA PublishedPairs ==
    ASSUME NEW r \in Requests, Publish(r), NEW q \in Requests,
           NEW role \in {"user", "assistant"}
    PROVE  /\ <<q, role>> \in stored' <=>
                 <<q, role>> \in stored \/ (q = r /\ <<q, role>> \in draft)
           /\ <<q, role>> \in draft' <=> <<q, role>> \in draft /\ q # r
BY MessagePairs DEF Publish

\* A rollback forgets what the turn has in hand, and nothing else.
LEMMA GivenUpPairs ==
    ASSUME NEW r \in Requests, NEW what, GiveUp(r, what), NEW q \in Requests,
           NEW role \in {"user", "assistant"}
    PROVE  <<q, role>> \in draft' <=> <<q, role>> \in draft /\ q # r
BY MessagePairs DEF GiveUp

\* The step of AddQuestion that writes the question.
WriteQuestion(r) ==
    /\ pc[r] = "ask"
    /\ ~Erasing(of[r])
    /\ sess[of[r]] # "gone"
    /\ draft' = draft \cup {<<r, "user">>}
    /\ Go(r, IF kind[r] = "stream" THEN "open" ELSE "generate")
    /\ UNCHANGED <<commitFirst, kind, of, outcome, told, sess, stored>>

\* The step of AddLostAnswer that writes the answer.
WriteLostAnswer(r) ==
    /\ pc[r] = "answer"
    /\ Lost(r)
    /\ draft' = draft \cup {<<r, "assistant">>}
    /\ Go(r, "touch")
    /\ UNCHANGED <<commitFirst, kind, of, outcome, told, sess, stored>>

\* Nothing is asked, written or told yet.
LEMMA InitHolds == Init => ChatInv
BY
   DEF Init, ChatInv, TypeOK, TurnInv, PhaseInv, DraftInv, SessionInv, PlaceInv,
       RecordInv,
       LockInv, Asking, PCs, Outcomes, Turns, Sessions

\* A request that ends without what it wrote: a refusal, an error, a rollback.
LEMMA GiveUpHolds ==
    ASSUME ChatInv, NEW r \in Requests, NEW what \in Outcomes, GiveUp(r, what),
           pc[r] \notin {"idle", "end"},
           what = "done" => outcome[r] = "done" \/ kind[r] = "stream"
    PROVE  ChatInv'
<1>1. TypeOK /\ TypeOK'
    BY DEF GiveUp, Go, Tell, ChatInv, TypeOK, PCs
<1>2. PICK o \in Requests : o = of[r]
    BY DEF ChatInv, TypeOK, Sessions
<1>3. TurnInv(r) /\ TurnInv(o)
    BY DEF ChatInv
<1>4. ASSUME NEW q \in Requests PROVE TurnInv(q)'
  <2>1. TurnInv(q)
    BY DEF ChatInv
  <2>2. PhaseInv(q)'
    BY <2>1 DEF GiveUp, Go, Tell, TurnInv, PhaseInv
  <2>3. DraftInv(q)'
    BY <1>1, <1>3, <2>1, GivenUpPairs
       DEF GiveUp, Go, TurnInv, DraftInv, Asking, Lost, TypeOK
  <2>4. SessionInv(q)'
    BY <2>1 DEF GiveUp, Go, TurnInv, SessionInv, Asking, Began
  <2>5. PlaceInv(q)'
    BY <2>1 DEF GiveUp, Go, TurnInv, PlaceInv, Asking
  <2>6. RecordInv(q)'
    BY <2>1 DEF GiveUp, Go, Tell, TurnInv, RecordInv, Began
  <2> QED  BY <2>2, <2>3, <2>4, <2>5, <2>6 DEF TurnInv
<1>5. ASSUME NEW q \in Requests, NEW d \in Requests PROVE LockInv(q, d)'
  <2>1. TurnInv(q) /\ TurnInv(d) /\ LockInv(q, d) /\ LockInv(r, d) /\ LockInv(q, r)
    BY DEF ChatInv
  <2> QED  BY <2>1 DEF GiveUp, Go, LockInv, Asking
<1> QED  BY <1>1, <1>4, <1>5 DEF ChatInv

\* A turn begins, in a new session or in one that was announced.
LEMMA AskHolds ==
    ASSUME ChatInv, NEW r \in Requests, NEW k \in Turns, NEW s \in Sessions, Ask(r, k, s)
    PROVE  ChatInv'
<1>1. TypeOK /\ TypeOK'
    BY DEF Ask, Go, ChatInv, TypeOK, PCs
<1>2. ASSUME NEW q \in Requests PROVE TurnInv(q)'
  <2>1. TurnInv(q)
    BY DEF ChatInv
  <2>2. PhaseInv(q)'
    BY <1>1, <2>1 DEF Ask, Go, TurnInv, PhaseInv, TypeOK
  <2>3. DraftInv(q)'
    BY <2>1 DEF Ask, Go, TurnInv, DraftInv, Asking, Lost
  <2>4. SessionInv(q)'
    BY <2>1 DEF Ask, Go, TurnInv, SessionInv, Asking, Began
  <2>5. PlaceInv(q)'
    BY <2>1 DEF Ask, Go, TurnInv, PlaceInv, Asking
  <2>6. RecordInv(q)'
    BY <2>1 DEF Ask, Go, TurnInv, PhaseInv, RecordInv, Began
  <2> QED  BY <2>2, <2>3, <2>4, <2>5, <2>6 DEF TurnInv
<1>3. ASSUME NEW q \in Requests, NEW d \in Requests PROVE LockInv(q, d)'
  <2>1. TurnInv(q) /\ TurnInv(d) /\ LockInv(q, d) /\ LockInv(r, d) /\ LockInv(q, r)
    BY DEF ChatInv
  <2> QED  BY <2>1 DEF Ask, Go, LockInv, Asking
<1> QED  BY <1>1, <1>2, <1>3 DEF ChatInv

\* The question takes the lock of its session.
LEMMA WriteQuestionHolds ==
    ASSUME ChatInv, NEW r \in Requests, WriteQuestion(r)
    PROVE  ChatInv'
<1>1. TypeOK /\ TypeOK'
    BY MessagePairs DEF WriteQuestion, Go, ChatInv, TypeOK, PCs
<1>2. ASSUME NEW q \in Requests PROVE TurnInv(q)'
  <2>1. TurnInv(q)
    BY DEF ChatInv
  <2>2. PhaseInv(q)'
    BY <2>1 DEF WriteQuestion, Go, TurnInv, PhaseInv
  <2>3. DraftInv(q)'
    BY <1>1, <2>1 DEF WriteQuestion, Go, TurnInv, DraftInv, Asking, Lost, TypeOK
  <2>4. SessionInv(q)'
    BY <2>1 DEF WriteQuestion, Go, TurnInv, SessionInv, Asking, Began
  <2>5. PlaceInv(q)'
    BY <1>1, <2>1 DEF WriteQuestion, Go, TurnInv, PlaceInv, Asking, TypeOK
  <2>6. RecordInv(q)'
    BY <2>1 DEF WriteQuestion, Go, TurnInv, RecordInv, Began
  <2> QED  BY <2>2, <2>3, <2>4, <2>5, <2>6 DEF TurnInv
<1>3. ASSUME NEW q \in Requests, NEW d \in Requests PROVE LockInv(q, d)'
  <2>1. TurnInv(q) /\ TurnInv(d) /\ LockInv(q, d) /\ LockInv(r, d) /\ LockInv(q, r)
    BY DEF ChatInv
  <2> QED  BY <2>1 DEF WriteQuestion, Go, LockInv, Erasing, Asking
<1> QED  BY <1>1, <1>2, <1>3 DEF ChatInv

\* The session is there, or the turn will create it.
LEMMA PassResolveHolds ==
    ASSUME ChatInv, NEW r \in Requests, pc[r] = "resolve",
           of[r] = r \/ sess[of[r]] = "stored", Go(r, "ask"),
           UNCHANGED <<commitFirst, kind, of, outcome, told, sess, stored, draft>>
    PROVE  ChatInv'
<1>1. TypeOK /\ TypeOK'
    BY DEF Go, ChatInv, TypeOK, PCs
<1>2. ASSUME NEW q \in Requests PROVE TurnInv(q)'
  <2>1. TurnInv(q)
    BY DEF ChatInv
  <2>2. PhaseInv(q)'
    BY <2>1 DEF Go, TurnInv, PhaseInv
  <2>3. DraftInv(q)'
    BY <2>1 DEF Go, TurnInv, DraftInv, Asking, Lost
  <2>4. SessionInv(q)'
    BY <2>1 DEF Go, TurnInv, SessionInv, Asking, Began
  <2>5. PlaceInv(q)'
    BY <2>1 DEF Go, TurnInv, PlaceInv, Asking
  <2>6. RecordInv(q)'
    BY <2>1 DEF Go, TurnInv, RecordInv, Began
  <2> QED  BY <2>2, <2>3, <2>4, <2>5, <2>6 DEF TurnInv
<1>3. ASSUME NEW q \in Requests, NEW d \in Requests PROVE LockInv(q, d)'
  <2>1. TurnInv(q) /\ TurnInv(d) /\ LockInv(q, d) /\ LockInv(r, d) /\ LockInv(q, r)
    BY DEF ChatInv
  <2> QED  BY <2>1 DEF Go, LockInv, Asking
<1> QED  BY <1>1, <1>2, <1>3 DEF ChatInv

\* The model has answered.
LEMMA PassGenerateHolds ==
    ASSUME ChatInv, NEW r \in Requests, pc[r] = "generate", Go(r, "answer"),
           UNCHANGED <<commitFirst, kind, of, outcome, told, sess, stored, draft>>
    PROVE  ChatInv'
<1>1. TypeOK /\ TypeOK'
    BY DEF Go, ChatInv, TypeOK, PCs
<1>2. ASSUME NEW q \in Requests PROVE TurnInv(q)'
  <2>1. TurnInv(q)
    BY DEF ChatInv
  <2>2. PhaseInv(q)'
    BY <2>1 DEF Go, TurnInv, PhaseInv
  <2>3. DraftInv(q)'
    BY <2>1 DEF Go, TurnInv, DraftInv, Asking, Lost
  <2>4. SessionInv(q)'
    BY <2>1 DEF Go, TurnInv, SessionInv, Asking, Began
  <2>5. PlaceInv(q)'
    BY <2>1 DEF Go, TurnInv, PlaceInv, Asking
  <2>6. RecordInv(q)'
    BY <2>1 DEF Go, TurnInv, RecordInv, Began
  <2> QED  BY <2>2, <2>3, <2>4, <2>5, <2>6 DEF TurnInv
<1>3. ASSUME NEW q \in Requests, NEW d \in Requests PROVE LockInv(q, d)'
  <2>1. TurnInv(q) /\ TurnInv(d) /\ LockInv(q, d) /\ LockInv(r, d) /\ LockInv(q, r)
    BY DEF ChatInv
  <2> QED  BY <2>1 DEF Go, LockInv, Asking
<1> QED  BY <1>1, <1>2, <1>3 DEF ChatInv

\* A stream starts: with the commit of its question, or before it.
LEMMA OpenStreamHolds ==
    ASSUME ChatInv, NEW r \in Requests, OpenStream(r)
    PROVE  ChatInv'
<1>1. TypeOK /\ TypeOK'
    BY DEF OpenStream, Go, Publish, ChatInv, TypeOK, PCs
<1>2. PICK o \in Requests : o = of[r]
    BY DEF ChatInv, TypeOK, Sessions
<1>3. TurnInv(r) /\ TurnInv(o)
    BY DEF ChatInv
<1>4. ASSUME NEW q \in Requests PROVE TurnInv(q)'
  <2>1. TurnInv(q)
    BY DEF ChatInv
  <2>2. PhaseInv(q)'
    BY <2>1 DEF OpenStream, Go, TurnInv, PhaseInv
  <2>3. DraftInv(q)'
    BY <1>1, <2>1, PublishedPairs
       DEF OpenStream, Go, TurnInv, PhaseInv, DraftInv, Asking, Lost, TypeOK
  <2>4. SessionInv(q)'
    <3>1. CASE q = r
      BY <3>1, <1>1, <1>3
         DEF OpenStream, Go, Publish, TurnInv, PhaseInv, SessionInv, Asking, Began, TypeOK
    <3>2. CASE q # r
      <4>1. q \in told' <=> q \in told
        BY <3>2, <1>3 DEF OpenStream, TurnInv, PlaceInv
      <4>2. sess'[q] = sess[q] /\ pc'[q] = pc[q]
        BY <3>2, <1>1 DEF OpenStream, Publish, Go, TypeOK, Sessions
      <4> QED
        BY <4>1, <4>2, <2>1 DEF OpenStream, TurnInv, SessionInv, Asking, Began
    <3> QED  BY <3>1, <3>2
  <2>5. PlaceInv(q)'
    BY <1>1, <2>1 DEF OpenStream, Go, Publish, TurnInv, PlaceInv, Asking, TypeOK
  <2>6. RecordInv(q)'
    BY <1>1, <1>3, <2>1, PublishedPairs
       DEF OpenStream, Go, Publish, TurnInv, PhaseInv, DraftInv, SessionInv, PlaceInv,
           RecordInv, Asking, Began, TypeOK
  <2> QED  BY <2>2, <2>3, <2>4, <2>5, <2>6 DEF TurnInv
<1>5. ASSUME NEW q \in Requests, NEW d \in Requests PROVE LockInv(q, d)'
  <2>1. TurnInv(q) /\ TurnInv(d) /\ LockInv(q, d) /\ LockInv(r, d) /\ LockInv(q, r)
    BY DEF ChatInv
  <2> QED  BY <2>1 DEF OpenStream, Go, LockInv, Asking
<1> QED  BY <1>1, <1>4, <1>5 DEF ChatInv

\* A stream ends with an error; the question stays.
LEMMA EndStreamHolds ==
    ASSUME ChatInv, NEW r \in Requests, EndStream(r),
           pc[r] \in {"generate", "answer"}, kind[r] = "stream"
    PROVE  ChatInv'
<1>1. TypeOK /\ TypeOK'
    BY DEF EndStream, Go, Tell, ChatInv, TypeOK, PCs, Outcomes
<1>2. ASSUME NEW q \in Requests PROVE TurnInv(q)'
  <2>1. TurnInv(q)
    BY DEF ChatInv
  <2>2. PhaseInv(q)'
    BY <2>1 DEF EndStream, Go, Tell, TurnInv, PhaseInv
  <2>3. DraftInv(q)'
    BY <2>1 DEF EndStream, Go, TurnInv, DraftInv, Asking, Lost
  <2>4. SessionInv(q)'
    BY <2>1 DEF EndStream, Go, TurnInv, SessionInv, Asking, Began
  <2>5. PlaceInv(q)'
    BY <2>1 DEF EndStream, Go, TurnInv, PlaceInv, Asking
  <2>6. RecordInv(q)'
    BY <2>1 DEF EndStream, Go, Tell, TurnInv, RecordInv, Began
  <2> QED  BY <2>2, <2>3, <2>4, <2>5, <2>6 DEF TurnInv
<1>3. ASSUME NEW q \in Requests, NEW d \in Requests PROVE LockInv(q, d)'
  <2>1. TurnInv(q) /\ TurnInv(d) /\ LockInv(q, d) /\ LockInv(r, d) /\ LockInv(q, r)
    BY DEF ChatInv
  <2> QED  BY <2>1 DEF EndStream, Go, LockInv, Asking
<1> QED  BY <1>1, <1>2, <1>3 DEF ChatInv

\* The answer joins its question in the open transaction.
LEMMA AddAnswerHolds ==
    ASSUME ChatInv, NEW r \in Requests, AddAnswer(r)
    PROVE  ChatInv'
<1>1. TypeOK /\ TypeOK'
    BY MessagePairs DEF AddAnswer, Go, ChatInv, TypeOK, PCs
<1>2. ASSUME NEW q \in Requests PROVE TurnInv(q)'
  <2>1. TurnInv(q)
    BY DEF ChatInv
  <2>2. PhaseInv(q)'
    BY <1>1, <2>1 DEF AddAnswer, Go, TurnInv, PhaseInv, Lost, TypeOK
  <2>3. DraftInv(q)'
    BY <1>1, <2>1 DEF AddAnswer, Go, TurnInv, PhaseInv, DraftInv, Asking, Lost, TypeOK
  <2>4. SessionInv(q)'
    BY <1>1, <2>1
       DEF AddAnswer, Go, TurnInv, PhaseInv, SessionInv, Asking, Began, Lost, TypeOK
  <2>5. PlaceInv(q)'
    BY <1>1, <2>1 DEF AddAnswer, Go, TurnInv, PlaceInv, Asking, Lost, TypeOK
  <2>6. RecordInv(q)'
    BY <1>1, <2>1 DEF AddAnswer, Go, TurnInv, RecordInv, Began, TypeOK
  <2> QED  BY <2>2, <2>3, <2>4, <2>5, <2>6 DEF TurnInv
<1>3. ASSUME NEW q \in Requests, NEW d \in Requests PROVE LockInv(q, d)'
  <2>1. TurnInv(q) /\ TurnInv(d) /\ LockInv(q, d) /\ LockInv(r, d) /\ LockInv(q, r)
    BY DEF ChatInv
  <2> QED  BY <1>1, <2>1 DEF AddAnswer, Go, LockInv, Asking, Lost, TypeOK
<1> QED  BY <1>1, <1>2, <1>3 DEF ChatInv

\* A lost answer gets a transaction that holds nothing else.
LEMMA WriteLostAnswerHolds ==
    ASSUME ChatInv, NEW r \in Requests, WriteLostAnswer(r)
    PROVE  ChatInv'
<1>1. TypeOK /\ TypeOK'
    BY MessagePairs DEF WriteLostAnswer, Go, ChatInv, TypeOK, PCs
<1>2. ASSUME NEW q \in Requests PROVE TurnInv(q)'
  <2>1. TurnInv(q)
    BY DEF ChatInv
  <2>2. PhaseInv(q)'
    BY <1>1, <2>1 DEF WriteLostAnswer, Go, TurnInv, PhaseInv, Lost, TypeOK
  <2>3. DraftInv(q)'
    BY <1>1, <2>1
       DEF WriteLostAnswer, Go, TurnInv, PhaseInv, DraftInv, Asking, Lost, TypeOK
  <2>4. SessionInv(q)'
    BY <1>1, <2>1
       DEF WriteLostAnswer, Go, TurnInv, PhaseInv, SessionInv, Asking, Began, Lost, TypeOK
  <2>5. PlaceInv(q)'
    BY <1>1, <2>1 DEF WriteLostAnswer, Go, TurnInv, PlaceInv, Asking, Lost, TypeOK
  <2>6. RecordInv(q)'
    BY <1>1, <2>1 DEF WriteLostAnswer, Go, TurnInv, RecordInv, Began, TypeOK
  <2> QED  BY <2>2, <2>3, <2>4, <2>5, <2>6 DEF TurnInv
<1>3. ASSUME NEW q \in Requests, NEW d \in Requests PROVE LockInv(q, d)'
  <2>1. TurnInv(q) /\ TurnInv(d) /\ LockInv(q, d) /\ LockInv(r, d) /\ LockInv(q, r)
    BY DEF ChatInv
  <2> QED  BY <1>1, <2>1 DEF WriteLostAnswer, Go, LockInv, Asking, Lost, TypeOK
<1> QED  BY <1>1, <1>2, <1>3 DEF ChatInv

\* The turn has updated its session.
LEMMA TouchHolds ==
    ASSUME ChatInv, NEW r \in Requests, Touch(r)
    PROVE  ChatInv'
<1>1. TypeOK /\ TypeOK'
    BY MessagePairs DEF Touch, Go, Tell, ChatInv, TypeOK, PCs, Outcomes
<1>2. ASSUME NEW q \in Requests PROVE TurnInv(q)'
  <2>1. TurnInv(q)
    BY DEF ChatInv
  <2>2. PhaseInv(q)'
    BY <1>1, <2>1 DEF Touch, Go, Tell, TurnInv, PhaseInv, Lost, TypeOK
  <2>3. DraftInv(q)'
    BY <1>1, <2>1 DEF Touch, Go, TurnInv, PhaseInv, DraftInv, Asking, Lost, TypeOK
  <2>4. SessionInv(q)'
    BY <1>1, <2>1
       DEF Touch, Go, TurnInv, PhaseInv, SessionInv, Asking, Began, Lost, TypeOK
  <2>5. PlaceInv(q)'
    BY <1>1, <2>1 DEF Touch, Go, TurnInv, PlaceInv, Asking, Lost, TypeOK
  <2>6. RecordInv(q)'
    BY <1>1, <2>1 DEF Touch, Go, Tell, TurnInv, RecordInv, Began, TypeOK
  <2> QED  BY <2>2, <2>3, <2>4, <2>5, <2>6 DEF TurnInv
<1>3. ASSUME NEW q \in Requests, NEW d \in Requests PROVE LockInv(q, d)'
  <2>1. TurnInv(q) /\ TurnInv(d) /\ LockInv(q, d) /\ LockInv(r, d) /\ LockInv(q, r)
    BY DEF ChatInv
  <2> QED  BY <1>1, <2>1 DEF Touch, Go, LockInv, Asking, Lost, TypeOK
<1> QED  BY <1>1, <1>2, <1>3 DEF ChatInv

\* The transaction of a lost answer is rolled back at last.
LEMMA CollectHolds ==
    ASSUME ChatInv, NEW r \in Requests, Collect(r)
    PROVE  ChatInv'
<1>1. TypeOK /\ TypeOK'
    BY MessagePairs DEF Collect, ChatInv, TypeOK, PCs
<1>2. ASSUME NEW q \in Requests PROVE TurnInv(q)'
  <2>1. TurnInv(q)
    BY DEF ChatInv
  <2>2. PhaseInv(q)'
    BY <1>1, <2>1 DEF Collect, TurnInv, PhaseInv, Lost, TypeOK
  <2>3. DraftInv(q)'
    BY <1>1, <2>1, MessagePairs
       DEF Collect, TurnInv, PhaseInv, DraftInv, Asking, Lost, TypeOK
  <2>4. SessionInv(q)'
    BY <1>1, <2>1 DEF Collect, TurnInv, PhaseInv, SessionInv, Asking, Began, Lost, TypeOK
  <2>5. PlaceInv(q)'
    BY <1>1, <2>1 DEF Collect, TurnInv, PlaceInv, Asking, Lost, TypeOK
  <2>6. RecordInv(q)'
    BY <1>1, <2>1 DEF Collect, TurnInv, RecordInv, Began, TypeOK
  <2> QED  BY <2>2, <2>3, <2>4, <2>5, <2>6 DEF TurnInv
<1>3. ASSUME NEW q \in Requests, NEW d \in Requests PROVE LockInv(q, d)'
  <2>1. TurnInv(q) /\ TurnInv(d) /\ LockInv(q, d) /\ LockInv(r, d) /\ LockInv(q, r)
    BY DEF ChatInv
  <2> QED  BY <1>1, <2>1 DEF Collect, LockInv, Asking, Lost, TypeOK
<1> QED  BY <1>1, <1>2, <1>3 DEF ChatInv

\* A response that goes out before the commit.
LEMMA RespondHolds ==
    ASSUME ChatInv, NEW r \in Requests, Respond(r)
    PROVE  ChatInv'
<1>1. TypeOK /\ TypeOK'
    BY DEF Respond, Go, Tell, ChatInv, TypeOK, PCs, Outcomes
<1>2. PICK o \in Requests : o = of[r]
    BY DEF ChatInv, TypeOK, Sessions
<1>3. TurnInv(r) /\ TurnInv(o)
    BY DEF ChatInv
<1>4. ASSUME NEW q \in Requests PROVE TurnInv(q)'
  <2>1. TurnInv(q)
    BY DEF ChatInv
  <2>2. PhaseInv(q)'
    BY <2>1 DEF Respond, Go, Tell, TurnInv, PhaseInv
  <2>3. DraftInv(q)'
    BY <2>1 DEF Respond, Go, TurnInv, DraftInv, Asking, Lost
  <2>4. SessionInv(q)'
    BY <1>3, <2>1 DEF Respond, Go, TurnInv, PhaseInv, SessionInv, PlaceInv, Asking, Began
  <2>5. PlaceInv(q)'
    BY <2>1 DEF Respond, Go, TurnInv, PlaceInv, Asking
  <2>6. RecordInv(q)'
    BY <1>3, <2>1 DEF Respond, Go, TurnInv, PhaseInv, RecordInv, Began
  <2> QED  BY <2>2, <2>3, <2>4, <2>5, <2>6 DEF TurnInv
<1>5. ASSUME NEW q \in Requests, NEW d \in Requests PROVE LockInv(q, d)'
  <2>1. TurnInv(q) /\ TurnInv(d) /\ LockInv(q, d) /\ LockInv(r, d) /\ LockInv(q, r)
    BY DEF ChatInv
  <2> QED  BY <2>1 DEF Respond, Go, LockInv, Asking
<1> QED  BY <1>1, <1>4, <1>5 DEF ChatInv

\* The transaction of a turn commits.
LEMMA CommitTurnHolds ==
    ASSUME ChatInv, NEW r \in Requests, CommitTurn(r)
    PROVE  ChatInv'
<1>1. TypeOK /\ TypeOK'
    BY DEF CommitTurn, Go, Tell, Publish, ChatInv, TypeOK, PCs, Outcomes
<1>2. PICK o \in Requests : o = of[r]
    BY DEF ChatInv, TypeOK, Sessions
<1>3. TurnInv(r) /\ TurnInv(o)
    BY DEF ChatInv
<1>4. ASSUME NEW q \in Requests PROVE TurnInv(q)'
  <2>1. TurnInv(q)
    BY DEF ChatInv
  <2>2. PhaseInv(q)'
    BY <1>1, <2>1 DEF CommitTurn, Go, Tell, TurnInv, PhaseInv, TypeOK
  <2>3. DraftInv(q)'
    BY <1>1, <2>1, PublishedPairs
       DEF CommitTurn, Go, TurnInv, DraftInv, Asking, Lost, TypeOK
  <2>4. SessionInv(q)'
    BY <1>1, <1>3, <2>1
      
         DEF CommitTurn, Go, Publish, TurnInv, PhaseInv, SessionInv, PlaceInv, Asking,
             Began,
           TypeOK
  <2>5. PlaceInv(q)'
    BY <2>1 DEF CommitTurn, Go, Publish, TurnInv, PlaceInv, Asking
  <2>6. RecordInv(q)'
    BY <1>1, <1>3, <2>1, MessagePairs
       DEF CommitTurn, Go, Tell, Publish, TurnInv, PhaseInv, DraftInv, SessionInv,
           PlaceInv, RecordInv, Asking, Began, TypeOK
  <2> QED  BY <2>2, <2>3, <2>4, <2>5, <2>6 DEF TurnInv
<1>5. ASSUME NEW q \in Requests, NEW d \in Requests PROVE LockInv(q, d)'
  <2>1. TurnInv(q) /\ TurnInv(d) /\ LockInv(q, d) /\ LockInv(r, d) /\ LockInv(q, r)
    BY DEF ChatInv
  <2> QED  BY <2>1 DEF CommitTurn, Go, LockInv, Asking
<1> QED  BY <1>1, <1>4, <1>5 DEF ChatInv

\* A deletion begins.
LEMMA DeleteHolds ==
    ASSUME ChatInv, NEW r \in Requests, NEW s \in Sessions, Delete(r, s)
    PROVE  ChatInv'
<1>1. TypeOK /\ TypeOK'
    BY DEF Delete, Go, Tell, ChatInv, TypeOK, PCs, Outcomes
<1>2. ASSUME NEW q \in Requests PROVE TurnInv(q)'
  <2>1. TurnInv(q)
    BY DEF ChatInv
  <2>2. PhaseInv(q)'
    BY <1>1, <2>1 DEF Delete, Go, Tell, TurnInv, PhaseInv, TypeOK
  <2>3. DraftInv(q)'
    BY <1>1, <2>1 DEF Delete, Go, TurnInv, DraftInv, Asking, Lost, TypeOK
  <2>4. SessionInv(q)'
    BY <1>1, <2>1 DEF Delete, Go, TurnInv, SessionInv, Asking, Began, TypeOK
  <2>5. PlaceInv(q)'
    BY <1>1, <2>1 DEF Delete, Go, TurnInv, SessionInv, PlaceInv, Asking, Began, TypeOK
  <2>6. RecordInv(q)'
    BY <1>1, <2>1 DEF Delete, Go, Tell, TurnInv, RecordInv, Began, TypeOK
  <2> QED  BY <2>2, <2>3, <2>4, <2>5, <2>6 DEF TurnInv
<1>3. ASSUME NEW q \in Requests, NEW d \in Requests PROVE LockInv(q, d)'
  <2>1. TurnInv(q) /\ TurnInv(d) /\ LockInv(q, d) /\ LockInv(r, d) /\ LockInv(q, r)
    BY DEF ChatInv
  <2> QED  BY <1>1, <2>1 DEF Delete, Go, LockInv, Asking, TypeOK
<1> QED  BY <1>1, <1>2, <1>3 DEF ChatInv

\* The DELETE gets the row when no open turn holds it.
LEMMA EraseHolds ==
    ASSUME ChatInv, NEW r \in Requests, Erase(r)
    PROVE  ChatInv'
<1>1. TypeOK /\ TypeOK'
    BY DEF Erase, Go, ChatInv, TypeOK, PCs
<1>2. ASSUME NEW q \in Requests PROVE TurnInv(q)'
  <2>1. TurnInv(q)
    BY DEF ChatInv
  <2>2. PhaseInv(q)'
    BY <2>1 DEF Erase, Go, TurnInv, PhaseInv
  <2>3. DraftInv(q)'
    BY <2>1 DEF Erase, Go, TurnInv, DraftInv, Asking, Lost
  <2>4. SessionInv(q)'
    BY <2>1 DEF Erase, Go, TurnInv, SessionInv, Asking, Began
  <2>5. PlaceInv(q)'
    BY <2>1 DEF Erase, Go, TurnInv, PlaceInv, Asking
  <2>6. RecordInv(q)'
    BY <2>1 DEF Erase, Go, TurnInv, RecordInv, Began
  <2> QED  BY <2>2, <2>3, <2>4, <2>5, <2>6 DEF TurnInv
<1>3. ASSUME NEW q \in Requests, NEW d \in Requests PROVE LockInv(q, d)'
  <2>1. TurnInv(q) /\ TurnInv(d) /\ LockInv(q, d) /\ LockInv(r, d) /\ LockInv(q, r)
    BY DEF ChatInv
  <2> QED  BY <2>1, MessagePairs
     DEF Erase, Go, Holders, TurnInv, LockInv, DraftInv, Asking
<1> QED  BY <1>1, <1>2, <1>3 DEF ChatInv

\* The deletion commits, and LockInv says that no turn is open in the session.
LEMMA CommitDeleteHolds ==
    ASSUME ChatInv, NEW r \in Requests, CommitDelete(r)
    PROVE  ChatInv'
<1>1. TypeOK /\ TypeOK'
    BY DEF CommitDelete, Go, Tell, ChatInv, TypeOK, PCs, Outcomes
<1>2. PICK o \in Requests : o = of[r]
    BY DEF ChatInv, TypeOK, Sessions
<1>3. TurnInv(r) /\ TurnInv(o)
    BY DEF ChatInv
<1>4. ASSUME NEW q \in Requests PROVE TurnInv(q)'
  <2>1. TurnInv(q)
    BY DEF ChatInv
  <2>2. PhaseInv(q)'
    BY <2>1 DEF CommitDelete, Go, Tell, TurnInv, PhaseInv
  <2>3. DraftInv(q)'
    BY <2>1 DEF CommitDelete, Go, TurnInv, DraftInv, Asking, Lost
  <2>4. SessionInv(q)'
    BY <1>3, <2>1 DEF CommitDelete, Go, TurnInv, SessionInv, PlaceInv, Asking, Began
  <2>5. PlaceInv(q)'
    <3>1. LockInv(q, r)
      BY DEF ChatInv
    <3> QED
      BY <3>1, <2>1 DEF LockInv, CommitDelete, Go, TurnInv, PlaceInv, Asking
  <2>6. RecordInv(q)'
    BY <1>1, <2>1 DEF CommitDelete, Go, Tell, TurnInv, RecordInv, Began, TypeOK
  <2> QED  BY <2>2, <2>3, <2>4, <2>5, <2>6 DEF TurnInv
<1>5. ASSUME NEW q \in Requests, NEW d \in Requests PROVE LockInv(q, d)'
  <2>1. TurnInv(q) /\ TurnInv(d) /\ LockInv(q, d) /\ LockInv(r, d) /\ LockInv(q, r)
    BY DEF ChatInv
  <2> QED  BY <2>1 DEF CommitDelete, Go, LockInv, Asking
<1> QED  BY <1>1, <1>4, <1>5 DEF ChatInv

-----------------------------------------------------------------------------

\* Every step of a request is one of those above.
LEMMA StepHolds ==
    ASSUME ChatInv, NEW r \in Requests, Step(r) \/ DbFailure(r) \/ Disconnect(r) \/ Collect(r)
    PROVE  ChatInv'
<1>1. TypeOK
    BY DEF ChatInv
<1>2. ASSUME NEW what \in Outcomes \ {"done"}, GiveUp(r, what), pc[r] \notin {"idle", "end"}
      PROVE  ChatInv'
    BY <1>2, GiveUpHolds
<1>3. CASE Resolve(r)
    BY <1>3, <1>2, PassResolveHolds DEF Resolve, Outcomes
<1>4. CASE AddQuestion(r)
    BY <1>4, <1>2, WriteQuestionHolds DEF AddQuestion, WriteQuestion, Outcomes
<1>5. CASE OpenStream(r)
    BY <1>5, OpenStreamHolds
<1>6. CASE Generate(r)
    BY <1>6, <1>2, PassGenerateHolds, EndStreamHolds DEF Generate, Outcomes
<1>7. CASE AddLostAnswer(r)
    BY <1>7, <1>2, WriteLostAnswerHolds DEF AddLostAnswer, WriteLostAnswer, Outcomes
<1>8. CASE AddAnswer(r)
    BY <1>8, AddAnswerHolds
<1>9. CASE Respond(r)
    BY <1>9, RespondHolds
<1>10. CASE CommitTurn(r)
    BY <1>10, CommitTurnHolds
<1>11. CASE Erase(r)
    BY <1>11, EraseHolds
<1>12. CASE CommitDelete(r)
    BY <1>12, CommitDeleteHolds
<1>13. CASE DbFailure(r)
  <2>1. PICK what \in Outcomes : what = (IF outcome[r] = "none" THEN "error" ELSE outcome[r])
    BY <1>1 DEF TypeOK, Outcomes
  <2>2. /\ GiveUp(r, what) /\ pc[r] \notin {"idle", "end"}
        /\ what = "done" => outcome[r] = "done"
    BY <2>1, <1>13 DEF DbFailure
  <2> QED  BY <2>2, GiveUpHolds
<1>14. CASE Disconnect(r)
    BY <1>14, <1>2, EndStreamHolds DEF Disconnect, Outcomes
<1>15. CASE Touch(r)
    BY <1>15, TouchHolds
<1>16. CASE Collect(r)
    BY <1>16, CollectHolds
<1> QED
    BY <1>3, <1>4, <1>5, <1>6, <1>7, <1>8, <1>9, <1>10, <1>11, <1>12, <1>13, <1>14, <1>15,
       <1>16
       DEF Step

\* The inductive step.
LEMMA NextHolds == ChatInv /\ [Next]_vars => ChatInv'
<1> SUFFICES ASSUME ChatInv, [Next]_vars PROVE ChatInv'
    OBVIOUS
<1>1. CASE UNCHANGED vars
    BY <1>1
       DEF vars, ChatInv, TypeOK, TurnInv, PhaseInv, DraftInv, SessionInv, PlaceInv,
           RecordInv, LockInv, Asking, Began, Lost
<1>2. ASSUME NEW r \in Requests, NEW k \in Turns, NEW s \in Sessions, Ask(r, k, s)
      PROVE  ChatInv'
    BY <1>2, AskHolds
<1>3. ASSUME NEW r \in Requests, NEW s \in Sessions, Delete(r, s)
      PROVE  ChatInv'
    BY <1>3, DeleteHolds
<1> QED
    BY <1>1, <1>2, <1>3, StepHolds DEF Next

\* Every reachable state satisfies the inductive invariant.
THEOREM ChatInvariant == Spec => []ChatInv
BY InitHolds, NextHolds, PTL DEF Spec

\* A stored message is the question or the answer of a turn.
LEMMA StoredPairs ==
    ASSUME TypeOK, NEW m \in stored
    PROVE  m[1] \in Requests /\ (m = <<m[1], "user">> \/ m = <<m[1], "assistant">>)
BY DEF TypeOK, Messages

\* Every stored message has its session.
LEMMA StoredIsKept == ChatInv => NoOrphans
BY StoredPairs DEF ChatInv, TurnInv, RecordInv, NoOrphans

\* The variables keep their types.
THEOREM ChatStateIsTyped == Spec => []TypeOK
BY ChatInvariant, PTL DEF ChatInv

\* No message outlives its session, whichever of a turn and a deletion comes first
\* (the cascade of chat_messages.session_id, db/models.py).
THEOREM MessagesHaveSessions == Spec => []NoOrphans
BY ChatInvariant, StoredIsKept, PTL

\* Question and answer of a turn are committed together or the question before the
\* answer, so a transcript never shows an answer alone (api/routers/chat.py).
THEOREM AnswersFollowQuestions == Spec => []AnswersHaveQuestions
<1>1. ChatInv => AnswersHaveQuestions
    BY DEF ChatInv, TurnInv, RecordInv, AnswersHaveQuestions
<1> QED  BY <1>1, ChatInvariant, PTL

\* A session id that a response or a first event named can be used for the next
\* turn, when the framework commits before it responds.
THEOREM AnnouncedSessionsExist == Spec => []KnownSessionsExist
<1>1. ChatInv => KnownSessionsExist
    BY DEF ChatInv, TypeOK, Sessions, TurnInv, SessionInv, KnownSessionsExist
<1> QED  BY <1>1, ChatInvariant, PTL

\* Both messages of a POST /chat that was answered are in the transcript until the
\* session is deleted, when the framework commits before it responds.
THEOREM FinishedChatsAreRecorded == Spec => []ChatsAreRecorded
<1>1. ChatInv => ChatsAreRecorded
    BY MessagePairs DEF ChatInv, TurnInv, RecordInv, ChatsAreRecorded
<1> QED  BY <1>1, ChatInvariant, PTL

\* No commit brings a deleted session back.
LEMMA GoneStaysGone ==
    ASSUME ChatInv, [Next]_vars, NEW s \in Sessions, sess[s] = "gone"
    PROVE  sess'[s] = "gone"
<1>1. s \in Requests /\ TurnInv(s) /\ TypeOK
    BY DEF ChatInv, Sessions
<1>2. ASSUME NEW r \in Requests, Publish(r), pc[r] \in {"open", "commit"}
      PROVE  sess'[s] = "gone"
  <2>1. of[r] = r => r # s
    BY <1>1, <1>2 DEF TurnInv, PhaseInv, SessionInv, Asking
  <2> QED  BY <2>1, <1>2 DEF Publish
<1>3. ASSUME NEW r \in Requests, OpenStream(r) PROVE sess'[s] = "gone"
    BY <1>3, <1>2 DEF OpenStream
<1>4. ASSUME NEW r \in Requests, CommitTurn(r) PROVE sess'[s] = "gone"
    BY <1>4, <1>2 DEF CommitTurn
<1>5. ASSUME NEW r \in Requests, CommitDelete(r) PROVE sess'[s] = "gone"
    BY <1>5 DEF CommitDelete
<1>6. CASE \A r \in Requests : ~(OpenStream(r) \/ CommitTurn(r) \/ CommitDelete(r))
  <2>1. UNCHANGED sess
    BY <1>6
       DEF Next, vars, Step, Ask, Delete, Resolve, AddQuestion, Generate, AddLostAnswer,
           AddAnswer, Touch, Collect, Respond, Erase, DbFailure, Disconnect, GiveUp,
           EndStream
  <2> QED  BY <2>1
<1> QED  BY <1>3, <1>4, <1>5, <1>6

\* After a DELETE of a session nothing is written to it again, not even by turns
\* that were waiting in it (api/routers/sessions.py).
THEOREM DeletionIsFinal == Spec => DeletedStaysDeleted
<1>1. ChatInv => NoOrphans
    BY StoredIsKept
<1>2. ASSUME ChatInv, NoOrphans', [Next]_vars, NEW s \in Sessions, sess[s] = "gone"
      PROVE  sess'[s] = "gone" /\ \A m \in stored' : of'[m[1]] # s
  <2>1. sess'[s] = "gone"
    BY <1>2, GoneStaysGone
  <2> QED  BY <2>1, <1>2 DEF NoOrphans
<1>3. ChatInv /\ NoOrphans' /\ [Next]_vars =>
          [\A s \in Sessions : sess[s] = "gone" =>
              sess'[s] = "gone" /\ \A m \in stored' : of'[m[1]] # s]_vars
    BY <1>2
<1> QED
    BY <1>1, <1>3, ChatInvariant, PTL DEF Spec, DeletedStaysDeleted
=============================================================================
