------------------------------ MODULE ChatTurns ------------------------------
(***************************************************************************)
(* Chat turns of one user (api/routers/chat.py) and the deletion of their  *)
(* sessions (api/routers/sessions.py).  A turn writes its question, waits  *)
(* for the model, writes the answer and commits; POST /chat answers at the *)
(* end, POST /chat/stream while the turn runs.                             *)
(*                                                                         *)
(* Where the transaction commits is the framework's choice: with           *)
(* `commitFirst` before the response goes out, for a stream that is before *)
(* its first event; without, after the response is complete.  The session  *)
(* object stays usable after that commit and opens another transaction,    *)
(* but nobody commits that one, nor rolls it back.                         *)
(*                                                                         *)
(* Until its transaction ends a message holds a key-share lock on its chat *)
(* session, so a DELETE of the session waits for open turns, and the       *)
(* UPDATE of `touch` holds a row lock, so turns wait for each other.       *)
(***************************************************************************)
EXTENDS Naturals, FiniteSets

CONSTANTS
    Requests,  \* calls of POST /chat, POST /chat/stream, DELETE /sessions/{id}
    Faults     \* kinds of failure: "db", "model", "disconnect"

ASSUME ChatAssumption == Faults \subseteq {"db", "model", "disconnect"}

\* A chat session is named after the turn that creates it.
Sessions == Requests

VARIABLES
    commitFirst,  \* the framework commits before the response goes out
    pc,           \* pc[r]: what request r does next
    kind,         \* kind[r]: "chat", "stream" or "delete"
    of,           \* of[r]: the session r is about
    outcome,      \* outcome[r]: what the client has been told of r
    told,         \* session ids the client has been given
    sess,         \* committed chat_sessions rows: "none", "stored", "gone"
    stored,       \* committed messages, as pairs of turn and role
    draft         \* messages of open transactions

vars == <<commitFirst, pc, kind, of, outcome, told, sess, stored, draft>>

Turns == {"chat", "stream"}

Messages == Requests \X {"user", "assistant"}

PCs == {"idle", "resolve", "ask", "open", "generate", "answer", "touch", "respond",
        "commit", "erase", "erased", "end"}

Outcomes == {"none", "done", "error", "missing", "deleted"}

TypeOK ==
    /\ commitFirst \in BOOLEAN
    /\ pc \in [Requests -> PCs]
    /\ kind \in [Requests -> Turns \cup {"delete"}]
    /\ of \in [Requests -> Sessions]
    /\ outcome \in [Requests -> Outcomes]
    /\ told \subseteq Sessions
    /\ sess \in [Sessions -> {"none", "stored", "gone"}]
    /\ stored \subseteq Messages
    /\ draft \subseteq Messages

Init ==
    /\ commitFirst \in BOOLEAN
    /\ pc = [r \in Requests |-> "idle"]
    /\ kind = [r \in Requests |-> "chat"]
    /\ of = [r \in Requests |-> r]
    /\ outcome = [r \in Requests |-> "none"]
    /\ told = {}
    /\ sess = [s \in Sessions |-> "none"]
    /\ stored = {}
    /\ draft = {}

MessagesOf(r) == {m \in Messages : m[1] = r}

Go(r, label) == pc' = [pc EXCEPT ![r] = label]

Tell(r, what) == outcome' = [outcome EXCEPT ![r] = what]

\* The turns that have a message in session s in an open transaction.
Holders(s) == {r \in Requests : of[r] = s /\ draft \cap MessagesOf(r) # {}}

\* Mutant of GiveUp: the session is neither rolled back nor closed.
GiveUpUnclosed(r, what) ==
    /\ Go(r, "end")
    /\ Tell(r, what)
    /\ UNCHANGED <<commitFirst, kind, of, told, sess, stored, draft>>

\* A request ends without what it wrote: 4xx, 500, or an event that says so.
GiveUp(r, what) ==
    /\ Go(r, "end")
    /\ Tell(r, what)
    /\ draft' = draft \ MessagesOf(r)
    /\ UNCHANGED <<commitFirst, kind, of, told, sess, stored>>

-----------------------------------------------------------------------------
(* A turn *)

\* The client asks, in a new session or in one it knows; the guard against
\* prompt injection has let the message pass.
Ask(r, k, s) ==
    /\ pc[r] = "idle"
    /\ s \in told \cup {r}
    /\ kind' = [kind EXCEPT ![r] = k]
    /\ of' = [of EXCEPT ![r] = s]
    /\ Go(r, "resolve")
    /\ UNCHANGED <<commitFirst, outcome, told, sess, stored, draft>>

\* _resolve_session: a session that is not there is 404.
Resolve(r) ==
    /\ pc[r] = "resolve"
    /\ \/ of[r] # r /\ sess[of[r]] # "stored" /\ GiveUp(r, "missing")
       \/ /\ of[r] = r \/ sess[of[r]] = "stored"
          /\ Go(r, "ask")
          /\ UNCHANGED <<commitFirst, kind, of, outcome, told, sess, stored, draft>>

Erasing(s) == \E d \in Requests : pc[d] = "erased" /\ of[d] = s

\* Mutant of AddQuestion: the foreign key on session_id is not enforced.
AddQuestionUnchecked(r) ==
    /\ pc[r] = "ask"
    /\ draft' = draft \cup {<<r, "user">>}
    /\ Go(r, IF kind[r] = "stream" THEN "open" ELSE "generate")
    /\ UNCHANGED <<commitFirst, kind, of, outcome, told, sess, stored>>

\* The question's INSERT waits for a DELETE of the session and then fails.
AddQuestion(r) ==
    /\ pc[r] = "ask"
    /\ ~Erasing(of[r])
    /\ \/ sess[of[r]] = "gone" /\ GiveUp(r, "error")
       \/ /\ sess[of[r]] # "gone"
          /\ draft' = draft \cup {<<r, "user">>}
          /\ Go(r, IF kind[r] = "stream" THEN "open" ELSE "generate")
          /\ UNCHANGED <<commitFirst, kind, of, outcome, told, sess, stored>>

Publish(r) ==
    /\ stored' = stored \cup (draft \cap MessagesOf(r))
    /\ draft' = draft \ MessagesOf(r)
    /\ sess' = IF of[r] = r THEN [sess EXCEPT ![r] = "stored"] ELSE sess

\* Mutant of OpenStream: the first event goes out before the commit.
OpenStreamUncommitted(r) ==
    /\ pc[r] = "open"
    /\ told' = told \cup {of[r]}
    /\ Go(r, "generate")
    /\ UNCHANGED <<commitFirst, kind, of, outcome, sess, stored, draft>>

\* The response of a stream starts, with an event that names the session: after
\* the commit of the question, or within its transaction.
OpenStream(r) ==
    /\ pc[r] = "open"
    /\ \/ commitFirst /\ Publish(r)
       \/ ~commitFirst /\ UNCHANGED <<sess, stored, draft>>
    /\ told' = told \cup {of[r]}
    /\ Go(r, "generate")
    /\ UNCHANGED <<commitFirst, kind, of, outcome>>

\* A stream ends with an event that says so, and the request with it.
EndStream(r) ==
    /\ Go(r, IF commitFirst THEN "end" ELSE "commit")
    /\ Tell(r, "error")
    /\ UNCHANGED <<commitFirst, kind, of, told, sess, stored, draft>>

\* Retrieval and generation.  What a chat or the retrieval of a stream raises
\* ends the request; a stream reports a failed generation as an event and ends
\* normally, so that the question is kept.
Generate(r) ==
    /\ pc[r] = "generate"
    /\ \/ /\ Go(r, "answer")
          /\ UNCHANGED <<commitFirst, kind, of, outcome, told, sess, stored, draft>>
       \/ "model" \in Faults /\ GiveUp(r, "error")
       \/ "model" \in Faults /\ kind[r] = "stream" /\ EndStream(r)

\* The transaction of a stream was committed at its start: what it writes later
\* goes to one that nothing commits.
Lost(r) == commitFirst /\ kind[r] = "stream"

\* The answer of such a stream.  Its INSERT waits for a DELETE of the session and
\* then fails.
AddLostAnswer(r) ==
    /\ pc[r] = "answer"
    /\ Lost(r)
    /\ ~Erasing(of[r])
    /\ \/ sess[of[r]] = "gone" /\ GiveUp(r, "error")
       \/ /\ sess[of[r]] # "gone"
          /\ draft' = draft \cup {<<r, "assistant">>}
          /\ Go(r, "touch")
          /\ UNCHANGED <<commitFirst, kind, of, outcome, told, sess, stored>>

\* Mutant of AddAnswer: the answer has a transaction of its own.
AddAnswerApart(r) ==
    /\ pc[r] = "answer"
    /\ ~Lost(r)
    /\ stored' = stored \cup {<<r, "assistant">>}
    /\ Go(r, "touch")
    /\ UNCHANGED <<commitFirst, kind, of, outcome, told, sess, draft>>

\* The answer, in the transaction of the question.
AddAnswer(r) ==
    /\ pc[r] = "answer"
    /\ ~Lost(r)
    /\ draft' = draft \cup {<<r, "assistant">>}
    /\ Go(r, "touch")
    /\ UNCHANGED <<commitFirst, kind, of, outcome, told, sess, stored>>

\* The turns that have updated session s in an open transaction.
Touching(s) == {q \in Requests : of[q] = s /\ <<q, "assistant">> \in draft /\ pc[q] # "touch"}

\* The UPDATE waits for that of any other turn in the session.  A stream then ends
\* with `done`; if its answer is lost, the transaction stays open behind it.
Touch(r) ==
    /\ pc[r] = "touch"
    /\ Touching(of[r]) = {}
    /\ IF kind[r] = "stream"
       THEN Go(r, IF commitFirst THEN "end" ELSE "commit") /\ Tell(r, "done")
       ELSE Go(r, IF commitFirst THEN "commit" ELSE "respond") /\ UNCHANGED outcome
    /\ UNCHANGED <<commitFirst, kind, of, told, sess, stored, draft>>

\* The garbage collector finds the session object of a stream that has ended, and
\* its connection is closed.
Collect(r) ==
    /\ pc[r] = "end" /\ draft \cap MessagesOf(r) # {}
    /\ draft' = draft \ MessagesOf(r)
    /\ UNCHANGED <<commitFirst, pc, kind, of, outcome, told, sess, stored>>

\* The JSON response of POST /chat, when it is sent before the commit.
Respond(r) ==
    /\ pc[r] = "respond"
    /\ Tell(r, "done")
    /\ told' = told \cup {of[r]}
    /\ Go(r, "commit")
    /\ UNCHANGED <<commitFirst, kind, of, sess, stored, draft>>

\* Mutant of CommitTurn: the commit leaves the answer out.
CommitQuestionOnly(r) ==
    /\ pc[r] = "commit"
    /\ stored' = stored \cup {<<r, "user">>}
    /\ draft' = draft \ MessagesOf(r)
    /\ sess' = IF of[r] = r THEN [sess EXCEPT ![r] = "stored"] ELSE sess
    /\ IF outcome[r] = "none" THEN Tell(r, "done") ELSE UNCHANGED outcome
    /\ told' = told \cup {of[r]}
    /\ Go(r, "end")
    /\ UNCHANGED <<commitFirst, kind, of>>

CommitTurn(r) ==
    /\ pc[r] = "commit"
    /\ Publish(r)
    /\ IF outcome[r] = "none" THEN Tell(r, "done") ELSE UNCHANGED outcome
    /\ told' = told \cup {of[r]}
    /\ Go(r, "end")
    /\ UNCHANGED <<commitFirst, kind, of>>

\* A statement or the commit fails and the transaction is rolled back.  That is also
\* how a deadlock ends: a DELETE that waits for the open turns is first in the queue
\* for the row, and the UPDATE of one of these turns queues behind it.  What the
\* client was told before stands.
DbFailure(r) ==
    /\ "db" \in Faults
    /\ pc[r] \notin {"idle", "end"}
    /\ GiveUp(r, IF outcome[r] = "none" THEN "error" ELSE outcome[r])

\* The client closes the stream: the generator is cancelled.  The response then
\* counts as complete, or a cancelled statement takes the transaction down; between
\* the answer's INSERT and its UPDATE no event is sent.
Disconnect(r) ==
    /\ "disconnect" \in Faults
    /\ kind[r] = "stream"
    /\ \/ pc[r] \in {"generate", "answer", "touch"} /\ GiveUp(r, "error")
       \/ pc[r] \in {"generate", "answer"} /\ EndStream(r)

-----------------------------------------------------------------------------
(* The deletion of a session *)

\* _owned_session, then DELETE.
Delete(d, s) ==
    /\ pc[d] = "idle" /\ s \in told
    /\ kind' = [kind EXCEPT ![d] = "delete"]
    /\ of' = [of EXCEPT ![d] = s]
    /\ IF sess[s] = "stored"
       THEN Go(d, "erase") /\ UNCHANGED outcome
       ELSE Go(d, "end") /\ Tell(d, "missing")
    /\ UNCHANGED <<commitFirst, told, sess, stored, draft>>

\* Mutant of Erase: the DELETE does not wait for the turns in the session.
EraseAtOnce(d) ==
    /\ pc[d] = "erase"
    /\ ~Erasing(of[d])
    /\ Go(d, "erased")
    /\ UNCHANGED <<commitFirst, kind, of, outcome, told, sess, stored, draft>>

\* The DELETE waits for every transaction that holds the row.
Erase(d) ==
    /\ pc[d] = "erase"
    /\ Holders(of[d]) = {} /\ ~Erasing(of[d])
    /\ Go(d, "erased")
    /\ UNCHANGED <<commitFirst, kind, of, outcome, told, sess, stored, draft>>

\* Its commit takes the session's messages along (ON DELETE CASCADE).
CommitDelete(d) ==
    /\ pc[d] = "erased"
    /\ sess' = [sess EXCEPT ![of[d]] = "gone"]
    /\ stored' = {m \in stored : of[m[1]] # of[d]}
    /\ Tell(d, "deleted")
    /\ Go(d, "end")
    /\ UNCHANGED <<commitFirst, kind, of, told, draft>>

-----------------------------------------------------------------------------

Step(r) ==
    \/ Resolve(r) \/ AddQuestion(r) \/ OpenStream(r) \/ Generate(r)
    \/ AddLostAnswer(r) \/ AddAnswer(r) \/ Touch(r) \/ Respond(r) \/ CommitTurn(r)
    \/ Erase(r) \/ CommitDelete(r)

Next ==
    \E r \in Requests :
        \/ \E k \in Turns, s \in Sessions : Ask(r, k, s)
        \/ \E s \in Sessions : Delete(r, s)
        \/ Step(r)
        \/ DbFailure(r)
        \/ Disconnect(r)
        \/ Collect(r)

Spec == Init /\ [][Next]_vars

\* The event loop keeps running every request, the model client has a timeout,
\* and PostgreSQL wakes whoever waits for a lock.  When the garbage collector runs,
\* nobody says.
FairSpec == Spec /\ \A r \in Requests : WF_vars(Step(r))

-----------------------------------------------------------------------------
(* Properties *)

\* No message outlives its session, whichever of a turn and a deletion of its
\* session comes first.
NoOrphans ==
    \A m \in stored : sess[of[m[1]]] = "stored"

\* Every answer in a transcript follows its question.
AnswersHaveQuestions ==
    \A r \in Requests : <<r, "assistant">> \in stored => <<r, "user">> \in stored

\* A session id the client holds is good for the next turn, when the framework
\* commits first; a request on it is refused only after a deletion.
KnownSessionsExist ==
    commitFirst => \A s \in told : sess[s] # "none"

\* A chat whose answer the client has got is in the transcript, both sides of
\* it, unless the session was deleted.
ChatsAreRecorded ==
    \A r \in Requests :
        commitFirst /\ kind[r] = "chat" /\ outcome[r] = "done" /\ sess[of[r]] # "gone" =>
            MessagesOf(r) \subseteq stored

\* A deleted session stays deleted and nothing is written to it again, not even
\* by the turns that were waiting in it.
DeletedStaysDeleted ==
    [][\A s \in Sessions : sess[s] = "gone" =>
          sess'[s] = "gone" /\ \A m \in stored' : of'[m[1]] # s]_vars

\* A streamed answer of session s was written after the commit, and the locks of its
\* transaction outlive the request.
Left(s) ==
    \E q \in Requests :
        Lost(q) /\ of[q] = s /\ pc[q] = "end" /\ <<q, "assistant">> \in draft

\* Every request ends: turns and deletions never wait for one another for ever,
\* whatever locks they hold while they wait.  The exception are sessions in which
\* the transaction of a lost answer is never collected.
RequestsEnd ==
    \A r \in Requests : (pc[r] # "idle" ~> pc[r] = "end") \/ <>[]Left(of[r])

\* GET /sessions/{id}/messages returns the "full transcript" (docs/API.md:144):
\* a turn that ended with `done` is in it.
TranscriptIsFull ==
    \A r \in Requests :
        pc[r] = "end" /\ outcome[r] = "done" /\ sess[of[r]] # "gone" =>
            MessagesOf(r) \subseteq stored

=============================================================================
