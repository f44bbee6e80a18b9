------------------------- MODULE SubscriptionsProofs -------------------------
(***************************************************************************)
(* Proofs about Subscriptions, for any users, ids, requests, bodies and    *)
(* caps: IndInv, one lemma per statement of a handler; then the properties *)
(* the runs check.  DomainProofs says what the domain operators return.    *)
(***************************************************************************)
EXTENDS Subscriptions, DomainProofs

-----------------------------------------------------------------------------
(* What the inductive invariant says of the table, and of one handler. *)
TableInv ==
    /\ DOMAIN subscriptions = Ids
    /\ issued \subseteq Ids
    /\ today \in 1 .. MaxDay
    /\ \A i \in Ids : subscriptions[i] # NoRow =>
          i \in issued /\ IsRow(subscriptions[i]) /\ Valid(subscriptions[i].sub)

HandlerInv(h) ==
    /\ IsHandler(h)
    /\ HidesForeign(h)
    /\ SaidGone(h) => ~Owns(h.chat, h.id)
    /\ Sound(h)

(* The invariant, split into the table and the handlers. *)
LEMMA IndInvParts ==
    IndInv <=> /\ TableInv
               /\ DOMAIN handler = Requests
               /\ \A r \in Requests : HandlerInv(handler[r])
  BY DEF IndInv, TypeOK, StoredRowsValid, ForeignLooksMissing, GoneIsFinal, HandlersSound,
         TableInv, HandlerInv

(* The table changes only as an owner may change it: ids stay handed out,  *)
(* and a row under such an id keeps its owner or goes.                     *)
Keeps ==
    /\ issued \subseteq issued'
    /\ \A i \in issued : \/ subscriptions'[i] = NoRow
                        \/ /\ subscriptions[i] # NoRow
                           /\ subscriptions'[i].user_chat_id = subscriptions[i].user_chat_id

(* A handler's part of the invariant survives such a step of others.       *)
LEMMA OtherHandlers ==
    ASSUME Keeps, NEW q \in Requests, HandlerInv(handler[q]), handler'[q] = handler[q]
    PROVE  HandlerInv(handler[q])'
  BY DEF Keeps, HandlerInv, IsHandler, HidesForeign, Owns, RowOfAnother, SaidGone, Sound

(* So a step of handler r is right when it is right about the table and r. *)
LEMMA OneHandlerStep ==
    ASSUME IndInv, NEW r \in Requests, NEW h, Become(r, h),
           Keeps, TableInv', HandlerInv(handler[r])'
    PROVE  IndInv'
<1>1. DOMAIN handler = Requests /\ TableInv /\ \A q \in Requests : HandlerInv(handler[q])
  BY IndInvParts
<1>2. DOMAIN handler' = Requests /\ \A q \in Requests \ {r} : handler'[q] = handler[q]
  BY <1>1 DEF Become
<1>3. ASSUME NEW q \in Requests
      PROVE  HandlerInv(handler[q])'
  <2>1. CASE q = r
    BY <2>1
  <2>2. CASE q # r
    BY <2>2, <1>1, <1>2, OtherHandlers
  <2> QED
    BY <2>1, <2>2
<1> QED
  BY <1>2, <1>3 DEF IndInv, TypeOK, StoredRowsValid, ForeignLooksMissing, GoneIsFinal,
        HandlersSound, TableInv, HandlerInv

(* A step that only changes handler r is right when r ends up right. *)
LEMMA HandlerOnlyStep ==
    ASSUME IndInv, NEW r \in Requests, NEW h, Become(r, h),
           UNCHANGED <<subscriptions, issued, today>>, HandlerInv(h)
    PROVE  IndInv'
<1>1. TableInv /\ DOMAIN handler = Requests
  BY IndInvParts
<1>2. TableInv' /\ Keeps
  BY <1>1 DEF TableInv, IsRow, Keeps
<1>3. handler'[r] = h
  BY <1>1 DEF Become
<1>4. HandlerInv(handler[r])'
  BY <1>3 DEF HandlerInv, IsHandler, HidesForeign, Owns, RowOfAnother, SaidGone, Sound
<1> QED
  BY <1>2, <1>4, OneHandlerStep

(* A handler may always answer 400 or 500, or 404 about a row the user     *)
(* does not own, and show nothing.                                         *)
LEMMA AnswerIsSound ==
    ASSUME NEW h, IsHandler(h), h.id \in Ids => h.id \in issued, NEW reply \in Replies, NEW shown,
           shown \subseteq Users \cap {h.chat},
           reply \in {"no_content", "not_found"} /\ h.id \in Ids => ~Owns(h.chat, h.id),
           \/ reply \in {"not_found", "bad_json", "error", "none"}
           \/ h.id \notin Ids
           \/ ~RowOfAnother(h.chat, h.id)
    PROVE  HandlerInv(Answered(h, reply, shown))
  BY SentinelsAssumption DEF HandlerInv, IsHandler, HidesForeign, SaidGone, Sound, Answered, Statements, Reading, Writing

-----------------------------------------------------------------------------
(* Receiving a request *)

(* A handler that has just received a request is sound. *)
LEMMA StartedIsSound ==
    ASSUME NEW pc \in Statements, NEW u \in Users, NEW i \in PathIds \cup {Null}, NEW b,
           IndInv,
           pc \in {"list", "get", "delete"} => b = Null,
           pc = "patch_read" => b \in PatchBodies \cup {BadJSON},
           pc = "insert" => b \in CreateBodies \cup {BadJSON} /\ i = Null,
           pc # "patch_write"
    PROVE  LET h == Started(pc, u, i, b)
           IN  /\ IsHandler(h)
               /\ h.id \in Ids => h.id \in issued
               /\ h.chat = u /\ h.id = i /\ h.body = b /\ h.sub = Null /\ h.pc = pc
               /\ h.reply = "none"
  BY SentinelsAssumption DEF IndInv, TypeOK, PathIds, Started, IsHandler, Statements, Reading,
        Writing, Replies

(* Receiving a GET of the list. *)
LEMMA ReceiveListInv ==
    ASSUME IndInv, NEW r \in Requests, NEW u \in Users, ReceiveList(r, u)
    PROVE  IndInv'
<1> DEFINE h == Started("list", u, Null, Null)
<1>1. HandlerInv(h)
  BY StartedIsSound, SentinelsAssumption
     DEF Statements, Reading, Writing, HandlerInv, HidesForeign, SaidGone, Sound
<1> QED
  BY <1>1, HandlerOnlyStep DEF ReceiveList

(* Receiving a GET of one subscription. *)
LEMMA ReceiveGetInv ==
    ASSUME IndInv, NEW r \in Requests, NEW u \in Users, NEW i \in PathIds, ReceiveGet(r, u, i)
    PROVE  IndInv'
<1> DEFINE h == Started("get", u, i, Null)
           next == IF i = MalformedId THEN Answered(h, "not_found", {}) ELSE h
<1>1. /\ IsHandler(h) /\ h.chat = u /\ h.id = i /\ h.reply = "none" /\ h.pc = "get"
      /\ h.id \in Ids => h.id \in issued
  BY StartedIsSound DEF Statements, Reading
<1>2. HandlerInv(next)
  <2> HIDE DEF h
  <2>1. CASE i = MalformedId
    BY <1>1, <2>1, AnswerIsSound, SentinelsAssumption DEF Replies
  <2>2. CASE i # MalformedId
    BY <1>1, <2>2 DEF PathIds, HandlerInv, HidesForeign, SaidGone, Sound, IndInv, TypeOK
  <2> QED
    BY <2>1, <2>2
<1> QED
  BY <1>2, HandlerOnlyStep DEF ReceiveGet

(* Receiving a DELETE. *)
LEMMA ReceiveDeleteInv ==
    ASSUME IndInv, NEW r \in Requests, NEW u \in Users, NEW i \in PathIds, ReceiveDelete(r, u, i)
    PROVE  IndInv'
<1> DEFINE h == Started("delete", u, i, Null)
           next == IF i = MalformedId THEN Answered(h, "not_found", {}) ELSE h
<1>1. /\ IsHandler(h) /\ h.chat = u /\ h.id = i /\ h.reply = "none" /\ h.pc = "delete"
      /\ h.id \in Ids => h.id \in issued
  BY StartedIsSound DEF Statements, Reading, Writing
<1>2. HandlerInv(next)
  <2> HIDE DEF h
  <2>1. CASE i = MalformedId
    BY <1>1, <2>1, AnswerIsSound, SentinelsAssumption DEF Replies
  <2>2. CASE i # MalformedId
    BY <1>1, <2>2 DEF PathIds, HandlerInv, HidesForeign, SaidGone, Sound, IndInv, TypeOK
  <2> QED
    BY <2>1, <2>2
<1> QED
  BY <1>2, HandlerOnlyStep DEF ReceiveDelete

(* Receiving a PATCH. *)
LEMMA ReceivePatchInv ==
    ASSUME IndInv, NEW r \in Requests, NEW u \in Users, NEW i \in PathIds,
           NEW b \in PatchBodies \cup {BadJSON}, ReceivePatch(r, u, i, b)
    PROVE  IndInv'
<1> DEFINE h == Started("patch_read", u, i, b)
           next == IF b = BadJSON THEN Answered(h, "bad_json", {})
                   ELSE IF i = MalformedId THEN Answered(h, "not_found", {}) ELSE h
<1>1. /\ IsHandler(h) /\ h.chat = u /\ h.id = i /\ h.body = b /\ h.reply = "none" /\ h.pc = "patch_read"
      /\ h.id \in Ids => h.id \in issued
  BY StartedIsSound DEF Statements, Reading
<1>2. HandlerInv(next)
  <2> HIDE DEF h
  <2>1. CASE b = BadJSON
    BY <1>1, <2>1, AnswerIsSound DEF Replies
  <2>2. CASE b # BadJSON /\ i = MalformedId
    BY <1>1, <2>2, AnswerIsSound, SentinelsAssumption DEF Replies
  <2>3. CASE b # BadJSON /\ i # MalformedId
    BY <1>1, <2>3 DEF PathIds, HandlerInv, HidesForeign, SaidGone, Sound, IndInv, TypeOK
  <2> QED
    BY <2>1, <2>2, <2>3
<1> QED
  BY <1>2, HandlerOnlyStep DEF ReceivePatch

(* Receiving a POST: what goes on to the INSERT is valid and active. *)
LEMMA ReceiveCreateInv ==
    ASSUME IndInv, NEW r \in Requests, NEW u \in Users,
           NEW b \in CreateBodies \cup {BadJSON}, ReceiveCreate(r, u, b)
    PROVE  IndInv'
<1> DEFINE h == Started("insert", u, Null, b)
           s == FromCreateBody(b)
           next == IF b = BadJSON THEN Answered(h, "bad_json", {})
                   ELSE IF Acceptable(s, TRUE) THEN [h EXCEPT !.sub = s]
                                               ELSE Answered(h, "invalid", {})
<1>1. /\ IsHandler(h) /\ h.chat = u /\ h.id = Null /\ h.body = b /\ h.reply = "none" /\ h.pc = "insert"
      /\ h.id \in Ids => h.id \in issued
  BY StartedIsSound DEF Statements, Reading, Writing
<1>2. HandlerInv(next)
  <2> HIDE DEF h, s
  <2>1. CASE b = BadJSON
    BY <1>1, <2>1, AnswerIsSound DEF Replies
  <2>2. CASE b # BadJSON /\ ~Acceptable(s, TRUE)
    BY <1>1, <2>2, AnswerIsSound, SentinelsAssumption DEF Replies
  <2>3. CASE b # BadJSON /\ Acceptable(s, TRUE)
    <3>1. IsSubscription(s) /\ s["status"] = "active"
      BY <2>3, BodiesAssumption, FromCreateBodyType DEF s
    <3> QED
      BY <1>1, <2>3, <3>1, SentinelsAssumption
         DEF HandlerInv, IsHandler, HidesForeign, SaidGone, Sound, Acceptable
  <2> QED
    BY <2>1, <2>2, <2>3
<1> QED
  BY <1>2, HandlerOnlyStep DEF ReceiveCreate

-----------------------------------------------------------------------------
(* Running a statement *)

(* The invariant at one handler. *)
LEMMA HandlerFacts ==
    ASSUME IndInv, NEW r \in Requests
    PROVE  /\ TableInv
           /\ DOMAIN handler = Requests
           /\ IsHandler(handler[r]) /\ Sound(handler[r])
           /\ handler[r].id \in Ids => handler[r].id \in issued
  BY IndInvParts DEF HandlerInv, Sound

(* SELECT of the list: it shows rows of the caller only. *)
LEMMA RunListInv ==
    ASSUME IndInv, NEW r \in Requests, RunList(r)
    PROVE  IndInv'
<1> DEFINE h == handler[r]
           shown == {subscriptions[i].user_chat_id : i \in ListedFor(h.chat)}
<1>1. shown \subseteq Users \cap {h.chat}
  BY HandlerFacts DEF ListedFor, Owns, TableInv, IsRow
<1>2. HandlerInv(Answered(h, "ok", shown))
  <2> HIDE DEF shown
  <2> QED
    BY <1>1, HandlerFacts, AnswerIsSound, SentinelsAssumption DEF Replies, RunList, Sound
<1> QED
  BY <1>2, HandlerOnlyStep DEF RunList, Answer

(* SELECT of one row. *)
LEMMA RunGetInv ==
    ASSUME IndInv, NEW r \in Requests, RunGet(r)
    PROVE  IndInv'
<1> DEFINE h == handler[r]
<1>1. CASE Owns(h.chat, h.id)
  <2>1. HandlerInv(Answered(h, "ok", {subscriptions[h.id].user_chat_id}))
    BY <1>1, HandlerFacts, AnswerIsSound
       DEF Replies, RunGet, Sound, Owns, RowOfAnother, TableInv, IsRow
  <2> QED
    BY <1>1, <2>1, HandlerOnlyStep DEF RunGet, Answer
<1>2. CASE ~Owns(h.chat, h.id)
  <2>1. HandlerInv(Answered(h, "not_found", {}))
    BY <1>2, HandlerFacts, AnswerIsSound DEF Replies
  <2> QED
    BY <1>2, <2>1, HandlerOnlyStep DEF RunGet, Answer
<1> QED
  BY <1>1, <1>2

(* SELECT of a PATCH: the copy it carries on is valid and has the keys of the body. *)
LEMMA RunPatchReadInv ==
    ASSUME IndInv, NEW r \in Requests, RunPatchRead(r)
    PROVE  IndInv'
<1> DEFINE h == handler[r]
           merged == MergePatch(subscriptions[h.id].sub, h.body)
           accepted == NullErrors(h.body) = {} /\ Acceptable(merged, FALSE)
<1>1. /\ IsHandler(h) /\ Sound(h) /\ TableInv /\ h.pc = "patch_read"
      /\ h.id \in Ids /\ h.id \in issued /\ h.chat \in Users /\ h.body \in PatchBodies
  BY HandlerFacts DEF RunPatchRead, Sound, Statements, Reading
<1>2. CASE ~Owns(h.chat, h.id)
  <2>1. HandlerInv(Answered(h, "not_found", {}))
    BY <1>1, <1>2, AnswerIsSound DEF Replies
  <2> QED
    BY <1>2, <2>1, HandlerOnlyStep DEF RunPatchRead, Answer
<1>3. CASE Owns(h.chat, h.id) /\ accepted
  <2> DEFINE next == [h EXCEPT !.pc = "patch_write", !.sub = merged]
  <2>1. IsSubscription(merged)
    BY <1>1, <1>3, MergePatchType, BodiesAssumption DEF Owns, TableInv, IsRow
  <2>2. Valid(merged)
    BY <1>3 DEF Acceptable
  <2>3. Carries(merged, h.body)
    BY <1>1, <1>3, BodiesAssumption DEF Carries, MergePatch, NullErrors, IsPatchBody
  <2>4. HandlerInv(next)
    <3> HIDE DEF merged, h
    <3> QED
      BY <1>1, <2>1, <2>2, <2>3
         DEF HandlerInv, IsHandler, HidesForeign, SaidGone, Sound, Statements, Writing
  <2> QED
    BY <1>3, <2>4, HandlerOnlyStep DEF RunPatchRead
<1>4. CASE Owns(h.chat, h.id) /\ ~accepted
  <2>1. HandlerInv(Answered(h, "invalid", {}))
    BY <1>1, <1>4, AnswerIsSound DEF Replies, Owns, RowOfAnother
  <2> QED
    BY <1>4, <2>1, HandlerOnlyStep DEF RunPatchRead, Answer
<1> QED
  BY <1>2, <1>3, <1>4

(* A failing statement. *)
LEMMA StatementFailsInv ==
    ASSUME IndInv, NEW r \in Requests, StatementFails(r)
    PROVE  IndInv'
<1>1. HandlerInv(Answered(handler[r], "error", {}))
  BY HandlerFacts, AnswerIsSound DEF Replies
<1> QED
  BY <1>1, HandlerOnlyStep DEF StatementFails, Answer

(* Removing an owned row, or replacing it by a valid subscription of the   *)
(* same owner, leaves the table sound and breaks no other handler's claim. *)
LEMMA OwnedRowWritten ==
    ASSUME TableInv, NEW u \in Users, NEW i \in Ids, Owns(u, i), UNCHANGED <<issued, today>>,
           NEW row, subscriptions' = [subscriptions EXCEPT ![i] = row],
           \/ row = NoRow
           \/ IsRow(row) /\ row.user_chat_id = u /\ Valid(row.sub)
    PROVE  TableInv' /\ Keeps
  BY DEF TableInv, Keeps, Owns, IsRow

(* UPDATE of a PATCH. *)
LEMMA RunPatchWriteInv ==
    ASSUME IndInv, NEW r \in Requests, NEW lost \in BOOLEAN, RunPatchWrite(r, lost)
    PROVE  IndInv'
<1> DEFINE h == handler[r]
           reply == IF lost THEN "error" ELSE "ok"
           shown == IF lost THEN {} ELSE {h.chat}
           next == Answered(h, reply, shown)
<1>1. /\ IsHandler(h) /\ Sound(h) /\ TableInv /\ h.pc = "patch_write" /\ DOMAIN handler = Requests
      /\ h.id \in Ids /\ h.id \in issued /\ h.chat \in Users
      /\ IsSubscription(h.sub) /\ Valid(h.sub)
  BY HandlerFacts DEF RunPatchWrite, Sound, Statements, Writing
<1>2. CASE Owns(h.chat, h.id)
  <2> DEFINE row == UpdatedRow(h)
  <2>1. /\ IsRow(row) /\ row.user_chat_id = h.chat /\ row.sub = h.sub
    BY <1>1, <1>2 DEF UpdatedRow, Owns, TableInv, IsRow
  <2>2. /\ subscriptions' = [subscriptions EXCEPT ![h.id] = row]
        /\ UNCHANGED <<issued, today>>
        /\ Become(r, next)
    BY <1>2 DEF RunPatchWrite, Answer
  <2>3. TableInv' /\ Keeps
    <3> HIDE DEF h, row
    <3> QED
      BY <1>1, <1>2, <2>1, <2>2, OwnedRowWritten
  <2>4. handler'[r] = next
    BY <1>1, <2>2 DEF Become
  <2>5. subscriptions'[h.id].user_chat_id = h.chat
    BY <1>1, <2>1, <2>2 DEF TableInv
  <2>6. HandlerInv(handler[r])'
    BY <1>1, <2>2, <2>4, <2>5
       DEF HandlerInv, IsHandler, HidesForeign, RowOfAnother, SaidGone, Sound, Answered, Replies,
           Statements, Reading, Writing
  <2> QED
    BY <2>2, <2>3, <2>6, OneHandlerStep
<1>3. CASE ~Owns(h.chat, h.id)
  <2>1. HandlerInv(Answered(h, "not_found", {}))
    BY <1>1, <1>3, AnswerIsSound DEF Replies
  <2> QED
    BY <1>3, <2>1, HandlerOnlyStep DEF RunPatchWrite, Answer
<1> QED
  BY <1>2, <1>3

(* DELETE. *)
LEMMA RunDeleteInv ==
    ASSUME IndInv, NEW r \in Requests, NEW lost \in BOOLEAN, RunDelete(r, lost)
    PROVE  IndInv'
<1> DEFINE h == handler[r]
           next == Answered(h, IF lost THEN "error" ELSE "no_content", {})
<1>1. /\ IsHandler(h) /\ Sound(h) /\ TableInv /\ h.pc = "delete" /\ DOMAIN handler = Requests
      /\ h.id \in Ids /\ h.id \in issued /\ h.chat \in Users
  BY HandlerFacts DEF RunDelete, Sound, Statements, Writing
<1>2. CASE Owns(h.chat, h.id)
  <2>1. /\ subscriptions' = [subscriptions EXCEPT ![h.id] = NoRow]
        /\ UNCHANGED <<issued, today>>
        /\ Become(r, next)
    BY <1>2 DEF RunDelete, Answer
  <2>2. TableInv' /\ Keeps
    <3> HIDE DEF h
    <3> QED
      BY <1>1, <1>2, <2>1, OwnedRowWritten
  <2>3. handler'[r] = next /\ subscriptions'[h.id] = NoRow
    BY <1>1, <2>1 DEF Become, TableInv
  <2>4. HandlerInv(handler[r])'
    BY <1>1, <2>1, <2>3
       DEF HandlerInv, IsHandler, HidesForeign, RowOfAnother, Owns, SaidGone, Sound, Answered,
           Replies, Statements, Reading, Writing
  <2> QED
    BY <2>1, <2>2, <2>4, OneHandlerStep
<1>3. CASE ~Owns(h.chat, h.id)
  <2>1. HandlerInv(Answered(h, "not_found", {}))
    BY <1>1, <1>3, AnswerIsSound DEF Replies
  <2> QED
    BY <1>3, <2>1, HandlerOnlyStep DEF RunDelete, Answer
<1> QED
  BY <1>2, <1>3

(* INSERT: the new id was never used, so no answered 404 or 204 is about it. *)
LEMMA RunInsertInv ==
    ASSUME IndInv, NEW r \in Requests, NEW lost \in BOOLEAN, RunInsert(r, lost)
    PROVE  IndInv'
<1> DEFINE h == handler[r]
           next == Answered(h, IF lost THEN "error" ELSE "created", IF lost THEN {} ELSE {h.chat})
<1>1. /\ IsHandler(h) /\ Sound(h) /\ TableInv /\ h.pc = "insert" /\ DOMAIN handler = Requests
      /\ h.id = Null /\ h.chat \in Users
      /\ IsSubscription(h.sub) /\ Valid(h.sub)
  BY HandlerFacts DEF RunInsert, Sound, Statements, Writing
<1>2. PICK i \in Ids \ issued :
        /\ subscriptions' = [subscriptions EXCEPT ![i] = Row(h.chat, h.sub)]
        /\ issued' = issued \cup {i}
  BY DEF RunInsert
<1>3. today' = today /\ Become(r, next)
  BY DEF RunInsert, Answer
<1>4. IsRow(Row(h.chat, h.sub)) /\ Row(h.chat, h.sub).sub = h.sub
  BY <1>1 DEF Row, IsRow
<1>5. TableInv' /\ Keeps
  <2> HIDE DEF h
  <2> QED
    BY <1>1, <1>2, <1>3, <1>4 DEF TableInv, Keeps
<1>6. handler'[r] = next
  BY <1>1, <1>3 DEF Become
<1>7. HandlerInv(handler[r])'
  BY <1>1, <1>6, SentinelsAssumption
     DEF HandlerInv, IsHandler, HidesForeign, SaidGone, Sound, Answered, Replies,
         Statements, Reading, Writing
<1> QED
  BY <1>3, <1>5, <1>7, OneHandlerStep

(* A restart of the process. *)
LEMMA RestartInv ==
    ASSUME IndInv, Restart
    PROVE  IndInv'
<1>1. TableInv' /\ DOMAIN handler' = Requests
  BY IndInvParts DEF Restart, TableInv, IsRow
<1>2. ASSUME NEW q \in Requests
      PROVE  HandlerInv(handler[q])'
  <2>1. HandlerInv(Answered(handler[q], "none", {})) /\ HandlerInv(handler[q])
    BY HandlerFacts, AnswerIsSound, IndInvParts DEF Replies
  <2>2. handler'[q] \in {Answered(handler[q], "none", {}), handler[q]}
    BY DEF Restart
  <2> QED
    BY <2>1, <2>2
       DEF Restart, HandlerInv, IsHandler, HidesForeign, Owns, RowOfAnother, SaidGone, Sound
<1> QED
  BY <1>1, <1>2 DEF IndInv, TypeOK, StoredRowsValid, ForeignLooksMissing, GoneIsFinal,
        HandlersSound, TableInv, HandlerInv

(* The date changes. *)
LEMMA MidnightInv ==
    ASSUME IndInv, Midnight
    PROVE  IndInv'
  BY MaxDayAssumption
     DEF Midnight, IndInv, TypeOK, StoredRowsValid, ForeignLooksMissing, GoneIsFinal, HandlersSound,
         HidesForeign, Owns, RowOfAnother, SaidGone, Sound

(* A stuttering step. *)
LEMMA StutterInv ==
    ASSUME IndInv, UNCHANGED vars
    PROVE  IndInv'
  BY DEF vars, IndInv, TypeOK, StoredRowsValid, ForeignLooksMissing, GoneIsFinal, HandlersSound,
         HidesForeign, Owns, RowOfAnother, SaidGone, Sound

(* The initial states satisfy the invariant. *)
LEMMA InitInv == Init => IndInv
<1> SUFFICES ASSUME Init PROVE IndInv
  OBVIOUS
<1>1. TableInv
  BY MaxDayAssumption DEF Init, TableInv
<1>2. ASSUME NEW r \in Requests
      PROVE  HandlerInv(handler[r])
  BY SentinelsAssumption
     DEF Init, Idle, Started, HandlerInv, IsHandler, HidesForeign, SaidGone, Sound,
         Statements, Reading, Writing, Replies
<1> QED
  BY <1>1, <1>2, IndInvParts DEF Init

(* Every step keeps the invariant. *)
LEMMA NextInv == IndInv /\ [Next]_vars => IndInv'
<1> SUFFICES ASSUME IndInv, [Next]_vars PROVE IndInv'
  OBVIOUS
<1>1. ASSUME NEW r \in Requests, Receive(r)
      PROVE  IndInv'
  BY <1>1, ReceiveListInv, ReceiveGetInv, ReceiveDeleteInv, ReceivePatchInv, ReceiveCreateInv
     DEF Receive
<1>2. ASSUME NEW r \in Requests, Run(r)
      PROVE  IndInv'
  BY <1>2, RunListInv, RunGetInv, RunPatchReadInv, RunInsertInv, RunPatchWriteInv, RunDeleteInv,
     StatementFailsInv DEF Run
<1> QED
  BY <1>1, <1>2, RestartInv, MidnightInv, StutterInv DEF Next

(* The inductive invariant holds in every reachable state. *)
THEOREM Invariance == Spec => []IndInv
  BY InitInv, NextInv, PTL DEF Spec

-----------------------------------------------------------------------------
(* What users can rely on *)

(* Type correctness, for any number of users, requests in flight and ids,  *)
(* and any bodies.                                                         *)
THEOREM TypeCorrect == Spec => []TypeOK
<1>1. IndInv => TypeOK
  BY DEF IndInv
<1> QED
  BY <1>1, Invariance, PTL

(* No interleaving of handlers stores an invalid row. *)
THEOREM RowsStayValid == Spec => []StoredRowsValid
<1>1. IndInv => StoredRowsValid
  BY DEF IndInv
<1> QED
  BY <1>1, Invariance, PTL

(* The API is no oracle for the rows of others. *)
THEOREM ForeignRowsHidden == Spec => []ForeignLooksMissing
<1>1. IndInv => ForeignLooksMissing
  BY DEF IndInv
<1> QED
  BY <1>1, Invariance, PTL

(* A 204 to DELETE and a 404 are final. *)
THEOREM GoneStaysGone == Spec => []GoneIsFinal
<1>1. IndInv => GoneIsFinal
  BY DEF IndInv
<1> QED
  BY <1>1, Invariance, PTL

(* A step of one handler, whatever it does, moves no other handler. *)
LEMMA OneHandlerMoves ==
    ASSUME IndInv, NEW q \in Requests, Receive(q) \/ Run(q)
    PROVE  \E h : Become(q, h)
<1>1. CASE Receive(q)
  BY <1>1 DEF Receive, ReceiveList, ReceiveCreate, ReceiveGet, ReceiveDelete, ReceivePatch
<1>2. CASE Run(q)
  BY <1>2 DEF Run, RunList, RunGet, RunPatchRead, RunInsert, RunPatchWrite, RunDelete,
        StatementFails, Answer
<1> QED
  BY <1>1, <1>2

(* So a request in flight is answered by its own handler only. *)
LEMMA WhoAnswers ==
    ASSUME IndInv, Next, NEW r \in Requests, handler[r].pc \in Statements,
           handler'[r].reply # "none"
    PROVE  Run(r)
<1>1. DOMAIN handler = Requests /\ handler[r].reply = "none"
  BY HandlerFacts DEF Sound
<1>2. ASSUME NEW q \in Requests, Receive(q) \/ Run(q), q # r
      PROVE  FALSE
  BY <1>1, <1>2, OneHandlerMoves DEF Become
<1>3. ~Receive(r)
  BY DEF Receive, ReceiveList, ReceiveCreate, ReceiveGet, ReceiveDelete, ReceivePatch, Free,
         Statements, Reading, Writing
<1>4. ~Restart /\ ~Midnight
  BY <1>1, HandlerFacts DEF Restart, Midnight, Answered, IsHandler
<1> QED
  BY <1>2, <1>3, <1>4 DEF Next

(* A change of status or mute keeps a valid subscription valid. *)
LEMMA LifecyclePatchKeepsValid ==
    ASSUME NEW s, Valid(s), NEW b, LifecyclePatch(b)
    PROVE  NullErrors(b) = {} /\ Valid(MergePatch(s, b))
<1> DEFINE m == MergePatch(s, b)
<1>1. Null \notin Statuses
  BY NullAssumption, StringsAssumption DEF Statuses
<1>2. NullErrors(b) = {}
  BY <1>1 DEF LifecyclePatch, NullErrors, RequiredFields
<1>3. \A f \in Fields \ {"status", "muted_until"} : m[f] = s[f]
  BY DEF MergePatch, LifecyclePatch
<1>4. s["status"] \in Statuses
  BY DEF Valid, Validate, Broken, Fields, RequiredFields
<1>5. m["status"] \in Statuses
  <2>1. CASE "status" \in DOMAIN b
    <3>1. m["status"] = Decoded("status", b["status"])
      BY <1>1, <1>2, <2>1 DEF MergePatch, LifecyclePatch, Fields, RequiredFields
    <3> QED
      BY <2>1, <3>1 DEF Decoded, ListFields, LifecyclePatch
  <2>2. CASE "status" \notin DOMAIN b
    BY <1>4, <2>2 DEF MergePatch, Fields, RequiredFields
  <2> QED
    BY <2>1, <2>2
<1>6. ASSUME NEW f \in Fields, Broken(m, f)
      PROVE  Broken(s, f)
  <2> HIDE DEF m
  <2> QED
    BY <1>3, <1>5, <1>6
       DEF Broken, Fields, RequiredFields, ListFields, NullableFields,
           OriginAlternativesBroken, DestinationsBroken, DateFromBroken, DateToBroken,
           ReturnDateFromBroken, ReturnDateToBroken, ReturnWindowHalfGiven, ReturnWindowGiven,
           TripLengthMinBroken, TripLengthMaxBroken, MaxPriceBroken, BlacklistBroken
<1> QED
  BY <1>2, <1>6 DEF Valid, Validate

(* Pause, resume, archive, mute and unmute always pass validation. *)
THEOREM LifecyclePatchesAccepted == Spec => LifecyclePatchNeverInvalid
<1>1. ASSUME IndInv, Next, NEW r \in Requests,
             handler[r].pc = "patch_read", LifecyclePatch(handler[r].body)
      PROVE  handler'[r].reply # "invalid"
  <2> SUFFICES ASSUME handler'[r].reply = "invalid" PROVE FALSE
    OBVIOUS
  <2>1. Run(r)
    BY <1>1, WhoAnswers DEF Statements, Reading
  <2>2. RunPatchRead(r) \/ StatementFails(r)
    BY <1>1, <2>1 DEF Run, RunList, RunGet, RunInsert, RunPatchWrite, RunDelete
  <2>3. /\ DOMAIN handler = Requests /\ IsHandler(handler[r]) /\ TableInv
        /\ handler[r].id \in Ids /\ handler[r].reply = "none"
    BY <1>1, HandlerFacts DEF Sound, Statements, Reading
  <2>4. CASE StatementFails(r)
    BY <2>3, <2>4 DEF StatementFails, Answer, Become, Answered, IsHandler
  <2>5. CASE RunPatchRead(r)
    <3>1. Owns(handler[r].chat, handler[r].id) => Valid(subscriptions[handler[r].id].sub)
      BY <2>3 DEF Owns, TableInv
    <3> QED
      BY <1>1, <2>3, <2>5, <3>1, LifecyclePatchKeepsValid
         DEF RunPatchRead, Acceptable, Answer, Become, Answered, IsHandler
  <2> QED
    BY <2>2, <2>4, <2>5
<1>2. IndInv /\ [Next]_vars => [\A r \in Requests :
          handler[r].pc = "patch_read" /\ LifecyclePatch(handler[r].body) =>
              handler'[r].reply # "invalid"]_vars
  BY <1>1
<1> QED
  BY <1>2, Invariance, PTL DEF Spec, LifecyclePatchNeverInvalid

(* A PATCH that is refused is refused for what it asks: it clears a field  *)
(* that must not be empty, or every complaint about the merged row looks   *)
(* at one of its keys.  No other handler can make the row one that refuses *)
(* an unrelated change.                                                    *)
THEOREM RefusalsAreTheBodys == Spec => [][
    \A r \in Requests :
        LET body == handler[r].body
            merged == MergePatch(subscriptions[handler[r].id].sub, body)
        IN  handler[r].pc = "patch_read" /\ handler'[r].reply = "invalid" =>
                \/ NullErrors(body) # {}
                \/ /\ Validate(merged) # {}
                   /\ \A f \in Validate(merged) : LooksAt(f) \cap DOMAIN body # {}]_vars
<1> DEFINE Caused(r) ==
        LET body == handler[r].body
            merged == MergePatch(subscriptions[handler[r].id].sub, body)
        IN  handler[r].pc = "patch_read" /\ handler'[r].reply = "invalid" =>
                \/ NullErrors(body) # {}
                \/ /\ Validate(merged) # {}
                   /\ \A f \in Validate(merged) : LooksAt(f) \cap DOMAIN body # {}
<1>1. ASSUME IndInv, Next, NEW r \in Requests
      PROVE  Caused(r)
  <2> SUFFICES ASSUME handler[r].pc = "patch_read", handler'[r].reply = "invalid",
                      NullErrors(handler[r].body) = {}
               PROVE  LET body == handler[r].body
                          merged == MergePatch(subscriptions[handler[r].id].sub, body)
                      IN  /\ Validate(merged) # {}
                          /\ \A f \in Validate(merged) : LooksAt(f) \cap DOMAIN body # {}
    OBVIOUS
  <2>1. Run(r)
    BY <1>1, WhoAnswers DEF Statements, Reading
  <2>2. /\ DOMAIN handler = Requests /\ IsHandler(handler[r]) /\ TableInv
        /\ handler[r].id \in Ids /\ handler[r].reply = "none"
    BY <1>1, HandlerFacts DEF Sound, Statements, Reading
  <2>3. ~StatementFails(r)
    BY <2>2 DEF StatementFails, Answer, Become, Answered, IsHandler
  <2>4. RunPatchRead(r)
    BY <2>1, <2>3 DEF Run, RunList, RunGet, RunInsert, RunPatchWrite, RunDelete
  <2>5. Owns(handler[r].chat, handler[r].id)
    BY <2>2, <2>4 DEF RunPatchRead, Answer, Become, Answered, IsHandler
  <2>6. Valid(subscriptions[handler[r].id].sub)
    BY <2>2, <2>5 DEF Owns, TableInv
  <2> DEFINE merged == MergePatch(subscriptions[handler[r].id].sub, handler[r].body)
  <2>7. ~Acceptable(merged, FALSE)
    BY <2>2, <2>4, <2>5 DEF RunPatchRead, Become, IsHandler
  <2>8. Validate(merged) # {}
    BY <2>7 DEF Acceptable, Valid
  <2> QED
    BY <2>6, <2>8, PatchBreaksOnlyItsOwn
<1>2. IndInv /\ [Next]_vars => [\A r \in Requests : Caused(r)]_vars
  BY <1>1
<1> QED
  BY <1>2, Invariance, PTL DEF Spec

(* Only the three writing statements change the table. *)
LEMMA TableWriters ==
    ASSUME [Next]_vars
    PROVE  \/ UNCHANGED <<subscriptions, issued>>
           \/ \E r \in Requests, lost \in BOOLEAN :
                 RunInsert(r, lost) \/ RunPatchWrite(r, lost) \/ RunDelete(r, lost)
<1>1. ASSUME NEW r \in Requests, Receive(r)
      PROVE  UNCHANGED <<subscriptions, issued>>
  BY <1>1 DEF Receive, ReceiveList, ReceiveCreate, ReceiveGet, ReceiveDelete, ReceivePatch
<1>2. ASSUME NEW r \in Requests, Run(r)
      PROVE  \/ UNCHANGED <<subscriptions, issued>>
             \/ \E lost \in BOOLEAN :
                   RunInsert(r, lost) \/ RunPatchWrite(r, lost) \/ RunDelete(r, lost)
  <2>1. CASE RunList(r) \/ RunGet(r) \/ RunPatchRead(r) \/ StatementFails(r)
    BY <2>1 DEF RunList, RunGet, RunPatchRead, StatementFails
  <2> QED
    BY <1>2, <2>1 DEF Run
<1>3. CASE Restart \/ Midnight
  BY <1>3 DEF Restart, Midnight
<1>4. CASE UNCHANGED vars
  BY <1>4 DEF vars
<1> QED
  BY <1>1, <1>2, <1>3, <1>4 DEF Next

(* A handler that has run a writing statement has answered. *)
LEMMA WriterIsDone ==
    ASSUME IndInv, NEW r \in Requests, NEW lost \in BOOLEAN,
           RunInsert(r, lost) \/ RunPatchWrite(r, lost) \/ RunDelete(r, lost)
    PROVE  handler[r].pc \in Writing /\ handler'[r].pc = "done"
<1>1. DOMAIN handler = Requests /\ IsHandler(handler[r])
  BY HandlerFacts
<1>2. handler[r].pc \in Writing
  BY DEF RunInsert, RunPatchWrite, RunDelete, Writing
<1>3. \E reply, shown : Answer(r, reply, shown)
  BY DEF RunInsert, RunPatchWrite, RunDelete
<1>4. handler'[r].pc = "done"
  BY <1>1, <1>3 DEF Answer, Become, Answered, IsHandler
<1> QED
  BY <1>2, <1>4

(* Nobody but the owner's own requests touches a row. *)
THEOREM OwnersWrite == Spec => OnlyOwnerWrites
<1> DEFINE OwnerStep(r, i) ==
        /\ handler[r].pc \in Writing /\ handler'[r].pc = "done"
        /\ \/ subscriptions[i] = NoRow /\ subscriptions'[i].user_chat_id = handler[r].chat
           \/ Owns(handler[r].chat, i) /\ handler[r].id = i
<1>1. ASSUME IndInv, [Next]_vars, NEW i \in Ids, subscriptions'[i] # subscriptions[i]
      PROVE  \E r \in Requests : OwnerStep(r, i)
  <2>1. TableInv
    BY <1>1, IndInvParts
  <2>2. PICK r \in Requests, lost \in BOOLEAN :
            RunInsert(r, lost) \/ RunPatchWrite(r, lost) \/ RunDelete(r, lost)
    BY <1>1, TableWriters
  <2>3. handler[r].pc \in Writing /\ handler'[r].pc = "done"
    BY <1>1, <2>2, WriterIsDone
  <2>4. CASE RunInsert(r, lost)
    BY <1>1, <2>1, <2>3, <2>4 DEF RunInsert, TableInv, Row
  <2>5. CASE RunPatchWrite(r, lost) \/ RunDelete(r, lost)
    BY <1>1, <2>1, <2>3, <2>5 DEF RunPatchWrite, RunDelete, TableInv
  <2> QED
    BY <2>2, <2>4, <2>5
<1>2. IndInv /\ [Next]_vars =>
        [\A i \in Ids : subscriptions'[i] # subscriptions[i] =>
            \E r \in Requests : OwnerStep(r, i)]_vars
  BY <1>1
<1> QED
  BY <1>2, Invariance, PTL DEF Spec, OnlyOwnerWrites

(* A PATCH answered 200 has written its copy to a row of its user. *)
LEMMA OkMeansWritten ==
    ASSUME IndInv, Next, NEW r \in Requests,
           handler[r].pc = "patch_write", handler'[r].reply = "ok"
    PROVE  /\ Owns(handler[r].chat, handler[r].id)
           /\ subscriptions'[handler[r].id].sub = handler[r].sub
<1>1. /\ DOMAIN handler = Requests /\ IsHandler(handler[r]) /\ TableInv
      /\ handler[r].id \in Ids
  BY HandlerFacts DEF Sound
<1>2. Run(r)
  BY WhoAnswers DEF Statements, Writing
<1>3. PICK lost \in BOOLEAN : RunPatchWrite(r, lost)
  BY <1>1, <1>2
     DEF Run, RunList, RunGet, RunInsert, RunPatchRead, RunDelete, StatementFails, Answer,
         Become, Answered, IsHandler
<1>4. Owns(handler[r].chat, handler[r].id)
  BY <1>1, <1>3 DEF RunPatchWrite, Answer, Become, Answered, IsHandler
<1>5. subscriptions'[handler[r].id].sub = handler[r].sub
  BY <1>1, <1>3, <1>4 DEF RunPatchWrite, UpdatedRow, TableInv, IsRow, Owns
<1> QED
  BY <1>4, <1>5

(* A PATCH answered 200 stored what its body says. *)
THEOREM PatchesLand == Spec => NamedKeysLand
<1>1. ASSUME IndInv, Next, NEW r \in Requests,
             handler[r].pc = "patch_write", handler'[r].reply = "ok"
      PROVE  Carries(subscriptions'[handler[r].id].sub, handler[r].body)
  BY <1>1, OkMeansWritten, HandlerFacts DEF Sound
<1>2. IndInv /\ [Next]_vars => [\A r \in Requests :
          (handler[r].pc = "patch_write" /\ handler'[r].reply = "ok") =>
              Carries(subscriptions'[handler[r].id].sub, handler[r].body)]_vars
  BY <1>1
<1> QED
  BY <1>2, Invariance, PTL DEF Spec, NamedKeysLand

(* A handler is on the way from its SELECT to its UPDATE only because it   *)
(* was, or because it has just run its SELECT.                             *)
LEMMA WhoPatches ==
    ASSUME IndInv, [Next]_vars, NEW r \in Requests, handler'[r].pc = "patch_write"
    PROVE  handler'[r] = handler[r] \/ RunPatchRead(r)
<1>1. DOMAIN handler = Requests /\ IsHandler(handler[r])
  BY HandlerFacts
<1>2. ASSUME NEW q \in Requests, Receive(q) \/ Run(q), q # r
      PROVE  handler'[r] = handler[r]
  BY <1>1, <1>2, OneHandlerMoves DEF Become
<1>3. ASSUME Receive(r)
      PROVE  FALSE
  <2>1. PICK u \in Users :
            \/ ReceiveList(r, u)
            \/ \E b \in CreateBodies \cup {BadJSON} : ReceiveCreate(r, u, b)
            \/ \E i \in PathIds :
                  \/ ReceiveGet(r, u, i)
                  \/ ReceiveDelete(r, u, i)
                  \/ \E b \in PatchBodies \cup {BadJSON} : ReceivePatch(r, u, i, b)
    BY <1>3 DEF Receive
  <2>2. ASSUME NEW pc, NEW i, NEW b, pc # "patch_write", NEW h,
               \/ h = Started(pc, u, i, b)
               \/ \E reply : h = Answered(Started(pc, u, i, b), reply, {})
               \/ \E s : h = [Started(pc, u, i, b) EXCEPT !.sub = s],
               Become(r, h)
        PROVE  FALSE
    <3> DEFINE started == Started(pc, u, i, b)
    <3>1. /\ started.pc = pc
          /\ \A reply : Answered(started, reply, {}).pc = "done"
          /\ \A s : [started EXCEPT !.sub = s].pc = pc
      BY DEF Started, Answered
    <3> HIDE DEF started
    <3>2. h.pc # "patch_write"
      BY <2>2, <3>1 DEF started
    <3> QED
      BY <1>1, <2>2, <3>2 DEF Become
  <2>3. CASE ReceiveList(r, u)
    BY <2>2, <2>3 DEF ReceiveList
  <2>4. ASSUME NEW b, ReceiveCreate(r, u, b)
        PROVE  FALSE
    <3> DEFINE started == Started("insert", u, Null, b)
               s == FromCreateBody(b)
    <3>1. PICK h : /\ Become(r, h)
                   /\ h \in {started, Answered(started, "bad_json", {}),
                             Answered(started, "invalid", {}), [started EXCEPT !.sub = s]}
      BY <2>4 DEF ReceiveCreate
    <3> HIDE DEF s
    <3> QED
      BY <2>2, <3>1
  <2>5. ASSUME NEW i, ReceiveGet(r, u, i)
        PROVE  FALSE
    BY <2>2, <2>5 DEF ReceiveGet
  <2>6. ASSUME NEW i, ReceiveDelete(r, u, i)
        PROVE  FALSE
    BY <2>2, <2>6 DEF ReceiveDelete
  <2>7. ASSUME NEW i, NEW b, ReceivePatch(r, u, i, b)
        PROVE  FALSE
    BY <2>2, <2>7 DEF ReceivePatch
  <2> QED
    BY <2>1, <2>3, <2>4, <2>5, <2>6, <2>7
<1>4. ASSUME Run(r), ~RunPatchRead(r)
      PROVE  FALSE
  <2>1. \E reply, shown : Answer(r, reply, shown)
    BY <1>4 DEF Run, RunList, RunGet, RunInsert, RunPatchWrite, RunDelete, StatementFails
  <2> QED
    BY <1>1, <2>1 DEF Answer, Become, Answered, IsHandler
<1>5. CASE Restart
  BY <1>1, <1>5 DEF Restart, Answered, IsHandler
<1>6. CASE Midnight \/ UNCHANGED vars
  BY <1>6 DEF Midnight, vars
<1> QED
  BY <1>2, <1>3, <1>4, <1>5, <1>6 DEF Next

(* The copy a PATCH is about to write agrees with the row wherever the     *)
(* body is silent.                                                         *)
Current(r) ==
    handler[r].pc = "patch_write" /\ Owns(handler[r].chat, handler[r].id) =>
        \A f \in Fields \ DOMAIN handler[r].body :
            subscriptions[handler[r].id].sub[f] = handler[r].sub[f]

(* A copy goes stale in one way only: another PATCH of the same row writes *)
(* between this one's SELECT and its UPDATE.                               *)
LEMMA WhatMakesStale ==
    ASSUME IndInv, [Next]_vars, NEW r \in Requests, Current(r), ~Current(r)'
    PROVE  \E q \in Requests \ {r} : \E lost \in BOOLEAN :
              /\ RunPatchWrite(q, lost) /\ handler[q].pc = "patch_write"
              /\ handler[r].pc = "patch_write" /\ handler[q].id = handler[r].id
<1>1. TableInv /\ handler'[r].pc = "patch_write" /\ Owns(handler[r].chat, handler[r].id)'
  BY IndInvParts DEF Current
<1>2. ~RunPatchRead(r)
  <2> SUFFICES ASSUME RunPatchRead(r)
               PROVE  FALSE
    OBVIOUS
  <2>1. DOMAIN handler = Requests /\ IsHandler(handler[r])
    BY HandlerFacts
  <2>2. ~\E reply, shown : Answer(r, reply, shown)
    BY <1>1, <2>1 DEF Answer, Become, Answered, IsHandler
  <2>3. /\ subscriptions' = subscriptions
        /\ handler' = [handler EXCEPT ![r] =
              [handler[r] EXCEPT !.pc = "patch_write",
                 !.sub = MergePatch(subscriptions[handler[r].id].sub, handler[r].body)]]
    BY <2>2 DEF RunPatchRead, Become
  <2>4. /\ handler'[r].id = handler[r].id /\ handler'[r].body = handler[r].body
        /\ handler'[r].sub = MergePatch(subscriptions[handler[r].id].sub, handler[r].body)
    BY <2>1, <2>3 DEF IsHandler
  <2>5. \A f \in Fields \ DOMAIN handler[r].body :
            handler'[r].sub[f] = subscriptions[handler[r].id].sub[f]
    BY <2>4 DEF MergePatch
  <2>6. Current(r)'
    BY <2>3, <2>4, <2>5 DEF Current
  <2> QED
    BY <2>6
<1>3. handler'[r] = handler[r]
  BY <1>1, <1>2, WhoPatches
<1>4. handler[r].id \in Ids /\ handler[r].id \in issued
  BY <1>1, <1>3, HandlerFacts DEF Sound
<1>5. subscriptions'[handler[r].id] # subscriptions[handler[r].id]
  BY <1>1, <1>3 DEF Current, Owns
<1>6. PICK q \in Requests, lost \in BOOLEAN :
          RunInsert(q, lost) \/ RunPatchWrite(q, lost) \/ RunDelete(q, lost)
  BY <1>5, TableWriters
<1>7. q # r
  BY <1>1, <1>6, WriterIsDone
<1>8. ~RunInsert(q, lost)
  BY <1>1, <1>4, <1>5 DEF RunInsert, TableInv
<1>9. ~RunDelete(q, lost)
  BY <1>1, <1>3, <1>4, <1>5 DEF RunDelete, TableInv, Owns
<1>10. RunPatchWrite(q, lost) => handler[q].id = handler[r].id /\ handler[q].pc = "patch_write"
  BY <1>1, <1>4, <1>5 DEF RunPatchWrite, TableInv
<1> QED
  BY <1>1, <1>3, <1>6, <1>7, <1>8, <1>9, <1>10

(* An UPDATE whose copy is current leaves alone what its body is silent on. *)
LEMMA CurrentCopyLosesNothing ==
    ASSUME IndInv, Next, NEW r \in Requests, Current(r),
           handler[r].pc = "patch_write", handler'[r].reply = "ok"
    PROVE  \A f \in Fields \ DOMAIN handler[r].body :
              subscriptions'[handler[r].id].sub[f] = subscriptions[handler[r].id].sub[f]
<1>1. Owns(handler[r].chat, handler[r].id) /\ subscriptions'[handler[r].id].sub = handler[r].sub
  BY OkMeansWritten
<1> QED
  BY <1>1 DEF Current

(* No two PATCHes of one row are between their SELECT and their UPDATE. *)
NoOverlap ==
    \A r, q \in Requests :
        /\ handler[r].pc = "patch_write" /\ handler[q].pc = "patch_write"
        /\ handler[r].id = handler[q].id
        => r = q

(* The lost update is the only way to break the documented contract:       *)
(* "absent key = leave untouched" holds of PATCHes that do not overlap on  *)
(* a row, whatever else reads, deletes, fails or restarts meanwhile.       *)
THEOREM LostUpdatesNeedOverlap == Spec /\ []NoOverlap => AbsentKeysUntouched
<1> DEFINE AllCurrent == \A r \in Requests : Current(r)
<1>1. Init => AllCurrent
  BY DEF Init, Idle, Started, Current
<1>2. IndInv /\ NoOverlap /\ AllCurrent /\ [Next]_vars => AllCurrent'
  BY WhatMakesStale DEF NoOverlap
<1>3. IndInv /\ AllCurrent /\ [Next]_vars => [\A r \in Requests :
          (handler[r].pc = "patch_write" /\ handler'[r].reply = "ok") =>
              \A f \in Fields \ DOMAIN handler[r].body :
                  subscriptions'[handler[r].id].sub[f] = subscriptions[handler[r].id].sub[f]]_vars
  BY CurrentCopyLosesNothing
<1> QED
  BY <1>1, <1>2, <1>3, Invariance, PTL DEF Spec, AbsentKeysUntouched

(* The store's copy of the domain rules is the domain's. *)
LEMMA SameRules ==
    ASSUME NEW s
    PROVE  Store!Valid(s) = Valid(s)
  BY DEF Valid, Store!Valid, Validate, Broken, OriginAlternativesBroken, DestinationsBroken,
         DateFromBroken, DateToBroken, ReturnDateFromBroken, ReturnDateToBroken,
         ReturnWindowHalfGiven, ReturnWindowGiven, TripLengthMinBroken,
         TripLengthMaxBroken, MaxPriceBroken, BlacklistBroken, CarriersBroken,
         CooldownBroken, DropBroken, BandBroken, Given, Mentions, OnlyKnown,
         HasDuplicate, Fields, RequiredFields, ListFields, NullableFields, Statuses,
         AlertStrategies, Store!Validate, Store!Broken,
         Store!OriginAlternativesBroken, Store!DestinationsBroken,
         Store!DateFromBroken, Store!DateToBroken, Store!ReturnDateFromBroken,
         Store!ReturnDateToBroken, Store!ReturnWindowHalfGiven,
         Store!ReturnWindowGiven, Store!TripLengthMinBroken,
         Store!TripLengthMaxBroken, Store!MaxPriceBroken, Store!BlacklistBroken,
         Store!CarriersBroken, Store!CooldownBroken, Store!DropBroken,
         Store!BandBroken, Store!Given, Store!Mentions, Store!OnlyKnown,
         Store!HasDuplicate, Store!Fields, Store!RequiredFields, Store!ListFields,
         Store!NullableFields, Store!Statuses, Store!AlertStrategies

(* So are its rows. *)
LEMMA SameRows ==
    ASSUME NEW u, NEW s
    PROVE  Store!Row(u, s) = Row(u, s) /\ Store!NoRow = NoRow
  BY DEF Store!Row, Row, Store!NoRow, NoRow

(* Each step of the handlers is a step of the atomic store, or none. *)
LEMMA StoreSteps ==
    ASSUME IndInv, [Next]_vars
    PROVE  [Store!Next]_(Store!vars)
<1>1. TableInv /\ Null \notin Users
  BY IndInvParts, SentinelsAssumption
<1>2. CASE UNCHANGED <<subscriptions, issued>>
  BY <1>2 DEF Store!vars
<1>3. ASSUME NEW r \in Requests, NEW lost \in BOOLEAN, RunInsert(r, lost)
      PROVE  Store!Next
  <2>1. /\ handler[r].chat \in Users /\ Valid(handler[r].sub)
        /\ handler[r].sub["status"] = "active"
    BY <1>3, HandlerFacts DEF Sound, RunInsert, Statements, Writing
  <2>2. PICK i \in Ids \ issued :
            /\ subscriptions' = [subscriptions EXCEPT ![i] = Row(handler[r].chat, handler[r].sub)]
            /\ issued' = issued \cup {i}
    BY <1>3 DEF RunInsert
  <2>3. subscriptions'[i] = Row(handler[r].chat, handler[r].sub)
    BY <1>1, <2>2 DEF TableInv
  <2>4. subscriptions'[i].sub = handler[r].sub /\ subscriptions'[i] # NoRow
    BY <1>1, <2>1, <2>3 DEF Row, NoRow
  <2>5. Store!Add(i, handler[r].chat, subscriptions'[i].sub)
    BY <2>1, <2>2, <2>4, SameRules, SameRows DEF Store!Add
  <2>6. subscriptions'[i] # Store!NoRow
    BY <2>4, SameRows
  <2>7. i \in Ids
    BY <2>2
  <2>8. subscriptions' # subscriptions
    BY <1>1, <2>2, <2>4 DEF TableInv
  <2> QED
    BY <2>1, <2>5, <2>6, <2>7, <2>8 DEF Store!Next
<1>4. ASSUME NEW r \in Requests, NEW lost \in BOOLEAN, RunPatchWrite(r, lost)
      PROVE  Store!Next \/ UNCHANGED <<subscriptions, issued>>
  <2> DEFINE h == handler[r]
             i == handler[r].id
  <2>1. /\ h.chat \in Users /\ i \in Ids /\ Valid(h.sub) /\ IsSubscription(h.sub)
    BY <1>4, HandlerFacts DEF Sound, RunPatchWrite, Statements, Writing
  <2>2. CASE ~Owns(h.chat, i)
    BY <1>4, <2>2 DEF RunPatchWrite
  <2>3. CASE Owns(h.chat, i)
    <3>1. subscriptions' = [subscriptions EXCEPT ![i] = UpdatedRow(h)] /\ UNCHANGED issued
      BY <1>4, <2>3 DEF RunPatchWrite
    <3>2. subscriptions[i] # NoRow /\ IsRow(subscriptions[i])
      BY <1>1, <2>1, <2>3 DEF Owns, TableInv
    <3>3. subscriptions'[i] = [subscriptions[i] EXCEPT !.sub = h.sub]
      BY <1>1, <2>1, <3>1 DEF TableInv, UpdatedRow
    <3>4. subscriptions'[i].sub = h.sub /\ subscriptions'[i].user_chat_id \in Users
      BY <3>2, <3>3 DEF IsRow
    <3>5. subscriptions'[i] # NoRow
      BY <1>1, <3>4 DEF NoRow, Row
    <3>6. Store!Replace(i, subscriptions'[i].sub)
      BY <2>1, <3>1, <3>2, <3>4, SameRules, SameRows DEF Store!Replace, UpdatedRow
    <3> QED
      BY <2>1, <3>1, <3>5, <3>6, SameRows DEF Store!Next
  <2> QED
    BY <2>2, <2>3
<1>5. ASSUME NEW r \in Requests, NEW lost \in BOOLEAN, RunDelete(r, lost)
      PROVE  Store!Next \/ UNCHANGED <<subscriptions, issued>>
  <2>1. handler[r].id \in Ids
    BY <1>5, HandlerFacts DEF Sound, RunDelete
  <2> QED
    BY <1>5, <2>1, SameRows DEF RunDelete, Owns, Store!Next, Store!Remove
<1> QED
  BY <1>2, <1>3, <1>4, <1>5, TableWriters DEF Store!vars

(* The handlers implement the store: whatever interleaving of requests,    *)
(* failures and restarts the service goes through, the table only ever     *)
(* takes the atomic, validated, owner-preserving steps of the store.       *)
THEOREM ImplementsTheStore == Spec => ImplementsStore
<1>1. Init => Store!Init
  BY SameRows DEF Init, Store!Init
<1>2. IndInv /\ [Next]_vars => [Store!Next]_(Store!vars)
  BY StoreSteps
<1> QED
  BY <1>1, <1>2, Invariance, PTL DEF Spec, ImplementsStore, Store!Spec
=============================================================================
