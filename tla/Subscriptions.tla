---------------------------- MODULE Subscriptions ----------------------------
(***************************************************************************)
(* The subscription backend: the HTTP handlers of                          *)
(* internal/api/subscriptions.go, the manager they call and the            *)
(* subscriptions table.  Every request runs in a goroutine of its own and  *)
(* there is no lock and no transaction around a handler, so handlers       *)
(* interleave at their SQL statements; a statement itself is atomic.       *)
(*                                                                         *)
(* A handler that has passed authMiddleware is a record in handler[r].     *)
(* The steps that touch neither the table nor the clock (decoding, id      *)
(* screening) are merged into the step that receives the request.          *)
(***************************************************************************)
EXTENDS Domain

CONSTANTS
    Users,          \* chat ids of the whitelisted users
    Ids,            \* uuids gen_random_uuid() may hand out
    MalformedId,    \* any path segment that uuidRe refuses
    Requests,       \* handler goroutines; a finished one is reused
    CreateBodies,   \* POST bodies clients send
    PatchBodies,    \* PATCH bodies clients send
    BadJSON,        \* a body that does not decode
    MaxDay          \* bound on the calendar

ASSUME SentinelsAssumption ==
    /\ MalformedId \notin Ids \cup {Null}
    /\ Null \notin Ids \cup Users \cup CreateBodies \cup PatchBodies
    /\ BadJSON \notin CreateBodies \cup PatchBodies \cup {Null}
ASSUME BodiesAssumption ==
    /\ \A b \in CreateBodies : IsCreateBody(b)
    /\ \A b \in PatchBodies : IsPatchBody(b)
ASSUME MaxDayAssumption == MaxDay \in Nat \ {0}

VARIABLES
    subscriptions,  \* subscriptions[i]: the row with id i, or NoRow
    issued,         \* the ids gen_random_uuid() has handed out so far
    today,          \* the server's date
    handler         \* handler[r]: the request r is serving, or served last

vars == <<subscriptions, issued, today, handler>>

(* pc names the SQL statement a handler is about to run. *)
Reading == {"list", "get", "patch_read"}
Writing == {"insert", "patch_write", "delete"}
Statements == Reading \cup Writing
Replies == {"none", "ok", "created", "no_content", "bad_json", "invalid", "not_found", "error"}

-----------------------------------------------------------------------------
(* The table and its statements, all scoped by id and user_chat_id *)

(* Mutant of Owns: WHERE id = $1 alone. *)
Exists(u, i) == subscriptions[i] # NoRow

Owns(u, i) == subscriptions[i] # NoRow /\ subscriptions[i].user_chat_id = u

ListedFor(u) == {i \in Ids : Owns(u, i)}

-----------------------------------------------------------------------------
(* Handlers *)

Started(pc, u, i, b) ==
    [pc |-> pc, chat |-> u, id |-> i, body |-> b,
     sub |-> Null, reply |-> "none", shown |-> {}]

(* The handler has answered and dropped what it worked on; shown holds the *)
(* owners of the rows in the response body.                                *)
Answered(h, reply, shown) ==
    [h EXCEPT !.pc = "done", !.body = Null, !.sub = Null, !.reply = reply, !.shown = shown]

Idle == Started("idle", Null, Null, Null)

Free(r) == handler[r].pc \in {"idle", "done"}

Become(r, h) == handler' = [handler EXCEPT ![r] = h]

Answer(r, reply, shown) == Become(r, Answered(handler[r], reply, shown))

(* Ids a client can put in the path: those it was told, and garbage.       *)
PathIds == issued \cup {MalformedId}

Init ==
    /\ subscriptions = [i \in Ids |-> NoRow]
    /\ issued = {}
    /\ today = 1
    /\ handler = [r \in Requests |-> Idle]

-----------------------------------------------------------------------------
(* Receiving a request *)

ReceiveList(r, u) ==
    /\ Free(r)
    /\ Become(r, Started("list", u, Null, Null))
    /\ UNCHANGED <<subscriptions, issued, today>>

ReceiveGet(r, u, i) ==
    LET h == Started("get", u, i, Null)
    IN  /\ Free(r)
        /\ Become(r, IF i = MalformedId THEN Answered(h, "not_found", {}) ELSE h)
        /\ UNCHANGED <<subscriptions, issued, today>>

ReceiveDelete(r, u, i) ==
    LET h == Started("delete", u, i, Null)
    IN  /\ Free(r)
        /\ Become(r, IF i = MalformedId THEN Answered(h, "not_found", {}) ELSE h)
        /\ UNCHANGED <<subscriptions, issued, today>>

(* Mutants of Acceptable: freshness asked of every request, and a PATCH    *)
(* that is not validated at all.                                           *)
AcceptableFresh(s, fresh) == Valid(s) /\ ValidateFresh(s, today) = {}
AcceptableUnchecked(s, fresh) == fresh => Valid(s) /\ ValidateFresh(s, today) = {}

(* validateSubscription: domain rules, and freshness for creates only.     *)
Acceptable(s, fresh) ==
    /\ Valid(s)
    /\ fresh => ValidateFresh(s, today) = {}

(* POST decodes, builds the subscription and validates it before it goes   *)
(* to the database.                                                        *)
ReceiveCreate(r, u, b) ==
    LET h == Started("insert", u, Null, b)
    IN  /\ Free(r)
        /\ Become(r, IF b = BadJSON THEN Answered(h, "bad_json", {})
                     ELSE IF Acceptable(FromCreateBody(b), TRUE)
                          THEN [h EXCEPT !.sub = FromCreateBody(b)]
                          ELSE Answered(h, "invalid", {}))
        /\ UNCHANGED <<subscriptions, issued, today>>

(* PATCH decodes the body before it looks at the id. *)
ReceivePatch(r, u, i, b) ==
    LET h == Started("patch_read", u, i, b)
    IN  /\ Free(r)
        /\ Become(r, IF b = BadJSON THEN Answered(h, "bad_json", {})
                     ELSE IF i = MalformedId THEN Answered(h, "not_found", {}) ELSE h)
        /\ UNCHANGED <<subscriptions, issued, today>>

-----------------------------------------------------------------------------
(* Running a statement.  lost: it committed, but the handler got an error  *)
(* instead of the result (connection gone, request context cancelled).     *)

RunList(r) ==
    /\ handler[r].pc = "list"
    /\ Answer(r, "ok", {subscriptions[i].user_chat_id : i \in ListedFor(handler[r].chat)})
    /\ UNCHANGED <<subscriptions, issued, today>>

RunGet(r) ==
    LET h == handler[r]
    IN  /\ h.pc = "get"
        /\ IF Owns(h.chat, h.id)
           THEN Answer(r, "ok", {subscriptions[h.id].user_chat_id})
           ELSE Answer(r, "not_found", {})
        /\ UNCHANGED <<subscriptions, issued, today>>

RunInsert(r, lost) ==
    LET h == handler[r]
    IN  /\ h.pc = "insert"
        /\ \E i \in Ids \ issued :
              /\ subscriptions' = [subscriptions EXCEPT ![i] = Row(h.chat, h.sub)]
              /\ issued' = issued \cup {i}
        /\ IF lost THEN Answer(r, "error", {}) ELSE Answer(r, "created", {h.chat})
        /\ UNCHANGED today

(* handlePatchSubscription up to its UPDATE: read the row, merge the body  *)
(* into the copy, refuse nulls on required fields, validate the result.    *)
RunPatchRead(r) ==
    LET h == handler[r]
        merged == MergePatch(subscriptions[h.id].sub, h.body)
    IN  /\ h.pc = "patch_read"
        /\ IF ~Owns(h.chat, h.id) THEN Answer(r, "not_found", {})
           ELSE IF NullErrors(h.body) = {} /\ Acceptable(merged, FALSE)
                THEN Become(r, [h EXCEPT !.pc = "patch_write", !.sub = merged])
                ELSE Answer(r, "invalid", {})
        /\ UNCHANGED <<subscriptions, issued, today>>

(* Mutants of UpdatedRow: only the columns the body names are written onto *)
(* the row as it is by now, and the columns it does not name are dropped.  *)
UpdatedColumnwise(h) ==
    [subscriptions[h.id] EXCEPT !.sub = MergePatch(subscriptions[h.id].sub, h.body)]
UpdatedToBody(h) == [subscriptions[h.id] EXCEPT !.sub = h.body]

(* The row UPDATE leaves: every client-writable column comes from the copy *)
(* the handler read, merged and validated.                                 *)
UpdatedRow(h) == [subscriptions[h.id] EXCEPT !.sub = h.sub]

(* Mutant of RunPatchWrite: INSERT ... ON CONFLICT DO UPDATE. *)
RunPatchUpsert(r, lost) ==
    LET h == handler[r]
    IN  /\ h.pc = "patch_write"
        /\ subscriptions' = [subscriptions EXCEPT ![h.id] = Row(h.chat, h.sub)]
        /\ IF lost THEN Answer(r, "error", {}) ELSE Answer(r, "ok", {h.chat})
        /\ UNCHANGED <<issued, today>>

RunPatchWrite(r, lost) ==
    LET h == handler[r]
    IN  /\ h.pc = "patch_write"
        /\ IF Owns(h.chat, h.id)
           THEN /\ subscriptions' = [subscriptions EXCEPT ![h.id] = UpdatedRow(h)]
                /\ IF lost THEN Answer(r, "error", {}) ELSE Answer(r, "ok", {h.chat})
           ELSE /\ ~lost
                /\ Answer(r, "not_found", {})
                /\ UNCHANGED subscriptions
        /\ UNCHANGED <<issued, today>>

(* Mutant of RunDelete: the ownership condition is missing. *)
RunDeleteAnyOwner(r, lost) ==
    LET h == handler[r]
    IN  /\ h.pc = "delete"
        /\ subscriptions' = [subscriptions EXCEPT ![h.id] = NoRow]
        /\ Answer(r, IF lost THEN "error" ELSE "no_content", {})
        /\ UNCHANGED <<issued, today>>

RunDelete(r, lost) ==
    LET h == handler[r]
    IN  /\ h.pc = "delete"
        /\ IF Owns(h.chat, h.id)
           THEN /\ subscriptions' = [subscriptions EXCEPT ![h.id] = NoRow]
                /\ Answer(r, IF lost THEN "error" ELSE "no_content", {})
           ELSE /\ ~lost
                /\ Answer(r, "not_found", {})
                /\ UNCHANGED subscriptions
        /\ UNCHANGED <<issued, today>>

(* The statement fails and changes nothing: 500. *)
StatementFails(r) ==
    /\ handler[r].pc \in Statements
    /\ Answer(r, "error", {})
    /\ UNCHANGED <<subscriptions, issued, today>>

(* The process dies or is redeployed: requests in flight get no answer,    *)
(* the table stays.                                                        *)
Restart ==
    /\ \E r \in Requests : handler[r].pc \in Statements
    /\ handler' = [r \in Requests |->
                     IF handler[r].pc \in Statements THEN Answered(handler[r], "none", {})
                     ELSE handler[r]]
    /\ UNCHANGED <<subscriptions, issued, today>>

Midnight ==
    /\ today < MaxDay
    /\ today' = today + 1
    /\ UNCHANGED <<subscriptions, issued, handler>>

Receive(r) ==
    \E u \in Users :
        \/ ReceiveList(r, u)
        \/ \E b \in CreateBodies \cup {BadJSON} : ReceiveCreate(r, u, b)
        \/ \E i \in PathIds :
              \/ ReceiveGet(r, u, i)
              \/ ReceiveDelete(r, u, i)
              \/ \E b \in PatchBodies \cup {BadJSON} : ReceivePatch(r, u, i, b)

Run(r) ==
    \/ RunList(r)
    \/ RunGet(r)
    \/ RunPatchRead(r)
    \/ \E lost \in BOOLEAN : RunInsert(r, lost) \/ RunPatchWrite(r, lost) \/ RunDelete(r, lost)
    \/ StatementFails(r)

Next == (\E r \in Requests : Receive(r) \/ Run(r)) \/ Restart \/ Midnight

Spec == Init /\ [][Next]_vars

-----------------------------------------------------------------------------
(* Properties *)

IsRow(row) ==
    /\ DOMAIN row = {"user_chat_id", "sub"}
    /\ row.user_chat_id \in Users
    /\ IsSubscription(row.sub)

IsHandler(h) ==
    /\ DOMAIN h = {"pc", "chat", "id", "body", "sub", "reply", "shown"}
    /\ h.pc \in Statements \cup {"idle", "done"}
    /\ h.chat \in Users \cup {Null}
    /\ h.id \in Ids \cup {MalformedId, Null}
    /\ h.body \in CreateBodies \cup PatchBodies \cup {BadJSON, Null}
    /\ h.sub # Null => IsSubscription(h.sub)
    /\ h.reply \in Replies
    /\ h.shown \subseteq Users

(* The table holds rows over the columns' types, every row's id has been   *)
(* handed out, and every handler is in a known state.                      *)
TypeOK ==
    /\ DOMAIN subscriptions = Ids
    /\ \A i \in Ids : subscriptions[i] # NoRow => i \in issued /\ IsRow(subscriptions[i])
    /\ issued \subseteq Ids
    /\ today \in 1 .. MaxDay
    /\ DOMAIN handler = Requests
    /\ \A r \in Requests : IsHandler(handler[r])

(* Every stored row satisfies all of Subscription.Validate, cross-field    *)
(* rules included, although handlers validate a copy of the row and        *)
(* another handler may have rewritten the row before the copy is written   *)
(* back.  It holds because UPDATE writes the whole validated copy.         *)
StoredRowsValid ==
    \A i \in Ids : subscriptions[i] # NoRow => Valid(subscriptions[i].sub)

RowOfAnother(u, i) ==
    subscriptions[i] # NoRow /\ subscriptions[i].user_chat_id # u

HidesForeign(h) ==
    h.pc = "done" =>
        /\ h.shown \subseteq {h.chat}
        /\ h.id \in Ids /\ RowOfAnother(h.chat, h.id)
              => h.reply \in {"not_found", "bad_json", "error", "none"}

(* No reply shows a row of another user, and a request about a row of      *)
(* another user gets exactly what a missing row gives: 404 (or the 400 of  *)
(* an undecodable body, or 500), never a success and never the field       *)
(* errors that would prove that the row exists.                            *)
ForeignLooksMissing == \A r \in Requests : HidesForeign(handler[r])

SaidGone(h) ==
    h.pc = "done" /\ h.reply \in {"no_content", "not_found"} /\ h.id \in Ids

(* Once DELETE has answered 204, or any request 404, the row is gone for   *)
(* that user for good: no PATCH that read it earlier brings it back.       *)
GoneIsFinal ==
    \A r \in Requests : SaidGone(handler[r]) => ~Owns(handler[r].chat, handler[r].id)

LifecyclePatch(b) ==
    /\ DOMAIN b \subseteq {"status", "muted_until"}
    /\ "status" \in DOMAIN b => b["status"] \in Statuses

(* Pausing, resuming, archiving, muting or unmuting is never refused with  *)
(* field errors, however old the row's travel window has become and        *)
(* whatever other handlers did to the row meanwhile.                       *)
LifecyclePatchNeverInvalid ==
    [][\A r \in Requests :
          handler[r].pc = "patch_read" /\ LifecyclePatch(handler[r].body) =>
              handler'[r].reply # "invalid"]_vars

(* The copy s carries every key of body b: the decoded value, or the       *)
(* cleared field where the key is null.                                    *)
Carries(s, b) ==
    \A f \in DOMAIN b : s[f] = IF b[f] = Null THEN Zero(f) ELSE Decoded(f, b[f])

(* What makes the invariants above inductive.  A handler that is about to  *)
(* run a statement serves a known user and, but for a list or a create,    *)
(* an id that was handed out; the copy it will write is validated and      *)
(* carries the body.                                                       *)
Sound(h) ==
    /\ h.id \in Ids => h.id \in issued
    /\ h.pc \in Statements => h.chat \in Users /\ h.reply = "none"
    /\ h.pc \in {"get", "patch_read", "patch_write", "delete"} => h.id \in Ids
    /\ h.pc \in {"list", "insert"} => h.id = Null
    /\ h.pc \in {"patch_read", "patch_write"} => h.body \in PatchBodies
    /\ h.pc \in {"insert", "patch_write"} => IsSubscription(h.sub) /\ Valid(h.sub)
    /\ h.pc = "insert" => h.sub["status"] = "active"
    /\ h.pc = "patch_write" => Carries(h.sub, h.body)

HandlersSound == \A r \in Requests : Sound(handler[r])

(* The inductive invariant of the backend. *)
IndInv ==
    TypeOK /\ StoredRowsValid /\ ForeignLooksMissing /\ GoneIsFinal /\ HandlersSound

(* A row appears, changes or vanishes only in a step of a handler that     *)
(* serves its owner, and that names the row when the row already exists.   *)
OnlyOwnerWrites ==
    [][\A i \in Ids : subscriptions'[i] # subscriptions[i] =>
          \E r \in Requests :
              /\ handler[r].pc \in Writing /\ handler'[r].pc = "done"
              /\ \/ subscriptions[i] = NoRow /\ subscriptions'[i].user_chat_id = handler[r].chat
                 \/ Owns(handler[r].chat, i) /\ handler[r].id = i]_vars

(* A PATCH answered 200 has just stored every key its body names: the      *)
(* decoded value, or the cleared field when the key is null.               *)
NamedKeysLand ==
    [][\A r \in Requests :
          (handler[r].pc = "patch_write" /\ handler'[r].reply = "ok") =>
              Carries(subscriptions'[handler[r].id].sub, handler[r].body)]_vars

(* The documented contract of PATCH, "absent key = leave untouched": an    *)
(* UPDATE changes no field that its body does not name.  The code breaks   *)
(* it: it writes back the copy it read, undoing what another handler wrote *)
(* in between.                                                             *)
AbsentKeysUntouched ==
    [][\A r \in Requests :
          (handler[r].pc = "patch_write" /\ handler'[r].reply = "ok") =>
              \A f \in Fields \ DOMAIN handler[r].body :
                  subscriptions'[handler[r].id].sub[f] = subscriptions[handler[r].id].sub[f]]_vars

(* The handlers together implement the atomic, validated, owner-scoped     *)
(* store, each of their statements one of its steps or a stutter.          *)
Store == INSTANCE SubscriptionStore WITH store <- subscriptions, used <- issued

ImplementsStore == Store!Spec
=============================================================================
