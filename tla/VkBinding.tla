----------------------------- MODULE VkBinding -----------------------------
(***************************************************************************)
(* Linking a site user to a VK account: the API (core/services/            *)
(* vk_binding.py) issues one-time codes and unlinks, the bot process       *)
(* (vk_confirmation.py, vk_state.py) confirms codes and follows the        *)
(* message_deny / message_allow events of the group.  Both run many        *)
(* requests at once over the same PostgreSQL tables, one transaction per   *)
(* request, in READ COMMITTED.                                             *)
(*                                                                         *)
(* A worker is one request being served.  Every SQL statement is a step,   *)
(* so any two requests interleave between statements; the Python code      *)
(* between two statements belongs to the step that precedes it.  A row     *)
(* has a committed version, and while a transaction has written it, an     *)
(* owner and the owner's draft: a statement reads its own drafts and the   *)
(* committed version of everything else, and a writer waits for the owner. *)
(* A statement that finds the row changed after waiting tests its WHERE    *)
(* clause again.                                                           *)
(***************************************************************************)
EXTENDS Naturals

CONSTANTS
  User,         \* users of the site
  Peer,         \* VK accounts
  Record,       \* primary keys user_vks.id
  Code,         \* values of vk_confirmations.code, one row each
  Worker,       \* requests that can be served at the same time
  None,         \* SQL NULL and Python None
  MaxRequests,  \* bound: requests started in a behaviour
  MaxCrashes    \* bound: requests killed in a behaviour

ASSUME BindingAssumption ==
  /\ None \notin User \cup Peer \cup Record \cup Code \cup Worker
  /\ MaxRequests \in Nat
  /\ MaxCrashes \in Nat

VARIABLES
  rows, rowOwner, rowDraft,     \* user_vks
  codes, codeOwner, codeDraft,  \* vk_confirmations
  expired,                      \* codes whose expires_at has passed
  pc, req, mem,                 \* each worker: next statement, request, what it has read
  started, crashes              \* counters of the two bounds

tables == <<rows, rowOwner, rowDraft, codes, codeOwner, codeDraft>>
vars == <<tables, expired, pc, req, mem, started, crashes>>

-----------------------------------------------------------------------------
(* Rows.  An id that was never inserted has user None.                     *)

BindingState == {"PENDING", "ACTIVE", "BLOCKED"}

Row == [user : User \cup {None}, peer : Peer \cup {None},
        state : BindingState, deleted : BOOLEAN]
NoRow == [user |-> None, peer |-> None, state |-> "PENDING", deleted |-> FALSE]

Live(row) == row.user # None /\ ~row.deleted

\* `used' is used_at IS NOT NULL.
Confirmation == [rec : Record \cup {None}, used : BOOLEAN]
NoCode == [rec |-> None, used |-> FALSE]

(* Requests and the local variables of the functions that serve them.      *)

ApiRequest     == [op : {"ensure", "issue", "unlink"}, user : User, peer : {None}, code : {None}]
ConfirmRequest == [op : {"confirm"}, user : {None}, peer : Peer, code : Code]
StateRequest   == [op : {"deny", "allow"}, user : {None}, peer : Peer, code : {None}]
NoRequest      == [op |-> "none", user |-> None, peer |-> None, code |-> None]
Request        == ApiRequest \cup ConfirmRequest \cup StateRequest

Status == {"noop", "success", "conflict_active", "conflict_blocked", "no_binding",
           "rate_limited", "not_found", "already_confirmed", "used", "expired",
           "error", "peer_conflict"}

\* rec: record_id; used: confirmation["used_at"] as read; todo: rows an UPDATE
\* of many rows has still to reach; code: the code generated; entry: the
\* status of the vk_logs row written by this transaction; notice: the binding
\* whose account an unlink is going to write to.
Memory == [rec : Record \cup {None}, used : BOOLEAN, todo : SUBSET Code,
           code : Code \cup {None}, entry : Status \cup {None},
           notice : Record \cup {None}]
NoMemory == [rec |-> None, used |-> FALSE, todo |-> {}, code |-> None, entry |-> None,
             notice |-> None]

Statement == {"idle", "lookup", "insert", "relookup", "invalidate", "invalidating",
              "pickcode", "storecode", "softdelete", "softdeleting", "notify", "ratelimit",
              "fetchcode", "fetchbinding", "occupied", "activate", "index", "markused",
              "findpeer", "setstate", "commit", "raising"}

Init ==
  /\ rows = [r \in Record |-> NoRow]
  /\ rowOwner = [r \in Record |-> None]
  /\ rowDraft = [r \in Record |-> NoRow]
  /\ codes = [c \in Code |-> NoCode]
  /\ codeOwner = [c \in Code |-> None]
  /\ codeDraft = [c \in Code |-> NoCode]
  /\ expired = {}
  /\ pc = [w \in Worker |-> "idle"]
  /\ req = [w \in Worker |-> NoRequest]
  /\ mem = [w \in Worker |-> NoMemory]
  /\ started = 0
  /\ crashes = 0

-----------------------------------------------------------------------------
(* The database.                                                           *)

\* What a statement of worker w reads.
RowFor(w, r)  == IF rowOwner[r] = w THEN rowDraft[r] ELSE rows[r]
CodeFor(w, c) == IF codeOwner[c] = w THEN codeDraft[c] ELSE codes[c]

RowFree(w, r)  == rowOwner[r] \in {None, w}
CodeFree(w, c) == codeOwner[c] \in {None, w}

WriteRow(w, r, row) ==
  /\ rowOwner' = [rowOwner EXCEPT ![r] = w]
  /\ rowDraft' = [rowDraft EXCEPT ![r] = row]
  /\ UNCHANGED <<rows, codes, codeOwner, codeDraft>>

WriteCode(w, c, row) ==
  /\ codeOwner' = [codeOwner EXCEPT ![c] = w]
  /\ codeDraft' = [codeDraft EXCEPT ![c] = row]
  /\ UNCHANGED <<rows, codes, rowOwner, rowDraft>>

\* The end of a transaction drops its locks and drafts.
Release(w) ==
  /\ rowOwner' = [r \in Record |-> IF rowOwner[r] = w THEN None ELSE rowOwner[r]]
  /\ rowDraft' = [r \in Record |-> IF rowOwner[r] = w THEN NoRow ELSE rowDraft[r]]
  /\ codeOwner' = [c \in Code |-> IF codeOwner[c] = w THEN None ELSE codeOwner[c]]
  /\ codeDraft' = [c \in Code |-> IF codeOwner[c] = w THEN NoCode ELSE codeDraft[c]]

Undo(w) == Release(w) /\ UNCHANGED <<rows, codes>>

\* uq_user_vks_user_id_active and uq_user_vks_peer_id_active, both WHERE
\* deleted_at IS NULL.  A unique check waits for a transaction that is writing
\* a row with the key, and fails on a committed one.
HasUser(row, u) == Live(row) /\ row.user = u
HasPeer(row, p) == Live(row) /\ row.peer = p

UserPending(w, u) ==
  {r \in Record : ~RowFree(w, r) /\ (HasUser(rows[r], u) \/ HasUser(rowDraft[r], u))}
PeerPending(w, rec, p) ==
  {r \in Record \ {rec} : ~RowFree(w, r) /\ (HasPeer(rows[r], p) \/ HasPeer(rowDraft[r], p))}

UserTaken(w, u) == \E r \in Record : HasUser(RowFor(w, r), u)
PeerTaken(w, rec, p) == \E r \in Record \ {rec} : HasPeer(RowFor(w, r), p)

-----------------------------------------------------------------------------
(* Control of one worker.                                                  *)

Goto(w, label) == pc' = [pc EXCEPT ![w] = label]

\* log_action writes the vk_logs row in the request's transaction.
Log(w, status) == mem' = [mem EXCEPT ![w].entry = status]

LogAndCommit(w, status) ==
  /\ Log(w, status)
  /\ Goto(w, "commit")
  /\ UNCHANGED tables

FirstStatement(op) ==
  CASE op \in {"ensure", "issue", "unlink"} -> "lookup"
    [] op = "confirm" -> "ratelimit"
    [] op \in {"deny", "allow"} -> "findpeer"

Start(w) ==
  /\ pc[w] = "idle"
  /\ started < MaxRequests
  /\ \E q \in Request :
       /\ req' = [req EXCEPT ![w] = q]
       /\ Goto(w, FirstStatement(q.op))
  /\ started' = started + 1
  /\ UNCHANGED <<tables, expired, mem, crashes>>

\* The request ends: locals are gone.
Finish(w) ==
  /\ Goto(w, "idle")
  /\ req' = [req EXCEPT ![w] = NoRequest]
  /\ mem' = [mem EXCEPT ![w] = NoMemory]

Frame == UNCHANGED <<expired, req, started, crashes>>

-----------------------------------------------------------------------------
(* PUT, POST and DELETE of the API: ensure_binding, issue_confirmation and *)
(* unlink.                                                                 *)

\* What follows get_by_user_id when it returned the row r.  issue_confirmation
\* logs a conflict and raises when the binding is already confirmed.  unlink
\* decides here, on the row as read, whether it will notify.
Found(w, r) ==
  LET row == RowFor(w, r)
      refused == req[w].op = "issue" /\ row.state # "PENDING"
      notify == req[w].op = "unlink" /\ row.state = "ACTIVE" /\ row.peer # None
  IN /\ mem' = [mem EXCEPT ![w].rec = r,
                           ![w].entry = IF ~refused THEN @
                                        ELSE IF row.state = "ACTIVE" THEN "conflict_active"
                                        ELSE "conflict_blocked",
                           ![w].notice = IF notify THEN r ELSE None]
     /\ Goto(w, IF refused THEN "raising"
                ELSE IF req[w].op = "ensure" THEN "commit" ELSE "invalidate")
     /\ UNCHANGED tables

Lookup(w) ==
  /\ pc[w] = "lookup"
  /\ \/ \E r \in Record : HasUser(RowFor(w, r), req[w].user) /\ Found(w, r)
     \/ /\ ~UserTaken(w, req[w].user)
        /\ req[w].op = "unlink"
        /\ LogAndCommit(w, "noop")
     \/ /\ ~UserTaken(w, req[w].user)
        /\ req[w].op # "unlink"
        /\ Goto(w, "insert")
        /\ UNCHANGED <<tables, mem>>
  /\ Frame

\* Faulty variant: user_vks without uq_user_vks_user_id_active.
InsertUnchecked(w) ==
  /\ pc[w] = "insert"
  /\ \E r \in Record :
       /\ rows[r] = NoRow
       /\ rowOwner[r] = None
       /\ WriteRow(w, r, [NoRow EXCEPT !.user = req[w].user])
       /\ mem' = [mem EXCEPT ![w].rec = r]
  /\ Goto(w, IF req[w].op = "ensure" THEN "commit" ELSE "invalidate")
  /\ Frame

\* create: the insert itself, or the unique violation that rolls the session back.
Insert(w) ==
  /\ pc[w] = "insert"
  /\ UserPending(w, req[w].user) = {}
  /\ \/ /\ ~UserTaken(w, req[w].user)
        /\ \E r \in Record :
             /\ rows[r] = NoRow
             /\ rowOwner[r] = None
             /\ WriteRow(w, r, [NoRow EXCEPT !.user = req[w].user])
             /\ mem' = [mem EXCEPT ![w].rec = r]
        /\ Goto(w, IF req[w].op = "ensure" THEN "commit" ELSE "invalidate")
     \/ /\ UserTaken(w, req[w].user)
        /\ Undo(w)
        /\ Goto(w, "relookup")
        /\ UNCHANGED mem
  /\ Frame

\* The except branch of ensure_binding; the error is raised again when the
\* winner's row has gone.
Relookup(w) ==
  /\ pc[w] = "relookup"
  /\ \/ \E r \in Record : HasUser(RowFor(w, r), req[w].user) /\ Found(w, r)
     \/ /\ ~UserTaken(w, req[w].user)
        /\ Goto(w, "raising")
        /\ UNCHANGED <<tables, mem>>
  /\ Frame

\* invalidate_previous: the rows come from the statement's snapshot, each is
\* locked in turn and tested again.
Invalidate(w) ==
  /\ pc[w] = "invalidate"
  /\ mem' = [mem EXCEPT ![w].todo =
               {c \in Code : CodeFor(w, c).rec = mem[w].rec /\ ~CodeFor(w, c).used}]
  /\ Goto(w, "invalidating")
  /\ UNCHANGED tables
  /\ Frame

InvalidateOne(w) ==
  /\ pc[w] = "invalidating"
  /\ \E c \in mem[w].todo :
       /\ CodeFree(w, c)
       /\ WriteCode(w, c, [CodeFor(w, c) EXCEPT !.used = TRUE])
       /\ mem' = [mem EXCEPT ![w].todo = @ \ {c}]
  /\ UNCHANGED pc
  /\ Frame

InvalidateDone(w) ==
  /\ pc[w] = "invalidating"
  /\ mem[w].todo = {}
  /\ Goto(w, IF req[w].op = "issue" THEN "pickcode" ELSE "softdelete")
  /\ UNCHANGED <<tables, mem>>
  /\ Frame

\* _create_unique_code: a code no visible row has, or a conflict when every
\* attempt hit an existing one.
PickCode(w) ==
  /\ pc[w] = "pickcode"
  /\ \/ \E c \in Code :
          /\ CodeFor(w, c) = NoCode
          /\ mem' = [mem EXCEPT ![w].code = c]
          /\ Goto(w, "storecode")
     \/ /\ \E c \in Code : CodeFor(w, c) # NoCode
        /\ Goto(w, "raising")
        /\ UNCHANGED mem
  /\ UNCHANGED tables
  /\ Frame

\* Faulty variant: vk_confirmations without the unique constraint on code.
StoreCodeUnchecked(w) ==
  /\ pc[w] = "storecode"
  /\ CodeFree(w, mem[w].code)
  /\ WriteCode(w, mem[w].code, [rec |-> mem[w].rec, used |-> FALSE])
  /\ Log(w, "success")
  /\ Goto(w, "commit")
  /\ Frame

\* confirmation_repo.create.  The unique violation of ix_vk_confirmations_code
\* is caught nowhere.
StoreCode(w) ==
  /\ pc[w] = "storecode"
  /\ CodeFree(w, mem[w].code)
  /\ \/ /\ codes[mem[w].code] = NoCode
        /\ WriteCode(w, mem[w].code, [rec |-> mem[w].rec, used |-> FALSE])
        /\ Log(w, "success")
        /\ Goto(w, "commit")
     \/ /\ codes[mem[w].code] # NoCode
        /\ Undo(w)
        /\ Goto(w, "raising")
        /\ UNCHANGED mem
  /\ Frame

\* The journal entry of unlink; _notify_unlinked returns at once when the
\* binding it read was not active.
LogUnlink(w) ==
  /\ Log(w, "success")
  /\ Goto(w, IF mem[w].notice = None THEN "commit" ELSE "notify")

\* soft_delete finds its row by user_id, in a snapshot of its own.
SoftDelete(w) ==
  /\ pc[w] = "softdelete"
  /\ \/ \E r \in Record :
          /\ HasUser(RowFor(w, r), req[w].user)
          /\ mem' = [mem EXCEPT ![w].rec = r]
          /\ Goto(w, "softdeleting")
          /\ UNCHANGED tables
     \/ /\ ~UserTaken(w, req[w].user)
        /\ LogUnlink(w)
        /\ UNCHANGED tables
  /\ Frame

SoftDeleteRow(w) ==
  /\ pc[w] = "softdeleting"
  /\ \/ /\ rows[mem[w].rec].deleted
        /\ UNCHANGED tables
     \/ /\ ~rows[mem[w].rec].deleted
        /\ RowFree(w, mem[w].rec)
        /\ WriteRow(w, mem[w].rec, [RowFor(w, mem[w].rec) EXCEPT !.deleted = TRUE])
  /\ LogUnlink(w)
  /\ Frame

\* _notify_unlinked: the message leaves before the commit, and no answer or
\* exception of VK changes the result.
Notify(w) ==
  /\ pc[w] = "notify"
  /\ Goto(w, "commit")
  /\ UNCHANGED <<tables, mem>>
  /\ Frame

-----------------------------------------------------------------------------
(* The bot: VkConfirmationService.confirm.                                 *)

\* _enforce_rate_limit counts failed attempts in a time window; the window is
\* the subject of ConfirmationRateLimit, here both answers are possible.
RateLimit(w) ==
  /\ pc[w] = "ratelimit"
  /\ \/ LogAndCommit(w, "rate_limited")
     \/ Goto(w, "fetchcode") /\ UNCHANGED <<tables, mem>>
  /\ Frame

FetchCode(w) ==
  /\ pc[w] = "fetchcode"
  /\ LET confirmation == CodeFor(w, req[w].code)
     IN \/ confirmation = NoCode /\ LogAndCommit(w, "not_found")
        \/ /\ confirmation # NoCode
           /\ mem' = [mem EXCEPT ![w].rec = confirmation.rec, ![w].used = confirmation.used]
           /\ Goto(w, "fetchbinding")
           /\ UNCHANGED tables
  /\ Frame

SamePeerActive(row, p) == Live(row) /\ row.state = "ACTIVE" /\ row.peer = p

\* What confirm decides on the two rows it has read: used is tested before
\* expired, expired before missing.  "open" lets it go on.
Verdict(binding, used, isExpired, p) ==
  CASE used /\ SamePeerActive(binding, p)  -> "already_confirmed"
    [] used /\ ~SamePeerActive(binding, p) -> "used"
    [] ~used /\ isExpired                  -> "expired"
    [] ~used /\ ~isExpired /\ ~Live(binding) -> "error"
    [] OTHER -> "open"

FetchBinding(w) ==
  /\ pc[w] = "fetchbinding"
  /\ LET verdict == Verdict(RowFor(w, mem[w].rec), mem[w].used,
                            req[w].code \in expired, req[w].peer)
     IN \/ verdict # "open" /\ LogAndCommit(w, verdict)
        \/ verdict = "open" /\ Goto(w, "occupied") /\ UNCHANGED <<tables, mem>>
  /\ Frame

Occupied(w) ==
  /\ pc[w] = "occupied"
  /\ \/ /\ PeerTaken(w, mem[w].rec, req[w].peer)
        /\ LogAndCommit(w, "peer_conflict")
     \/ /\ ~PeerTaken(w, mem[w].rec, req[w].peer)
        /\ Goto(w, "activate")
        /\ UNCHANGED <<tables, mem>>
  /\ Frame

\* Faulty variant: the row is read with one_or_none() and None is ignored.
ActivateOneOrNone(w) ==
  /\ pc[w] = "activate"
  /\ UNCHANGED mem
  /\ \/ /\ rows[mem[w].rec].deleted
        /\ Goto(w, "markused")
        /\ UNCHANGED tables
     \/ /\ ~rows[mem[w].rec].deleted
        /\ RowFree(w, mem[w].rec)
        /\ WriteRow(w, mem[w].rec, RowFor(w, mem[w].rec))
        /\ Goto(w, "index")
  /\ Frame

\* activate: the UPDATE takes the row; result.mappings().one() raises when the
\* row has been deleted meanwhile.
Activate(w) ==
  /\ pc[w] = "activate"
  /\ UNCHANGED mem
  /\ \/ /\ rows[mem[w].rec].deleted
        /\ Goto(w, "raising")
        /\ UNCHANGED tables
     \/ /\ ~rows[mem[w].rec].deleted
        /\ RowFree(w, mem[w].rec)
        /\ WriteRow(w, mem[w].rec, RowFor(w, mem[w].rec))
        /\ Goto(w, "index")
  /\ Frame

\* Faulty variant: the binding is committed before the code is marked.
ActivateIndexThenCommit(w) ==
  /\ pc[w] = "index"
  /\ PeerPending(w, mem[w].rec, req[w].peer) = {}
  /\ ~PeerTaken(w, mem[w].rec, req[w].peer)
  /\ WriteRow(w, mem[w].rec, [RowFor(w, mem[w].rec) EXCEPT
                                !.peer = req[w].peer, !.state = "ACTIVE"])
  /\ Log(w, "success")
  /\ Goto(w, "commit")
  /\ Frame

\* The new version enters the peer index.  A unique violation rolls back and
\* is reported as a conflict.
ActivateIndex(w) ==
  /\ pc[w] = "index"
  /\ PeerPending(w, mem[w].rec, req[w].peer) = {}
  /\ \/ /\ ~PeerTaken(w, mem[w].rec, req[w].peer)
        /\ WriteRow(w, mem[w].rec, [RowFor(w, mem[w].rec) EXCEPT
                                      !.peer = req[w].peer, !.state = "ACTIVE"])
        /\ Goto(w, "markused")
        /\ UNCHANGED mem
     \/ /\ PeerTaken(w, mem[w].rec, req[w].peer)
        /\ Undo(w)
        /\ Log(w, "peer_conflict")
        /\ Goto(w, "commit")
  /\ Frame

\* Faulty variant: used_at is not written.
MarkUsedSkipped(w) ==
  /\ pc[w] = "markused"
  /\ LogAndCommit(w, "success")
  /\ Frame

MarkUsed(w) ==
  /\ pc[w] = "markused"
  /\ CodeFree(w, req[w].code)
  /\ WriteCode(w, req[w].code, [CodeFor(w, req[w].code) EXCEPT !.used = TRUE])
  /\ Log(w, "success")
  /\ Goto(w, "commit")
  /\ Frame

-----------------------------------------------------------------------------
(* The bot: VkStateService.block and unblock.                              *)

FindPeer(w) ==
  /\ pc[w] = "findpeer"
  /\ \/ \E r \in Record :
          /\ HasPeer(RowFor(w, r), req[w].peer)
          /\ mem' = [mem EXCEPT ![w].rec = r]
          /\ Goto(w, "setstate")
          /\ UNCHANGED tables
     \/ /\ \A r \in Record : ~HasPeer(RowFor(w, r), req[w].peer)
        /\ LogAndCommit(w, "no_binding")
  /\ Frame

\* Faulty variant: a value that is not one of ALLOWED_STATES.
TargetStateUnknown(op) == IF op = "deny" THEN "DENIED" ELSE "ACTIVE"

TargetState(op) == IF op = "deny" THEN "BLOCKED" ELSE "ACTIVE"

\* Faulty variant: the UPDATE does not test deleted_at.
SetStateOfDeleted(w) ==
  /\ pc[w] = "setstate"
  /\ RowFree(w, mem[w].rec)
  /\ WriteRow(w, mem[w].rec,
              [RowFor(w, mem[w].rec) EXCEPT !.state = TargetState(req[w].op)])
  /\ Log(w, "success")
  /\ Goto(w, "commit")
  /\ Frame

\* set_state answers None for a deleted row and _transition does not look.
SetState(w) ==
  /\ pc[w] = "setstate"
  /\ \/ /\ rows[mem[w].rec].deleted
        /\ UNCHANGED tables
     \/ /\ ~rows[mem[w].rec].deleted
        /\ RowFree(w, mem[w].rec)
        /\ WriteRow(w, mem[w].rec,
                    [RowFor(w, mem[w].rec) EXCEPT !.state = TargetState(req[w].op)])
  /\ Log(w, "success")
  /\ Goto(w, "commit")
  /\ Frame

-----------------------------------------------------------------------------
(* Ends of a transaction.                                                  *)

\* get_session after the endpoint returned; services.commit() of the bot.
Commit(w) ==
  /\ pc[w] = "commit"
  /\ rows' = [r \in Record |-> RowFor(w, r)]
  /\ codes' = [c \in Code |-> CodeFor(w, c)]
  /\ Release(w)
  /\ Finish(w)
  /\ UNCHANGED <<expired, started, crashes>>

\* Faulty variant: the session of a failed request is left open.
RollbackForgotten(w) ==
  /\ pc[w] = "raising"
  /\ Finish(w)
  /\ UNCHANGED <<tables, expired, started, crashes>>

\* get_session on an exception; in the bot the session dies with its task.
Rollback(w) ==
  /\ pc[w] = "raising"
  /\ Undo(w)
  /\ Finish(w)
  /\ UNCHANGED <<expired, started, crashes>>

\* The process is killed or loses its connection: the server rolls back.
Crash(w) ==
  /\ pc[w] # "idle"
  /\ crashes < MaxCrashes
  /\ crashes' = crashes + 1
  /\ Undo(w)
  /\ Finish(w)
  /\ UNCHANGED <<expired, started>>

\* The transactions the current statement of w waits for.
WaitsFor(w) ==
  CASE pc[w] = "insert" -> {rowOwner[r] : r \in UserPending(w, req[w].user)}
    [] pc[w] = "index"  -> {rowOwner[r] : r \in PeerPending(w, mem[w].rec, req[w].peer)}
    [] pc[w] \in {"activate", "softdeleting", "setstate"} ->
         IF rows[mem[w].rec].deleted THEN {} ELSE {rowOwner[mem[w].rec]} \ {None, w}
    [] pc[w] = "markused"  -> {codeOwner[req[w].code]} \ {None, w}
    [] pc[w] = "storecode" -> {codeOwner[mem[w].code]} \ {None, w}
    [] pc[w] = "invalidating" ->
         IF \E c \in mem[w].todo : CodeFree(w, c) THEN {}
         ELSE {codeOwner[c] : c \in mem[w].todo}
    [] OTHER -> {}

\* w waits, directly or through others, for itself.
InWaitCycle(w) ==
  /\ WaitsFor(w) # {}
  /\ \A S \in SUBSET Worker :
       (WaitsFor(w) \subseteq S /\ \A v \in S : WaitsFor(v) \subseteq S) => w \in S

\* The server's deadlock detector aborts one transaction of a cycle.
DeadlockVictim(w) ==
  /\ InWaitCycle(w)
  /\ Undo(w)
  /\ Goto(w, "raising")
  /\ UNCHANGED mem
  /\ Frame

\* expires_at passes.  Only an unused code is ever tested for it.
Expire(c) ==
  /\ c \notin expired
  /\ codes[c] # NoCode
  /\ ~codes[c].used
  /\ expired' = expired \cup {c}
  /\ UNCHANGED <<tables, pc, req, mem, started, crashes>>

-----------------------------------------------------------------------------

ApiStep(w) ==
  \/ Lookup(w) \/ Insert(w) \/ Relookup(w)
  \/ Invalidate(w) \/ InvalidateOne(w) \/ InvalidateDone(w)
  \/ PickCode(w) \/ StoreCode(w)
  \/ SoftDelete(w) \/ SoftDeleteRow(w) \/ Notify(w)

BotStep(w) ==
  \/ RateLimit(w) \/ FetchCode(w) \/ FetchBinding(w) \/ Occupied(w)
  \/ Activate(w) \/ ActivateIndex(w) \/ MarkUsed(w)
  \/ FindPeer(w) \/ SetState(w)

EndStep(w) == Commit(w) \/ Rollback(w) \/ DeadlockVictim(w)

Step(w) == ApiStep(w) \/ BotStep(w) \/ EndStep(w)

\* The bound on requests is reached and all of them have ended.
Quiet ==
  /\ started = MaxRequests
  /\ \A w \in Worker : pc[w] = "idle"
  /\ UNCHANGED vars

Next ==
  \/ \E w \in Worker : Start(w) \/ Step(w) \/ Crash(w)
  \/ \E c \in Code : Expire(c)
  \/ Quiet

Spec == Init /\ [][Next]_vars

\* The requests are served on: a session is scheduled again after every await,
\* PostgreSQL grants a lock in queue order and breaks every wait cycle.
Fairness == \A w \in Worker : SF_vars(Step(w))
FairSpec == Spec /\ Fairness

-----------------------------------------------------------------------------
(* Properties.                                                             *)

\* Every variable keeps its type.
TypeOK ==
  /\ rows \in [Record -> Row]
  /\ rowOwner \in [Record -> Worker \cup {None}]
  /\ rowDraft \in [Record -> Row]
  /\ codes \in [Code -> Confirmation]
  /\ codeOwner \in [Code -> Worker \cup {None}]
  /\ codeDraft \in [Code -> Confirmation]
  /\ expired \in SUBSET Code
  /\ pc \in [Worker -> Statement]
  /\ req \in [Worker -> Request \cup {NoRequest}]
  /\ mem \in [Worker -> Memory]
  /\ started \in Nat
  /\ crashes \in Nat

\* A site user has at most one binding that is not deleted, and a VK account
\* belongs to at most one, whatever create, activate and soft_delete overlap.
UniqueLiveBinding ==
  \A r1, r2 \in Record :
    r1 # r2 /\ Live(rows[r1]) /\ Live(rows[r2]) =>
      /\ rows[r1].user # rows[r2].user
      /\ rows[r1].peer # None => rows[r1].peer # rows[r2].peer

\* A binding is PENDING exactly as long as it has no VK account, and one that
\* has an account has consumed a code of its own: activate and mark_used reach
\* the database together or not at all, and a deny or allow that comes late
\* never moves a binding that was not confirmed.
LinkedByCode ==
  \A r \in Record :
    /\ rows[r].state = "PENDING" <=> rows[r].peer = None
    /\ rows[r].peer # None => \E c \in Code : codes[c].rec = r /\ codes[c].used

\* A used or invalidated code is never usable again and never moves to
\* another binding; no statement of an overlapping request undoes used_at.
CodesStayUsed ==
  [][\A c \in Code : codes[c] # NoCode =>
       /\ codes'[c].rec = codes[c].rec
       /\ codes[c].used => codes'[c].used]_codes

\* The account of a binding changes only when a confirm commits that was sent
\* by that account with a code of that binding, and the code is used from then.
LinkFollowsCode ==
  [][\A r \in Record : rows'[r].peer # rows[r].peer =>
       \E w \in Worker :
         /\ req[w].op = "confirm"
         /\ req[w].peer = rows'[r].peer
         /\ codes[req[w].code].rec = r
         /\ codes'[req[w].code].used]_rows

\* What the journal row "success" says is what the same commit leaves in the
\* tables, although other requests ran between the statements.
Effect(w) ==
  LET row == rows'[mem[w].rec]
      op  == req[w].op
  IN /\ op = "confirm" => /\ row.peer = req[w].peer
                          /\ row.state = "ACTIVE"
                          /\ ~row.deleted
                          /\ codes'[req[w].code] = [rec |-> mem[w].rec, used |-> TRUE]
     /\ op = "unlink" => row.user = req[w].user /\ row.deleted
     /\ op = "issue"  => /\ row.user = req[w].user
                         /\ codes'[mem[w].code] = [rec |-> mem[w].rec, used |-> FALSE]
     /\ op \in {"deny", "allow"} => row.deleted \/ row.state = TargetState(op)

SuccessIsInTables ==
  [][\A w \in Worker : Commit(w) /\ mem[w].entry = "success" => Effect(w)]_vars

\* Nobody is told of an unlink that the commit does not make: the binding whose
\* account got the message, read before the soft_delete that looks for its row
\* again, is a deleted one, whatever request has dealt with the user meanwhile.
NoticeIsTrue ==
  [][\A w \in Worker : Commit(w) /\ mem[w].notice # None
       => rows'[mem[w].notice].deleted]_vars

\* The committed bindings live the life that BindingLifecycle describes.
Lifecycle == INSTANCE BindingLifecycle WITH bindings <- rows
BindingsFollowLifecycle == Lifecycle!Spec

\* Every request ends: no two transactions wait for each other for ever and no
\* lock outlives its transaction.
RequestsEnd == \A w \in Worker : pc[w] # "idle" ~> pc[w] = "idle"

(* What the documentation or a test says and the code does not keep.       *)

\* README: issuing marks all previous unused codes of the binding as used, so
\* one of its codes is usable at most.  Of two overlapping issues neither sees
\* the code the other has not committed.
OneUsableCode ==
  \A c1, c2 \in Code :
    /\ codes[c1] # NoCode /\ ~codes[c1].used
    /\ codes[c2] # NoCode /\ ~codes[c2].used
    /\ codes[c1].rec = codes[c2].rec
    => c1 = c2

\* test_issue_is_rejected_for_an_already_active_binding: the refusal is in the
\* journal.  The entry is written, then get_session rolls it back.
EntriesAreCommitted ==
  [][\A w \in Worker : mem[w].entry # None /\ pc'[w] = "idle" => Commit(w)]_vars
============================================================================
