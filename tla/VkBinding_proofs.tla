-------------------------- MODULE VkBinding_proofs --------------------------
(* Proofs about VkBinding for any number of users, accounts, codes and     *)
(* requests served at the same time.                                       *)
EXTENDS VkBinding, TLAPS

-----------------------------------------------------------------------------
(* Types.                                                                  *)

\* A request at a statement of confirm is a confirm, so it has a code.
ConfirmRequests ==
  \A w \in Worker :
    pc[w] \in {"ratelimit", "fetchcode", "fetchbinding", "occupied",
               "activate", "index", "markused"} => req[w] \in ConfirmRequest

TypeInv == TypeOK /\ ConfirmRequests

\* The part of TypeOK that is about the two tables.
TablesTyped ==
  /\ rows \in [Record -> Row]
  /\ rowOwner \in [Record -> Worker \cup {None}]
  /\ rowDraft \in [Record -> Row]
  /\ codes \in [Code -> Confirmation]
  /\ codeOwner \in [Code -> Worker \cup {None}]
  /\ codeDraft \in [Code -> Confirmation]

\* ... and the part that is about the workers.
WorkersTyped ==
  /\ expired \in SUBSET Code
  /\ pc \in [Worker -> Statement]
  /\ req \in [Worker -> Request \cup {NoRequest}]
  /\ mem \in [Worker -> Memory]
  /\ started \in Nat
  /\ crashes \in Nat

\* Writing a row of user_vks keeps the tables typed.
LEMMA WriteRowTyped ==
  ASSUME TablesTyped, NEW w \in Worker, NEW r, NEW row,
         r \in Record => row \in Row, WriteRow(w, r, row)
  PROVE  TablesTyped'
  BY DEF TablesTyped, WriteRow

\* Writing a row of vk_confirmations keeps the tables typed.
LEMMA WriteCodeTyped ==
  ASSUME TablesTyped, NEW w \in Worker, NEW c, NEW row,
         c \in Code => row \in Confirmation, WriteCode(w, c, row)
  PROVE  TablesTyped'
  BY DEF TablesTyped, WriteCode

\* The end of a transaction keeps the tables typed, installed or not.
LEMMA EndTyped ==
  ASSUME TablesTyped, NEW w \in Worker, Commit(w) \/ Undo(w)
  PROVE  TablesTyped'
<1>1. NoRow \in Row /\ NoCode \in Confirmation
  BY DEF NoRow, Row, BindingState, NoCode, Confirmation
<1> QED
  BY <1>1 DEF TablesTyped, Commit, Undo, Release, RowFor, CodeFor

\* What a statement reads is a row of the table.
LEMMA ReadsTyped ==
  ASSUME TablesTyped, NEW w \in Worker
  PROVE  /\ \A r \in Record : RowFor(w, r) \in Row
         /\ \A c \in Code : CodeFor(w, c) \in Confirmation
  BY DEF TablesTyped, RowFor, CodeFor

\* What a statement writes over a row of user_vks is a row.
LEMMA RowEdits ==
  ASSUME NEW row \in Row
  PROVE  /\ [row EXCEPT !.deleted = TRUE] \in Row
         /\ \A s \in BindingState : [row EXCEPT !.state = s] \in Row
         /\ \A p \in Peer : [row EXCEPT !.peer = p, !.state = "ACTIVE"] \in Row
<1>1. [row EXCEPT !.deleted = TRUE] \in Row
  BY DEF Row
<1>2. ASSUME NEW s \in BindingState PROVE [row EXCEPT !.state = s] \in Row
  BY DEF Row
<1>3. "ACTIVE" \in BindingState
  BY DEF BindingState
<1>4. ASSUME NEW p \in Peer PROVE [row EXCEPT !.peer = p, !.state = "ACTIVE"] \in Row
  BY <1>3 DEF Row
<1> QED
  BY <1>1, <1>2, <1>4

\* ... and over a row of vk_confirmations a confirmation.
LEMMA CodeEdits ==
  ASSUME NEW row \in Confirmation
  PROVE  [row EXCEPT !.used = TRUE] \in Confirmation
  BY DEF Confirmation

\* The states that message_allow and message_deny set.
LEMMA TargetStates == \A op : TargetState(op) \in BindingState
  BY DEF TargetState, BindingState

\* A statement that touches no table keeps the tables typed.
LEMMA TablesUnchanged == TablesTyped /\ UNCHANGED tables => TablesTyped'
  BY DEF TablesTyped, tables

-----------------------------------------------------------------------------

\* Every statement of the API keeps the tables typed.
LEMMA ApiTablesTyped ==
  ASSUME TypeInv, TablesTyped, NEW w \in Worker, ApiStep(w)
  PROVE  TablesTyped'
<1> USE DEF TypeInv, TypeOK
<1>1. CASE Lookup(w) \/ Relookup(w) \/ Invalidate(w) \/ InvalidateDone(w)
             \/ PickCode(w) \/ SoftDelete(w) \/ Notify(w)
  <2>1. UNCHANGED tables
    BY <1>1 DEF Lookup, Relookup, Found, LogAndCommit, Invalidate, InvalidateDone,
                PickCode, SoftDelete, Notify, tables
  <2> QED
    BY <2>1, TablesUnchanged
<1>2. CASE Insert(w)
  <2>1. req[w].user \in User \cup {None}
    <3>1. req[w] \in Request \cup {NoRequest}
      OBVIOUS
    <3> QED
      BY <3>1 DEF Request, ApiRequest, ConfirmRequest, StateRequest, NoRequest
  <2>2. \A u \in User \cup {None} : [NoRow EXCEPT !.user = u] \in Row
    BY DEF NoRow, Row, BindingState
  <2> QED
    BY <1>2, <2>1, <2>2, WriteRowTyped, EndTyped DEF Insert
<1>3. CASE InvalidateOne(w)
  <2>1. \A c \in Code : [CodeFor(w, c) EXCEPT !.used = TRUE] \in Confirmation
    BY ReadsTyped, CodeEdits
  <2> QED
    BY <1>3, <2>1, WriteCodeTyped DEF InvalidateOne, Memory
<1>4. CASE StoreCode(w)
  <2>1. [rec |-> mem[w].rec, used |-> FALSE] \in Confirmation
    BY DEF Memory, Confirmation
  <2> QED
    BY <1>4, <2>1, WriteCodeTyped, EndTyped DEF StoreCode
<1>5. CASE SoftDeleteRow(w)
  <2>1. \A r \in Record : [RowFor(w, r) EXCEPT !.deleted = TRUE] \in Row
    BY ReadsTyped, RowEdits
  <2> QED
    BY <1>5, <2>1, WriteRowTyped, TablesUnchanged DEF SoftDeleteRow
<1> QED
  BY <1>1, <1>2, <1>3, <1>4, <1>5 DEF ApiStep

\* Every statement of the bot keeps the tables typed.
LEMMA BotTablesTyped ==
  ASSUME TypeInv, TablesTyped, NEW w \in Worker, BotStep(w)
  PROVE  TablesTyped'
<1> USE DEF TypeInv, TypeOK
<1>1. CASE RateLimit(w) \/ FetchCode(w) \/ FetchBinding(w) \/ Occupied(w) \/ FindPeer(w)
  <2>1. UNCHANGED tables
    BY <1>1 DEF RateLimit, FetchCode, FetchBinding, Occupied, FindPeer, LogAndCommit, tables
  <2> QED
    BY <2>1, TablesUnchanged
<1>2. CASE Activate(w)
  BY <1>2, ReadsTyped, WriteRowTyped, TablesUnchanged DEF Activate
<1>3. CASE ActivateIndex(w)
  <2>1. req[w].peer \in Peer
    BY <1>3 DEF ActivateIndex, ConfirmRequests, ConfirmRequest
  <2>2. \A row \in Row, p \in Peer : [row EXCEPT !.peer = p, !.state = "ACTIVE"] \in Row
    BY RowEdits
  <2> QED
    BY <1>3, <2>1, <2>2, ReadsTyped, WriteRowTyped, EndTyped DEF ActivateIndex
<1>4. CASE MarkUsed(w)
  <2>1. \A c \in Code : [CodeFor(w, c) EXCEPT !.used = TRUE] \in Confirmation
    BY ReadsTyped, CodeEdits
  <2> QED
    BY <1>4, <2>1, WriteCodeTyped DEF MarkUsed
<1>5. CASE SetState(w)
  <2>1. \A r \in Record : [RowFor(w, r) EXCEPT !.state = TargetState(req[w].op)] \in Row
    BY ReadsTyped, TargetStates, RowEdits
  <2> QED
    BY <1>5, <2>1, WriteRowTyped, TablesUnchanged DEF SetState
<1> QED
  BY <1>1, <1>2, <1>3, <1>4, <1>5 DEF BotStep

-----------------------------------------------------------------------------

\* Starting a request, and ending one, keeps the workers typed; so does any
\* step that only moves pc and writes the locals of one worker.
LEMMA StartTyped ==
  ASSUME TypeInv, NEW w \in Worker, Start(w)
  PROVE  WorkersTyped' /\ ConfirmRequests'
<1> USE DEF TypeInv, TypeOK, WorkersTyped, ConfirmRequests
<1>1. PICK q \in Request : /\ req' = [req EXCEPT ![w] = q]
                           /\ Goto(w, FirstStatement(q.op))
  BY DEF Start
<1>2. /\ FirstStatement(q.op) \in Statement
      /\ FirstStatement(q.op) = "ratelimit" => q \in ConfirmRequest
      /\ FirstStatement(q.op) \in {"lookup", "ratelimit", "findpeer"}
  <2>1. CASE q \in ApiRequest
    BY <2>1 DEF ApiRequest, FirstStatement, Statement
  <2>2. CASE q \in ConfirmRequest
    BY <2>2 DEF ConfirmRequest, FirstStatement, Statement
  <2>3. CASE q \in StateRequest
    BY <2>3 DEF StateRequest, FirstStatement, Statement
  <2> QED
    BY <2>1, <2>2, <2>3 DEF Request
<1>3. /\ expired' = expired /\ mem' = mem /\ crashes' = crashes
      /\ started' = started + 1
  BY DEF Start
<1> QED
  BY <1>1, <1>2, <1>3 DEF Goto

\* The end of a request.
LEMMA FinishTyped ==
  ASSUME TypeInv, NEW w \in Worker, Finish(w), UNCHANGED <<expired, started>>,
         crashes' \in Nat
  PROVE  WorkersTyped' /\ ConfirmRequests'
<1>1. NoMemory \in Memory /\ "idle" \in Statement
  BY DEF NoMemory, Memory, Statement
<1> QED
  BY <1>1 DEF Finish, Goto, TypeInv, TypeOK, WorkersTyped, ConfirmRequests

\* A statement that leads to label and leaves the locals m: typed when both are
\* and when a statement of confirm is only reached from one.
LEMMA StatementTyped ==
  ASSUME TypeInv, NEW w \in Worker, NEW label \in Statement,
         pc' = [pc EXCEPT ![w] = label], mem' \in [Worker -> Memory], Frame,
         \/ label \notin {"ratelimit", "fetchcode", "fetchbinding", "occupied",
                          "activate", "index", "markused"}
         \/ req[w] \in ConfirmRequest
  PROVE  WorkersTyped' /\ ConfirmRequests'
  BY DEF Frame, TypeInv, TypeOK, WorkersTyped, ConfirmRequests

\* Writing a local keeps the locals typed.
LEMMA LocalsTyped ==
  ASSUME TypeInv, NEW w \in Worker
  PROVE  /\ \A r \in Record : [mem EXCEPT ![w].rec = r] \in [Worker -> Memory]
         /\ \A c \in Code : [mem EXCEPT ![w].code = c] \in [Worker -> Memory]
         /\ \A s \in Status : [mem EXCEPT ![w].entry = s] \in [Worker -> Memory]
         /\ \A t \in SUBSET Code : [mem EXCEPT ![w].todo = t] \in [Worker -> Memory]
         /\ \A r \in Record \cup {None}, u \in BOOLEAN :
              [mem EXCEPT ![w].rec = r, ![w].used = u] \in [Worker -> Memory]
<1>1. mem \in [Worker -> Memory] /\ mem[w] \in Memory
  BY DEF TypeInv, TypeOK
<1>2. \A m \in Memory : [mem EXCEPT ![w] = m] \in [Worker -> Memory]
  BY <1>1
<1>3. ASSUME NEW r \in Record PROVE [mem EXCEPT ![w].rec = r] \in [Worker -> Memory]
  BY <1>1, <1>2 DEF Memory
<1>4. ASSUME NEW c \in Code PROVE [mem EXCEPT ![w].code = c] \in [Worker -> Memory]
  BY <1>1, <1>2 DEF Memory
<1>5. ASSUME NEW s \in Status PROVE [mem EXCEPT ![w].entry = s] \in [Worker -> Memory]
  BY <1>1, <1>2 DEF Memory
<1>6. ASSUME NEW t \in SUBSET Code PROVE [mem EXCEPT ![w].todo = t] \in [Worker -> Memory]
  BY <1>1, <1>2 DEF Memory
<1>7. ASSUME NEW r \in Record \cup {None}, NEW u \in BOOLEAN
      PROVE  [mem EXCEPT ![w].rec = r, ![w].used = u] \in [Worker -> Memory]
  BY <1>1, <1>2 DEF Memory
<1> QED
  BY <1>3, <1>4, <1>5, <1>6, <1>7

\* The locals after get_by_user_id.
LEMMA FoundTyped ==
  ASSUME TypeInv, NEW w \in Worker,
         NEW r \in Record, NEW e \in Status \cup {None}, NEW n \in Record \cup {None}
  PROVE  [mem EXCEPT ![w].rec = r, ![w].entry = e, ![w].notice = n] \in [Worker -> Memory]
<1>1. mem \in [Worker -> Memory] /\ mem[w] \in Memory
  BY DEF TypeInv, TypeOK
<1>2. \A m \in Memory : [mem EXCEPT ![w] = m] \in [Worker -> Memory]
  BY <1>1
<1> QED
  BY <1>1, <1>2 DEF Memory

\* log_action before the commit.
LEMMA LogAndCommitTyped ==
  ASSUME TypeInv, NEW w \in Worker, NEW s \in Status, Log(w, s), Goto(w, "commit"), Frame
  PROVE  WorkersTyped' /\ ConfirmRequests'
<1>1. "commit" \in Statement /\ mem' \in [Worker -> Memory]
  BY LocalsTyped DEF Log, Statement
<1> QED
  BY <1>1, StatementTyped DEF Goto

\* log_action of unlink, before the notification or the commit.
LEMMA LogUnlinkTyped ==
  ASSUME TypeInv, NEW w \in Worker, LogUnlink(w), Frame
  PROVE  WorkersTyped' /\ ConfirmRequests'
<1>1. "success" \in Status /\ mem' \in [Worker -> Memory]
  BY LocalsTyped DEF LogUnlink, Log, Status
<1>2. PICK label \in {"commit", "notify"} : pc' = [pc EXCEPT ![w] = label]
  BY DEF LogUnlink, Goto
<1> QED
  BY <1>1, <1>2, StatementTyped DEF Statement

\* Every statement of the API keeps the workers typed.
LEMMA ApiWorkersTyped ==
  ASSUME TypeInv, NEW w \in Worker, ApiStep(w)
  PROVE  WorkersTyped' /\ ConfirmRequests'
<1> USE DEF Goto
<1>0. mem \in [Worker -> Memory] /\ mem[w] \in Memory
  BY DEF TypeInv, TypeOK
<1>1. ASSUME NEW r \in Record, Found(w, r), Frame PROVE WorkersTyped' /\ ConfirmRequests'
  <2>1. PICK e \in Status \cup {None}, n \in Record \cup {None} :
          mem' = [mem EXCEPT ![w].rec = r, ![w].entry = e, ![w].notice = n]
    BY <1>0, <1>1 DEF Found, Memory, Status
  <2>2. PICK label \in {"raising", "commit", "invalidate"} : pc' = [pc EXCEPT ![w] = label]
    BY <1>1 DEF Found
  <2> QED
    BY <1>1, <2>1, <2>2, FoundTyped, StatementTyped DEF Statement
<1>2. CASE Lookup(w) \/ Relookup(w)
  <2>1. CASE \E r \in Record : Found(w, r)
    BY <1>1, <1>2, <2>1 DEF Lookup, Relookup
  <2>2. CASE LogAndCommit(w, "noop")
    BY <1>2, <2>2, LogAndCommitTyped DEF Lookup, Relookup, LogAndCommit, Status
  <2>3. CASE UNCHANGED mem /\ (Goto(w, "insert") \/ Goto(w, "raising"))
    BY <1>0, <1>2, <2>3, StatementTyped DEF Lookup, Relookup, Statement
  <2> QED
    BY <1>2, <2>1, <2>2, <2>3 DEF Lookup, Relookup
<1>3. CASE Insert(w)
  <2>1. mem' \in [Worker -> Memory]
    <3>1. CASE mem' = mem
      BY <1>0, <3>1
    <3>2. CASE \E r \in Record : mem' = [mem EXCEPT ![w].rec = r]
      BY <3>2, LocalsTyped
    <3> QED
      BY <1>3, <3>1, <3>2 DEF Insert
  <2>2. PICK label \in {"commit", "invalidate", "relookup"} : pc' = [pc EXCEPT ![w] = label]
    BY <1>3 DEF Insert
  <2> QED
    BY <1>3, <2>1, <2>2, StatementTyped DEF Insert, Statement
<1>4. CASE Invalidate(w)
  <2>1. mem' \in [Worker -> Memory]
    BY <1>4, LocalsTyped DEF Invalidate
  <2> QED
    BY <1>4, <2>1, StatementTyped DEF Invalidate, Statement
<1>5. CASE InvalidateOne(w)
  <2>1. mem' \in [Worker -> Memory]
    <3>1. PICK c \in mem[w].todo : mem' = [mem EXCEPT ![w].todo = mem[w].todo \ {c}]
      BY <1>0, <1>5 DEF InvalidateOne
    <3>2. mem[w].todo \ {c} \in SUBSET Code
      BY <1>0 DEF Memory
    <3> QED
      BY <3>1, <3>2, LocalsTyped
  <2> QED
    BY <1>5, <2>1 DEF InvalidateOne, Frame, TypeInv, TypeOK, WorkersTyped, ConfirmRequests
<1>6. CASE InvalidateDone(w)
  <2>1. PICK label \in {"pickcode", "softdelete"} : pc' = [pc EXCEPT ![w] = label]
    BY <1>6 DEF InvalidateDone
  <2> QED
    BY <1>0, <1>6, <2>1, StatementTyped DEF InvalidateDone, Statement
<1>7. CASE PickCode(w)
  <2>1. mem' \in [Worker -> Memory]
    <3>1. CASE mem' = mem
      BY <1>0, <3>1
    <3>2. CASE \E c \in Code : mem' = [mem EXCEPT ![w].code = c]
      BY <3>2, LocalsTyped
    <3> QED
      BY <1>7, <3>1, <3>2 DEF PickCode
  <2> QED
    BY <1>7, <2>1, StatementTyped DEF PickCode, Statement
<1>8. CASE StoreCode(w)
  <2>1. CASE Log(w, "success") /\ Goto(w, "commit")
    BY <1>8, <2>1, LogAndCommitTyped DEF StoreCode, Status
  <2>2. CASE UNCHANGED mem /\ Goto(w, "raising")
    BY <1>0, <1>8, <2>2, StatementTyped DEF StoreCode, Statement
  <2> QED
    BY <1>8, <2>1, <2>2 DEF StoreCode
<1>9. CASE SoftDelete(w)
  <2>1. CASE LogUnlink(w)
    BY <1>9, <2>1, LogUnlinkTyped DEF SoftDelete
  <2>2. CASE \E r \in Record : mem' = [mem EXCEPT ![w].rec = r] /\ Goto(w, "softdeleting")
    <3>1. mem' \in [Worker -> Memory]
      BY <2>2, LocalsTyped
    <3> QED
      BY <1>9, <2>2, <3>1, StatementTyped DEF SoftDelete, Statement
  <2> QED
    BY <1>9, <2>1, <2>2 DEF SoftDelete
<1>10. CASE SoftDeleteRow(w)
  BY <1>10, LogUnlinkTyped DEF SoftDeleteRow
<1>11. CASE Notify(w)
  BY <1>0, <1>11, StatementTyped DEF Notify, Statement
<1> QED
  BY <1>2, <1>3, <1>4, <1>5, <1>6, <1>7, <1>8, <1>9, <1>10, <1>11 DEF ApiStep

\* Every statement of the bot keeps the workers typed.
LEMMA BotWorkersTyped ==
  ASSUME TypeInv, NEW w \in Worker, BotStep(w)
  PROVE  WorkersTyped' /\ ConfirmRequests'
<1> USE DEF Goto
<1>0. mem \in [Worker -> Memory] /\ mem[w] \in Memory
  BY DEF TypeInv, TypeOK
<1>1. CASE RateLimit(w)
  BY <1>0, <1>1, LogAndCommitTyped, StatementTyped
     DEF RateLimit, LogAndCommit, Status, Statement, TypeInv, ConfirmRequests
<1>2. CASE FetchCode(w)
  <2>1. req[w] \in ConfirmRequest
    BY <1>2 DEF FetchCode, TypeInv, ConfirmRequests
  <2>2. CASE LogAndCommit(w, "not_found")
    BY <1>2, <2>2, LogAndCommitTyped DEF FetchCode, LogAndCommit, Status
  <2>3. CASE /\ mem' = [mem EXCEPT ![w].rec = CodeFor(w, req[w].code).rec,
                                   ![w].used = CodeFor(w, req[w].code).used]
             /\ Goto(w, "fetchbinding")
    <3>1. CodeFor(w, req[w].code) \in Confirmation
      BY <2>1 DEF CodeFor, ConfirmRequest, TypeInv, TypeOK
    <3>2. mem' \in [Worker -> Memory]
      BY <2>3, <3>1, LocalsTyped DEF Confirmation
    <3> QED
      BY <1>2, <2>1, <2>3, <3>2, StatementTyped DEF FetchCode, Statement
  <2> QED
    BY <1>2, <2>2, <2>3 DEF FetchCode
<1>3. CASE FetchBinding(w)
  <2>1. req[w] \in ConfirmRequest
    BY <1>3 DEF FetchBinding, TypeInv, ConfirmRequests
  <2>2. CASE \E s \in Status : LogAndCommit(w, s)
    BY <1>3, <2>2, LogAndCommitTyped DEF FetchBinding, LogAndCommit
  <2>3. CASE Goto(w, "occupied") /\ UNCHANGED mem
    BY <1>0, <1>3, <2>1, <2>3, StatementTyped DEF FetchBinding, Statement
  <2> DEFINE verdict == Verdict(RowFor(w, mem[w].rec), mem[w].used,
                                req[w].code \in expired, req[w].peer)
  <2>4. verdict # "open" => verdict \in Status
    BY DEF Verdict, Status
  <2>5. \/ verdict # "open" /\ LogAndCommit(w, verdict)
        \/ verdict = "open" /\ Goto(w, "occupied") /\ UNCHANGED <<tables, mem>>
    BY <1>3 DEF FetchBinding
  <2> HIDE DEF verdict
  <2> QED
    BY <2>2, <2>3, <2>4, <2>5
<1>4. CASE Occupied(w)
  BY <1>0, <1>4, LogAndCommitTyped, StatementTyped
     DEF Occupied, LogAndCommit, Status, Statement, TypeInv, ConfirmRequests
<1>5. CASE Activate(w)
  BY <1>0, <1>5, StatementTyped DEF Activate, Statement, TypeInv, ConfirmRequests
<1>6. CASE ActivateIndex(w)
  <2>1. CASE Goto(w, "markused") /\ UNCHANGED mem
    BY <1>0, <1>6, <2>1, StatementTyped
       DEF ActivateIndex, Statement, TypeInv, ConfirmRequests
  <2>2. CASE Log(w, "peer_conflict") /\ Goto(w, "commit")
    BY <1>6, <2>2, LogAndCommitTyped DEF ActivateIndex, Status
  <2> QED
    BY <1>6, <2>1, <2>2 DEF ActivateIndex
<1>7. CASE MarkUsed(w) \/ SetState(w)
  BY <1>7, LogAndCommitTyped DEF MarkUsed, SetState, Status
<1>8. CASE FindPeer(w)
  <2>1. CASE LogAndCommit(w, "no_binding")
    BY <1>8, <2>1, LogAndCommitTyped DEF FindPeer, LogAndCommit, Status
  <2>2. CASE \E r \in Record : mem' = [mem EXCEPT ![w].rec = r] /\ Goto(w, "setstate")
    <3>1. mem' \in [Worker -> Memory]
      BY <2>2, LocalsTyped
    <3> QED
      BY <1>8, <2>2, <3>1, StatementTyped DEF FindPeer, Statement
  <2> QED
    BY <1>8, <2>1, <2>2 DEF FindPeer
<1> QED
  BY <1>1, <1>2, <1>3, <1>4, <1>5, <1>6, <1>7, <1>8 DEF BotStep

-----------------------------------------------------------------------------

\* TypeInv holds at the start.
LEMMA InitTyped == Init => TypeInv
<1>1. NoRow \in Row /\ NoCode \in Confirmation /\ NoMemory \in Memory /\ "idle" \in Statement
  BY DEF NoRow, Row, BindingState, NoCode, Confirmation, NoMemory, Memory, Statement
<1> QED
  BY <1>1 DEF Init, TypeInv, TypeOK, ConfirmRequests

\* TypeInv is inductive.
LEMMA NextTyped == TypeInv /\ [Next]_vars => TypeInv'
<1> SUFFICES ASSUME TypeInv, [Next]_vars PROVE TypeInv'
  OBVIOUS
<1>0. TablesTyped /\ WorkersTyped
  BY DEF TypeInv, TypeOK, TablesTyped, WorkersTyped
<1>1. SUFFICES TablesTyped' /\ WorkersTyped' /\ ConfirmRequests'
  BY DEF TypeInv, TypeOK, TablesTyped, WorkersTyped
<1>2. ASSUME NEW w \in Worker, Start(w) PROVE TablesTyped' /\ WorkersTyped' /\ ConfirmRequests'
  BY <1>0, <1>2, StartTyped, TablesUnchanged DEF Start
<1>3. ASSUME NEW w \in Worker, ApiStep(w) PROVE TablesTyped' /\ WorkersTyped' /\ ConfirmRequests'
  BY <1>0, <1>3, ApiTablesTyped, ApiWorkersTyped
<1>4. ASSUME NEW w \in Worker, BotStep(w) PROVE TablesTyped' /\ WorkersTyped' /\ ConfirmRequests'
  BY <1>0, <1>4, BotTablesTyped, BotWorkersTyped
<1>5. ASSUME NEW w \in Worker, Commit(w) \/ Rollback(w) \/ Crash(w)
      PROVE  TablesTyped' /\ WorkersTyped' /\ ConfirmRequests'
  <2>1. Finish(w) /\ UNCHANGED <<expired, started>> /\ crashes' \in Nat
    BY <1>0, <1>5 DEF Commit, Rollback, Crash, WorkersTyped
  <2>2. TablesTyped'
    BY <1>0, <1>5, EndTyped DEF Rollback, Crash
  <2> QED
    BY <2>1, <2>2, FinishTyped
<1>6. ASSUME NEW w \in Worker, DeadlockVictim(w)
      PROVE  TablesTyped' /\ WorkersTyped' /\ ConfirmRequests'
  <2>1. TablesTyped'
    BY <1>0, <1>6, EndTyped DEF DeadlockVictim
  <2>2. mem' \in [Worker -> Memory]
    BY <1>0, <1>6 DEF DeadlockVictim, WorkersTyped
  <2> QED
    BY <1>6, <2>1, <2>2, StatementTyped DEF DeadlockVictim, Goto, Statement
<1>7. ASSUME NEW c \in Code, Expire(c) PROVE TablesTyped' /\ WorkersTyped' /\ ConfirmRequests'
  BY <1>0, <1>7, TablesUnchanged DEF Expire, WorkersTyped, TypeInv, ConfirmRequests
<1>8. CASE UNCHANGED vars
  BY <1>0, <1>8, TablesUnchanged DEF vars, WorkersTyped, TypeInv, ConfirmRequests
<1> QED
  BY <1>2, <1>3, <1>4, <1>5, <1>6, <1>7, <1>8 DEF Next, Step, EndStep, Quiet

\* Every request, statement and end of a transaction keeps the types.
THEOREM TypeCorrect == Spec => []TypeOK
<1>1. TypeInv => TypeOK
  BY DEF TypeInv
<1> QED
  BY <1>1, InitTyped, NextTyped, PTL DEF Spec
=============================================================================
