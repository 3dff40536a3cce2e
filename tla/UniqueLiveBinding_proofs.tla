---------------------- MODULE UniqueLiveBinding_proofs ----------------------
(* No two live bindings share a user or an account, whatever requests       *)
(* overlap.  The invariant speaks of every version of a row that may become *)
(* or remain the committed one: the committed row and the draft of the      *)
(* transaction that owns it.                                                *)
EXTENDS VkBinding_proofs

Version(r, v) == v = rows[r] \/ (rowOwner[r] # None /\ v = rowDraft[r])

Apart(v1, v2) ==
  Live(v1) /\ Live(v2) =>
    v1.user # v2.user /\ (v1.peer # None => v1.peer # v2.peer)

VersionsApart ==
  \A r1, r2 \in Record : r1 # r2 =>
    \A v1, v2 \in Row : Version(r1, v1) /\ Version(r2, v2) => Apart(v1, v2)

\* The statements at which a request may own a row of user_vks.
Owning == {"invalidate", "invalidating", "pickcode", "storecode", "raising",
           "index", "markused", "notify", "commit"}

\* A request owns one row at most, the one in its local record_id; before the
\* statement that takes it, none.  An unlink takes it last.
Ownership ==
  \A r \in Record, w \in Worker : rowOwner[r] = w =>
    /\ pc[w] \in Owning
    /\ r = mem[w].rec
    /\ pc[w] \in {"invalidate", "invalidating"} => req[w].op = "issue"

\* Only ensure_binding and issue_confirmation insert.
Inserts ==
  \A w \in Worker :
    /\ pc[w] = "lookup" => req[w].op \in {"ensure", "issue", "unlink"}
    /\ pc[w] = "insert" => req[w].op \in {"ensure", "issue"}

IInv == TypeInv /\ Ownership /\ Inserts /\ VersionsApart

-----------------------------------------------------------------------------
(* Ownership.                                                              *)

\* A statement of w that takes no row and stays where its rows may be owned,
\* or leaves when it owns none.
LEMMA KeepsOwnership ==
  ASSUME TypeInv, Ownership, NEW w \in Worker,
         UNCHANGED <<rowOwner, req>>,
         \A v \in Worker \ {w} : pc'[v] = pc[v] /\ mem'[v] = mem[v],
         \/ \A r \in Record : rowOwner[r] # w
         \/ /\ pc'[w] \in Owning \ {"invalidate", "invalidating"}
            /\ mem'[w].rec = mem[w].rec
         \/ /\ pc'[w] \in {"invalidate", "invalidating"}
            /\ pc[w] \in {"invalidate", "invalidating"}
            /\ mem'[w].rec = mem[w].rec
  PROVE  Ownership'
  BY DEF Ownership, Owning

\* The end of a transaction: w owns nothing.
LEMMA ReleaseOwnership ==
  ASSUME TypeInv, Ownership, NEW w \in Worker, Release(w),
         \A v \in Worker \ {w} : pc'[v] = pc[v] /\ mem'[v] = mem[v] /\ req'[v] = req[v]
  PROVE  Ownership'
<1>1. None \notin Worker
  BY BindingAssumption
<1>2. \A r \in Record : rowOwner'[r] = IF rowOwner[r] = w THEN None ELSE rowOwner[r]
  BY DEF Release
<1>3. ASSUME NEW r \in Record, NEW v \in Worker, rowOwner'[r] = v
      PROVE  v # w /\ rowOwner[r] = v
  BY <1>1, <1>2, <1>3
<1> QED
  BY <1>3 DEF Ownership

\* Taking the row mem[w].rec.
LEMMA WriteOwnership ==
  ASSUME TypeInv, Ownership, NEW w \in Worker, NEW r \in Record, NEW row,
         WriteRow(w, r, row), UNCHANGED req,
         \A v \in Worker \ {w} : pc'[v] = pc[v] /\ mem'[v] = mem[v],
         mem'[w].rec = r,
         \A s \in Record : rowOwner[s] = w => s = r,
         pc'[w] \in Owning,
         pc'[w] \in {"invalidate", "invalidating"} => req[w].op = "issue"
  PROVE  Ownership'
<1>1. \A s \in Record : rowOwner'[s] = IF s = r THEN w ELSE rowOwner[s]
  BY DEF WriteRow, TypeInv, TypeOK
<1> QED
  BY <1>1 DEF Ownership, Owning

\* The workers other than w keep their place and their locals.
Others(w) ==
  \A v \in Worker \ {w} : pc'[v] = pc[v] /\ mem'[v] = mem[v] /\ req'[v] = req[v]

LEMMA StepOthers ==
  ASSUME TypeInv, NEW w \in Worker, Start(w) \/ Step(w) \/ Crash(w)
  PROVE  Others(w)
<1> USE DEF Others, TypeInv, TypeOK, Goto, Frame
<1>1. CASE Start(w)
  BY <1>1 DEF Start
<1>2. CASE ApiStep(w)
  BY <1>2 DEF ApiStep, Lookup, Insert, Relookup, Invalidate, InvalidateOne, InvalidateDone,
              PickCode, StoreCode, SoftDelete, SoftDeleteRow, Notify, Found, LogAndCommit,
              LogUnlink, Log
<1>3. CASE BotStep(w)
  BY <1>3 DEF BotStep, RateLimit, FetchCode, FetchBinding, Occupied, Activate, ActivateIndex,
              MarkUsed, FindPeer, SetState, LogAndCommit, Log
<1>4. CASE Commit(w) \/ Rollback(w) \/ DeadlockVictim(w) \/ Crash(w)
  BY <1>4 DEF Commit, Rollback, DeadlockVictim, Crash, Finish
<1> QED
  BY <1>1, <1>2, <1>3, <1>4 DEF Step, EndStep

\* A request that is not at one of the Owning statements owns no row.
LEMMA OwnsNothing ==
  ASSUME Ownership, NEW w \in Worker, pc[w] \notin Owning
  PROVE  \A r \in Record : rowOwner[r] # w
  BY DEF Ownership

LEMMA StartOwnership ==
  ASSUME TypeInv, Ownership, NEW w \in Worker, Start(w)
  PROVE  Ownership'
<1>1. pc[w] = "idle" /\ UNCHANGED <<rowOwner, mem>>
  BY DEF Start, tables
<1>2. \A r \in Record : rowOwner[r] # w
  BY <1>1, OwnsNothing DEF Owning
<1>3. Others(w)
  BY StepOthers
<1> QED
  BY <1>1, <1>2, <1>3 DEF Others, Ownership

LEMMA ApiOwnership ==
  ASSUME TypeInv, Ownership, Inserts, NEW w \in Worker, ApiStep(w)
  PROVE  Ownership'
<1>1. Others(w)
  BY StepOthers DEF Step
<1>2. pc \in [Worker -> Statement] /\ mem \in [Worker -> Memory]
  BY DEF TypeInv, TypeOK
<1>3. UNCHANGED req
  BY DEF ApiStep, Lookup, Insert, Relookup, Invalidate, InvalidateOne, InvalidateDone,
         PickCode, StoreCode, SoftDelete, SoftDeleteRow, Notify, Frame
<1>4. CASE Lookup(w) \/ Relookup(w) \/ SoftDelete(w)
  <2>1. pc[w] \in {"lookup", "relookup", "softdelete"} /\ UNCHANGED rowOwner
    BY <1>4 DEF Lookup, Relookup, SoftDelete, Found, LogAndCommit, tables
  <2>2. \A r \in Record : rowOwner[r] # w
    BY <2>1, OwnsNothing DEF Owning
  <2> QED
    BY <1>1, <1>3, <2>1, <2>2, KeepsOwnership DEF Others
<1>5. CASE Insert(w)
  <2>1. \A r \in Record : rowOwner[r] # w
    BY <1>5, OwnsNothing DEF Insert, Owning
  <2>2. CASE Undo(w)
    BY <2>2, <1>1, ReleaseOwnership DEF Undo, Others
  <2>3. CASE ~UserTaken(w, req[w].user)
    <3>1. PICK r \in Record :
             /\ WriteRow(w, r, [NoRow EXCEPT !.user = req[w].user])
             /\ mem' = [mem EXCEPT ![w].rec = r]
      BY <1>5, <2>3 DEF Insert
    <3>2. mem'[w].rec = r
      BY <1>2, <3>1 DEF Memory
    <3>3. pc'[w] \in {"commit", "invalidate"} /\ (pc'[w] = "invalidate" => req[w].op = "issue")
      BY <1>2, <1>5, <2>3 DEF Insert, Goto, Inserts
    <3> QED
      BY <1>1, <1>3, <2>1, <3>1, <3>2, <3>3, WriteOwnership DEF Others, Owning
  <2> QED
    BY <1>5, <2>2, <2>3 DEF Insert
<1>6. CASE Invalidate(w)
  <2>1. UNCHANGED rowOwner /\ pc[w] = "invalidate" /\ pc'[w] = "invalidating"
        /\ mem'[w].rec = mem[w].rec
    BY <1>2, <1>6 DEF Invalidate, Goto, tables, Memory
  <2> QED
    BY <1>1, <1>3, <2>1, KeepsOwnership DEF Others
<1>7. CASE InvalidateOne(w)
  <2>1. UNCHANGED rowOwner /\ pc[w] = "invalidating" /\ pc'[w] = "invalidating"
        /\ mem'[w].rec = mem[w].rec
    BY <1>2, <1>7 DEF InvalidateOne, WriteCode, Memory
  <2> QED
    BY <1>1, <1>3, <2>1, KeepsOwnership DEF Others
<1>8. CASE InvalidateDone(w)
  <2>1. UNCHANGED <<rowOwner, mem>> /\ pc[w] = "invalidating"
        /\ pc'[w] = IF req[w].op = "issue" THEN "pickcode" ELSE "softdelete"
    BY <1>2, <1>8 DEF InvalidateDone, Goto, tables
  <2>2. (\A r \in Record : rowOwner[r] # w) \/ pc'[w] = "pickcode"
    BY <2>1 DEF Ownership
  <2> QED
    BY <1>1, <1>3, <2>1, <2>2, KeepsOwnership DEF Others, Owning
<1>9. CASE PickCode(w)
  <2>1. UNCHANGED rowOwner /\ pc'[w] \in {"storecode", "raising"} /\ mem'[w].rec = mem[w].rec
    BY <1>2, <1>9 DEF PickCode, Goto, tables, Memory
  <2> QED
    BY <1>1, <1>3, <2>1, KeepsOwnership DEF Others, Owning
<1>10. CASE StoreCode(w)
  <2>1. CASE Undo(w)
    BY <2>1, <1>1, ReleaseOwnership DEF Undo, Others
  <2>2. CASE UNCHANGED rowOwner /\ Log(w, "success") /\ Goto(w, "commit")
    <3>1. pc'[w] = "commit" /\ mem'[w].rec = mem[w].rec
      BY <1>2, <2>2 DEF Goto, Log, Memory
    <3> QED
      BY <1>1, <1>3, <2>2, <3>1, KeepsOwnership DEF Others, Owning
  <2> QED
    BY <1>10, <2>1, <2>2 DEF StoreCode, WriteCode
<1>11. CASE SoftDeleteRow(w)
  <2>1. \A r \in Record : rowOwner[r] # w
    BY <1>11, OwnsNothing DEF SoftDeleteRow, Owning
  <2>2. pc'[w] \in {"notify", "commit"} /\ mem'[w].rec = mem[w].rec
    BY <1>2, <1>11 DEF SoftDeleteRow, LogUnlink, Goto, Log, Memory
  <2>3. CASE UNCHANGED tables
    BY <1>1, <1>3, <2>1, <2>3, KeepsOwnership DEF Others, tables
  <2>4. CASE WriteRow(w, mem[w].rec, [RowFor(w, mem[w].rec) EXCEPT !.deleted = TRUE])
    <3>1. CASE mem[w].rec \in Record
      BY <1>1, <1>3, <2>1, <2>2, <2>4, <3>1, WriteOwnership DEF Others, Owning
    <3>2. CASE mem[w].rec \notin Record
      <4>1. \A r \in Record : rowOwner'[r] = rowOwner[r]
        BY <2>4, <3>2 DEF WriteRow, TypeInv, TypeOK
      <4> QED
        BY <1>1, <2>1, <4>1 DEF Ownership, Others
    <3> QED
      BY <3>1, <3>2
  <2> QED
    BY <1>11, <2>3, <2>4 DEF SoftDeleteRow
<1>12. CASE Notify(w)
  <2>1. UNCHANGED <<rowOwner, mem>> /\ pc'[w] = "commit"
    BY <1>2, <1>12 DEF Notify, Goto, tables
  <2> QED
    BY <1>1, <1>3, <2>1, KeepsOwnership DEF Others, Owning
<1> QED
  BY <1>4, <1>5, <1>6, <1>7, <1>8, <1>9, <1>10, <1>11, <1>12 DEF ApiStep

LEMMA BotOwnership ==
  ASSUME TypeInv, Ownership, NEW w \in Worker, BotStep(w)
  PROVE  Ownership'
<1>1. Others(w)
  BY StepOthers DEF Step
<1>2. pc \in [Worker -> Statement] /\ mem \in [Worker -> Memory]
  BY DEF TypeInv, TypeOK
<1>3. UNCHANGED req
  BY DEF BotStep, RateLimit, FetchCode, FetchBinding, Occupied, Activate, ActivateIndex,
         MarkUsed, FindPeer, SetState, Frame
<1>4. CASE RateLimit(w) \/ FetchCode(w) \/ FetchBinding(w) \/ Occupied(w) \/ FindPeer(w)
  <2>1. pc[w] \in {"ratelimit", "fetchcode", "fetchbinding", "occupied", "findpeer"}
        /\ UNCHANGED rowOwner
    BY <1>4 DEF RateLimit, FetchCode, FetchBinding, Occupied, FindPeer, LogAndCommit, tables
  <2>2. \A r \in Record : rowOwner[r] # w
    BY <2>1, OwnsNothing DEF Owning
  <2> QED
    BY <1>1, <1>3, <2>1, <2>2, KeepsOwnership DEF Others
<1>5. ASSUME pc[w] \in {"activate", "setstate"}, mem'[w].rec = mem[w].rec,
             pc'[w] \in {"raising", "index", "commit"},
             \/ UNCHANGED tables
             \/ \E row : WriteRow(w, mem[w].rec, row)
      PROVE  Ownership'
  <2>1. \A r \in Record : rowOwner[r] # w
    BY <1>5, OwnsNothing DEF Owning
  <2>2. CASE UNCHANGED tables
    BY <1>1, <1>3, <2>1, <2>2, KeepsOwnership DEF Others, tables
  <2>3. CASE \E row : WriteRow(w, mem[w].rec, row)
    <3>1. CASE mem[w].rec \in Record
      BY <1>1, <1>3, <1>5, <2>1, <2>3, <3>1, WriteOwnership DEF Others, Owning
    <3>2. CASE mem[w].rec \notin Record
      <4>1. \A r \in Record : rowOwner'[r] = rowOwner[r]
        BY <2>3, <3>2 DEF WriteRow, TypeInv, TypeOK
      <4> QED
        BY <1>1, <2>1, <4>1 DEF Ownership, Others
    <3> QED
      BY <3>1, <3>2
  <2> QED
    BY <1>5, <2>2, <2>3
<1>6. CASE Activate(w)
  <2>1. pc[w] = "activate" /\ mem'[w].rec = mem[w].rec /\ pc'[w] \in {"raising", "index"}
    BY <1>2, <1>6 DEF Activate, Goto
  <2>2. UNCHANGED tables \/ \E row : WriteRow(w, mem[w].rec, row)
    BY <1>6 DEF Activate
  <2> QED
    BY <1>5, <2>1, <2>2
<1>7. CASE SetState(w)
  <2>1. pc[w] = "setstate" /\ mem'[w].rec = mem[w].rec /\ pc'[w] = "commit"
    BY <1>2, <1>7 DEF SetState, Goto, Log, Memory
  <2>2. UNCHANGED tables \/ \E row : WriteRow(w, mem[w].rec, row)
    BY <1>7 DEF SetState
  <2> QED
    BY <1>5, <2>1, <2>2
<1>8. CASE ActivateIndex(w)
  <2>1. CASE Undo(w)
    BY <2>1, <1>1, ReleaseOwnership DEF Undo, Others
  <2>2. CASE ~PeerTaken(w, mem[w].rec, req[w].peer)
    <3>1. PICK row : WriteRow(w, mem[w].rec, row)
      BY <1>8, <2>2 DEF ActivateIndex
    <3>2. pc[w] = "index" /\ pc'[w] = "markused" /\ UNCHANGED mem
      BY <1>2, <1>8, <2>2 DEF ActivateIndex, Goto
    <3>3. \A s \in Record : rowOwner[s] = w => s = mem[w].rec
      BY DEF Ownership
    <3>4. CASE mem[w].rec \in Record
      BY <1>1, <1>3, <3>1, <3>2, <3>3, <3>4, WriteOwnership DEF Others, Owning
    <3>5. CASE mem[w].rec \notin Record
      <4>1. \A r \in Record : rowOwner'[r] = rowOwner[r]
        BY <3>1, <3>5 DEF WriteRow, TypeInv, TypeOK
      <4> QED
        BY <1>1, <1>3, <3>2, <3>3, <3>5, <4>1 DEF Ownership, Others
    <3> QED
      BY <3>4, <3>5
  <2> QED
    BY <1>8, <2>1, <2>2 DEF ActivateIndex
<1>9. CASE MarkUsed(w)
  <2>1. UNCHANGED rowOwner /\ pc'[w] = "commit" /\ mem'[w].rec = mem[w].rec
    BY <1>2, <1>9 DEF MarkUsed, WriteCode, Goto, Log, Memory
  <2> QED
    BY <1>1, <1>3, <2>1, KeepsOwnership DEF Others, Owning
<1> QED
  BY <1>4, <1>6, <1>7, <1>8, <1>9 DEF BotStep

LEMMA EndOwnership ==
  ASSUME TypeInv, Ownership, NEW w \in Worker, EndStep(w) \/ Crash(w)
  PROVE  Ownership'
<1>1. Others(w)
  BY StepOthers DEF Step
<1>2. Release(w)
  BY DEF EndStep, Commit, Rollback, DeadlockVictim, Crash, Undo
<1> QED
  BY <1>1, <1>2, ReleaseOwnership DEF Others

-----------------------------------------------------------------------------
(* Which requests insert.                                                  *)

LEMMA StepInserts ==
  ASSUME TypeInv, Inserts, NEW w \in Worker, Start(w) \/ Step(w) \/ Crash(w)
  PROVE  Inserts'
<1>1. Others(w)
  BY StepOthers
<1>2. pc \in [Worker -> Statement] /\ req \in [Worker -> Request \cup {NoRequest}]
  BY DEF TypeInv, TypeOK
<1>3. SUFFICES /\ pc'[w] = "lookup" => req'[w].op \in {"ensure", "issue", "unlink"}
               /\ pc'[w] = "insert" => req'[w].op \in {"ensure", "issue"}
  BY <1>1 DEF Inserts, Others
<1>4. CASE Start(w)
  <2>1. PICK q \in Request : req'[w] = q /\ pc'[w] = FirstStatement(q.op)
    BY <1>2, <1>4 DEF Start, Goto
  <2>2. q \in ApiRequest \/ q.op \in {"confirm", "deny", "allow"}
    BY DEF Request, ConfirmRequest, StateRequest
  <2>3. q.op \in {"ensure", "issue", "unlink"} \/ pc'[w] \in {"ratelimit", "findpeer"}
    BY <2>1, <2>2 DEF FirstStatement, ApiRequest
  <2>4. q.op \in {"ensure", "issue", "unlink", "confirm", "deny", "allow"}
    BY <2>2 DEF ApiRequest
  <2>5. pc'[w] # "insert"
    BY <2>1, <2>4 DEF FirstStatement
  <2> QED
    BY <2>1, <2>3, <2>5
<1>5. CASE Lookup(w)
  BY <1>2, <1>5 DEF Lookup, Found, LogAndCommit, Goto, Frame, Inserts
<1>6. CASE Step(w) /\ ~Lookup(w)
  <2>1. CASE ApiStep(w)
    BY <1>2, <1>6, <2>1 DEF ApiStep, Insert, Relookup, Invalidate, InvalidateOne, InvalidateDone,
       PickCode, StoreCode, SoftDelete, SoftDeleteRow, Notify, Found, LogAndCommit, LogUnlink,
       Goto
  <2>2. CASE BotStep(w)
    BY <1>2, <2>2 DEF BotStep, RateLimit, FetchCode, FetchBinding, Occupied, Activate,
       ActivateIndex, MarkUsed, FindPeer, SetState, LogAndCommit, Goto
  <2>3. CASE EndStep(w)
    BY <1>2, <2>3 DEF EndStep, Commit, Rollback, DeadlockVictim, Finish, Goto
  <2> QED
    BY <1>6, <2>1, <2>2, <2>3 DEF Step
<1>7. CASE Crash(w)
  BY <1>2, <1>7 DEF Crash, Finish, Goto
<1> QED
  BY <1>4, <1>5, <1>6, <1>7

-----------------------------------------------------------------------------
(* Versions.                                                               *)

Covers(v0, v) == Live(v0) /\ v0.user = v.user /\ v0.peer = v.peer

\* A step that brings no new user or account to a row that is live keeps the
\* versions apart.
LEMMA CoveredVersions ==
  ASSUME VersionsApart,
         \A r \in Record, v \in Row :
           Version(r, v)' /\ Live(v) => \E v0 \in Row : Version(r, v0) /\ Covers(v0, v)
  PROVE  VersionsApart'
<1> SUFFICES ASSUME NEW r1 \in Record, NEW r2 \in Record, r1 # r2,
                    NEW v1 \in Row, NEW v2 \in Row, Version(r1, v1)', Version(r2, v2)',
                    Live(v1), Live(v2)
             PROVE  v1.user # v2.user /\ (v1.peer # None => v1.peer # v2.peer)
  BY DEF VersionsApart, Apart
<1>1. PICK u1 \in Row : Version(r1, u1) /\ Covers(u1, v1)
  OBVIOUS
<1>2. PICK u2 \in Row : Version(r2, u2) /\ Covers(u2, v2)
  OBVIOUS
<1>3. Apart(u1, u2)
  BY <1>1, <1>2 DEF VersionsApart
<1> QED
  BY <1>1, <1>2, <1>3 DEF Apart, Covers

\* A write whose row keeps the user and account of what w reads, or is deleted.
LEMMA CoveredWrite ==
  ASSUME TypeInv, VersionsApart, NEW w \in Worker, NEW r \in Record, NEW row,
         WriteRow(w, r, row),
         Live(row) => Covers(RowFor(w, r), row)
  PROVE  VersionsApart'
<1>1. None \notin Worker
  BY BindingAssumption
<1>2. /\ \A s \in Record : rowOwner'[s] = IF s = r THEN w ELSE rowOwner[s]
      /\ \A s \in Record : rowDraft'[s] = IF s = r THEN row ELSE rowDraft[s]
      /\ rows' = rows
  BY DEF WriteRow, TypeInv, TypeOK
<1>3. RowFor(w, r) \in Row /\ Version(r, RowFor(w, r))
  BY <1>1 DEF RowFor, Version, TypeInv, TypeOK
<1>4. ASSUME NEW s \in Record, NEW v \in Row, Version(s, v)', Live(v)
      PROVE  \E v0 \in Row : Version(s, v0) /\ Covers(v0, v)
  <2>1. CASE Version(s, v)
    BY <1>4, <2>1 DEF Covers
  <2>2. CASE ~Version(s, v)
    <3>1. s = r /\ v = row
      BY <1>2, <1>4, <2>2 DEF Version
    <3> QED
      BY <1>3, <1>4, <3>1
  <2> QED
    BY <2>1, <2>2
<1> QED
  BY <1>4, CoveredVersions

\* The end of a transaction, its drafts installed or not.
LEMMA EndVersions ==
  ASSUME TypeInv, VersionsApart, NEW w \in Worker, Commit(w) \/ Undo(w)
  PROVE  VersionsApart'
<1>1. None \notin Worker
  BY BindingAssumption
<1>2. \A s \in Record : rows'[s] \in {rows[s], RowFor(w, s)}
  BY DEF Commit, Undo, TypeInv, TypeOK
<1>3. /\ \A s \in Record : rowOwner'[s] = IF rowOwner[s] = w THEN None ELSE rowOwner[s]
      /\ \A s \in Record : rowOwner[s] # w => rowDraft'[s] = rowDraft[s]
  BY DEF Commit, Undo, Release
<1>4. ASSUME NEW s \in Record, NEW v \in Row, Version(s, v)', Live(v)
      PROVE  Version(s, v)
  BY <1>1, <1>2, <1>3, <1>4 DEF Version, RowFor
<1> QED
  BY <1>4, CoveredVersions DEF Covers

\* The tables of bindings are not touched.
LEMMA SameVersions ==
  ASSUME VersionsApart, UNCHANGED <<rows, rowOwner, rowDraft>>
  PROVE  VersionsApart'
  BY DEF VersionsApart, Version

\* A new version may bring a user or an account that no version another
\* transaction could commit has: that is what the unique check has waited for.
LEMMA NewVersion ==
  ASSUME TypeInv, VersionsApart, NEW w \in Worker, NEW r \in Record, NEW row \in Row,
         WriteRow(w, r, row),
         \A s \in Record, v \in Row : s # r /\ Version(s, v) => Apart(row, v)
  PROVE  VersionsApart'
<1>1. /\ \A s \in Record : rowOwner'[s] = IF s = r THEN w ELSE rowOwner[s]
      /\ \A s \in Record : rowDraft'[s] = IF s = r THEN row ELSE rowDraft[s]
      /\ rows' = rows
  BY DEF WriteRow, TypeInv, TypeOK
<1>2. ASSUME NEW s \in Record, NEW v \in Row, Version(s, v)'
      PROVE  Version(s, v) \/ (s = r /\ v = row)
  BY <1>1, <1>2 DEF Version
<1> SUFFICES ASSUME NEW r1 \in Record, NEW r2 \in Record, r1 # r2,
                    NEW v1 \in Row, NEW v2 \in Row, Version(r1, v1)', Version(r2, v2)'
             PROVE  Apart(v1, v2)
  BY DEF VersionsApart, Apart
<1>3. CASE Version(r1, v1) /\ Version(r2, v2)
  BY <1>3 DEF VersionsApart
<1>4. CASE r1 = r /\ v1 = row /\ Version(r2, v2)
  BY <1>4
<1>5. CASE r2 = r /\ v2 = row /\ Version(r1, v1)
  <2>1. Apart(v2, v1)
    BY <1>5
  <2> QED
    BY <2>1 DEF Apart
<1> QED
  BY <1>2, <1>3, <1>4, <1>5

\* The version of another row that transaction w sees or waits for.
LEMMA OtherVersion ==
  ASSUME TypeInv, Ownership, NEW w \in Worker, NEW s \in Record, NEW v \in Row,
         rowOwner[s] # w, Version(s, v)
  PROVE  \/ RowFree(w, s) /\ v = RowFor(w, s)
         \/ ~RowFree(w, s) /\ v \in {rows[s], rowDraft[s]}
  BY DEF Version, RowFree, RowFor

LEMMA InsertVersions ==
  ASSUME TypeInv, Ownership, VersionsApart, NEW w \in Worker, Insert(w)
  PROVE  VersionsApart'
<1>1. CASE Undo(w)
  BY <1>1, EndVersions
<1>2. CASE ~UserTaken(w, req[w].user)
  <2> DEFINE u   == req[w].user
             row == [NoRow EXCEPT !.user = u]
  <2>1. PICK r \in Record : WriteRow(w, r, row)
    BY <1>2 DEF Insert
  <2>2. u \in User \cup {None}
    BY DEF TypeInv, TypeOK, Request, ApiRequest, ConfirmRequest, StateRequest, NoRequest
  <2>3. row \in Row /\ row.user = u /\ row.peer = None
    BY <2>2 DEF NoRow, Row, BindingState
  <2>4. \A s \in Record : rowOwner[s] # w
    BY OwnsNothing DEF Insert, Owning
  <2>5. ASSUME NEW s \in Record, NEW v \in Row, Version(s, v), Live(v)
        PROVE  v.user # u
    <3>1. ~HasUser(RowFor(w, s), u)
      BY <1>2 DEF UserTaken
    <3>2. ~RowFree(w, s) => ~HasUser(rows[s], u) /\ ~HasUser(rowDraft[s], u)
      BY DEF Insert, UserPending
    <3>3. ~HasUser(v, u)
      BY <2>4, <2>5, <3>1, <3>2, OtherVersion
    <3> QED
      BY <2>5, <3>3 DEF HasUser
  <2>6. \A s \in Record, v \in Row : s # r /\ Version(s, v) => Apart(row, v)
    BY <2>3, <2>5 DEF Apart
  <2> HIDE DEF u, row
  <2> QED
    BY <2>1, <2>3, <2>6, NewVersion
<1> QED
  BY <1>1, <1>2 DEF Insert

LEMMA ActivateIndexVersions ==
  ASSUME TypeInv, Ownership, VersionsApart, NEW w \in Worker, ActivateIndex(w)
  PROVE  VersionsApart'
<1>1. CASE Undo(w)
  BY <1>1, EndVersions
<1>2. CASE ~PeerTaken(w, mem[w].rec, req[w].peer)
  <2> DEFINE p   == req[w].peer
             r   == mem[w].rec
             old == RowFor(w, r)
             row == [old EXCEPT !.peer = p, !.state = "ACTIVE"]
  <2>1. WriteRow(w, r, row)
    BY <1>2 DEF ActivateIndex
  <2>2. CASE r \notin Record
    <3>1. rows' = rows
      BY <2>1 DEF WriteRow
    <3>2. \A s \in Record : rowOwner'[s] = rowOwner[s] /\ rowDraft'[s] = rowDraft[s]
      BY <2>1, <2>2 DEF WriteRow, TypeInv, TypeOK
    <3> QED
      BY <3>1, <3>2 DEF VersionsApart, Version
  <2>3. CASE r \in Record
    <3>1. p \in Peer
      BY DEF ActivateIndex, TypeInv, ConfirmRequests, ConfirmRequest
    <3>2. None \notin Worker
      BY BindingAssumption
    <3>3. old \in Row /\ Version(r, old)
      BY <2>3, <3>2 DEF RowFor, Version, TypeInv, TypeOK
    <3>4. /\ row \in Row /\ row.peer = p /\ row.user = old.user
          /\ row.deleted = old.deleted
      BY <3>1, <3>3 DEF Row, BindingState
    <3>5. ASSUME NEW s \in Record, s # r, NEW v \in Row, Version(s, v), Live(v)
          PROVE  v.peer # p
      <4>1. rowOwner[s] # w
        BY <3>5 DEF Ownership
      <4>2. ~HasPeer(RowFor(w, s), p)
        BY <1>2, <3>5 DEF PeerTaken
      <4>3. ~RowFree(w, s) => ~HasPeer(rows[s], p) /\ ~HasPeer(rowDraft[s], p)
        BY <3>5 DEF ActivateIndex, PeerPending
      <4>4. ~HasPeer(v, p)
        BY <3>5, <4>1, <4>2, <4>3, OtherVersion
      <4> QED
        BY <3>5, <4>4 DEF HasPeer
    <3>6. ASSUME NEW s \in Record, s # r, NEW v \in Row, Version(s, v)
          PROVE  Apart(row, v)
      <4>1. Apart(old, v)
        BY <2>3, <3>3, <3>6 DEF VersionsApart
      <4>2. Live(row) => Live(old)
        BY <3>4 DEF Live
      <4> HIDE DEF row, old, r, p
      <4> QED
        BY <3>4, <3>5, <3>6, <4>1, <4>2 DEF Apart
    <3> HIDE DEF row, old, p
    <3> QED
      BY <2>1, <2>3, <3>4, <3>6, NewVersion
  <2> QED
    BY <2>2, <2>3
<1> QED
  BY <1>1, <1>2 DEF ActivateIndex

LEMMA StepVersions ==
  ASSUME TypeInv, Ownership, VersionsApart, NEW w \in Worker, Start(w) \/ Step(w) \/ Crash(w)
  PROVE  VersionsApart'
<1> DEFINE same == UNCHANGED <<rows, rowOwner, rowDraft>>
           old(r) == RowFor(w, r)
<1>1. CASE Start(w)
  BY <1>1, SameVersions DEF Start, tables
<1>2. CASE Lookup(w) \/ Relookup(w) \/ Invalidate(w) \/ InvalidateDone(w) \/ PickCode(w)
           \/ SoftDelete(w) \/ Notify(w) \/ InvalidateOne(w)
  <2>1. same
    BY <1>2 DEF Lookup, Relookup, Invalidate, InvalidateDone, PickCode, SoftDelete, Notify,
                InvalidateOne, Found, LogAndCommit, WriteCode, tables
  <2> QED
    BY <2>1, SameVersions
<1>3. CASE StoreCode(w)
  <2>1. same \/ Undo(w)
    BY <1>3 DEF StoreCode, WriteCode
  <2> QED
    BY <2>1, SameVersions, EndVersions
<1>4. CASE RateLimit(w) \/ FetchCode(w) \/ FetchBinding(w) \/ Occupied(w) \/ FindPeer(w)
           \/ MarkUsed(w)
  <2>1. same
    BY <1>4 DEF RateLimit, FetchCode, FetchBinding, Occupied, FindPeer, MarkUsed,
                LogAndCommit, WriteCode, tables
  <2> QED
    BY <2>1, SameVersions
<1>5. CASE Insert(w)
  BY <1>5, InsertVersions
<1>6. CASE ActivateIndex(w)
  BY <1>6, ActivateIndexVersions
\* The other writers of a row: the row they write has the user and the account
\* of the row they read, or is deleted.
<1>7. CASE Activate(w) \/ SetState(w) \/ SoftDeleteRow(w)
  <2> DEFINE r == mem[w].rec
  <2>1. \/ UNCHANGED tables
        \/ ~rows[r].deleted /\ WriteRow(w, r, old(r))
        \/ WriteRow(w, r, [old(r) EXCEPT !.state = TargetState(req[w].op)])
        \/ WriteRow(w, r, [old(r) EXCEPT !.deleted = TRUE])
    BY <1>7 DEF Activate, SetState, SoftDeleteRow
  <2>2. CASE UNCHANGED tables
    BY <2>2, SameVersions DEF tables
  <2>3. CASE r \notin Record /\ ~UNCHANGED tables
    <3>1. \E row : WriteRow(w, r, row)
      BY <2>1, <2>3
    <3>2. same
      BY <2>3, <3>1 DEF WriteRow, TypeInv, TypeOK
    <3> QED
      BY <3>2, SameVersions
  <2>4. CASE r \in Record
    <3>1. old(r) \in Row
      BY <2>4 DEF RowFor, TypeInv, TypeOK
    <3>2. Live(old(r)) => Covers(old(r), old(r))
      BY DEF Covers
    <3>3. ASSUME NEW state
          PROVE  Live([old(r) EXCEPT !.state = state])
                   => Covers(old(r), [old(r) EXCEPT !.state = state])
      BY <3>1 DEF Live, Covers, Row
    <3>4. ~Live([old(r) EXCEPT !.deleted = TRUE])
      BY <3>1 DEF Live, Row
    <3> HIDE DEF old, r
    <3>5. CASE WriteRow(w, r, old(r))
      BY <2>4, <3>2, <3>5, CoveredWrite DEF old
    <3>6. CASE WriteRow(w, r, [old(r) EXCEPT !.state = TargetState(req[w].op)])
      BY <2>4, <3>3, <3>6, CoveredWrite DEF old
    <3>7. CASE WriteRow(w, r, [old(r) EXCEPT !.deleted = TRUE])
      BY <2>4, <3>4, <3>7, CoveredWrite DEF old
    <3> QED
      BY <2>1, <2>2, <3>5, <3>6, <3>7
  <2> QED
    BY <2>2, <2>3, <2>4
<1>8. CASE EndStep(w) \/ Crash(w)
  BY <1>8, EndVersions DEF EndStep, Rollback, DeadlockVictim, Crash
<1> QED
  BY <1>1, <1>2, <1>3, <1>4, <1>5, <1>6, <1>7, <1>8 DEF Step, ApiStep, BotStep

-----------------------------------------------------------------------------

LEMMA InitUnique == Init => IInv
<1> SUFFICES ASSUME Init PROVE IInv
  OBVIOUS
<1>1. TypeInv
  BY InitTyped
<1>2. None \notin Worker
  BY BindingAssumption
<1>3. Ownership
  BY <1>2 DEF Init, Ownership
<1>4. Inserts
  BY DEF Init, Inserts
<1>5. \A r \in Record, v \in Row : Version(r, v) => ~Live(v)
  BY DEF Init, Version, Live, NoRow
<1>6. VersionsApart
  BY <1>5 DEF VersionsApart, Apart
<1> QED
  BY <1>1, <1>3, <1>4, <1>6 DEF IInv

LEMMA NextUnique == IInv /\ [Next]_vars => IInv'
<1> SUFFICES ASSUME TypeInv, Ownership, Inserts, VersionsApart, [Next]_vars
             PROVE  Ownership' /\ Inserts' /\ VersionsApart'
  BY NextTyped DEF IInv
<1>1. ASSUME NEW w \in Worker, Start(w) \/ Step(w) \/ Crash(w)
      PROVE  Ownership' /\ Inserts' /\ VersionsApart'
  <2>1. Ownership'
    BY <1>1, StartOwnership, ApiOwnership, BotOwnership, EndOwnership DEF Step
  <2>2. Inserts' /\ VersionsApart'
    BY <1>1, StepInserts, StepVersions
  <2> QED
    BY <2>1, <2>2
<1>2. ASSUME UNCHANGED <<tables, pc, req, mem>>
      PROVE  Ownership' /\ Inserts' /\ VersionsApart'
  BY <1>2, SameVersions DEF tables, Ownership, Inserts
<1>3. ASSUME NEW c \in Code, Expire(c)
      PROVE  UNCHANGED <<tables, pc, req, mem>>
  BY <1>3 DEF Expire
<1>4. CASE UNCHANGED vars
  BY <1>2, <1>4 DEF vars
<1>5. CASE Next
  BY <1>1, <1>2, <1>3, <1>4, <1>5 DEF Next, Quiet
<1> QED
  BY <1>4, <1>5

\* A site user has one live binding at most and a VK account belongs to one at
\* most, for any number of users, accounts, rows, codes and overlapping requests.
THEOREM UniqueBindings == Spec => []UniqueLiveBinding
<1>1. IInv => UniqueLiveBinding
  BY DEF IInv, TypeInv, TypeOK, VersionsApart, Version, Apart, UniqueLiveBinding
<1> QED
  BY <1>1, InitUnique, NextUnique, PTL DEF Spec
=============================================================================
