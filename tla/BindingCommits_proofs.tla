------------------------ MODULE BindingCommits_proofs ------------------------
(* What a commit makes of the tables is what its request has decided on the  *)
(* rows it read, although other requests ran between its statements.  The    *)
(* argument is by rely and guarantee: each request knows something of its    *)
(* drafts and of the rows it has read (Own), and no step of another request  *)
(* undoes what it knows (Respects).                                          *)
EXTENDS UniqueLiveBinding_proofs

\* Every code that was stored belongs to a row.
CodesHaveRows == \A c \in Code : codes[c] # NoCode => codes[c].rec \in Record

(* The draft of a row, by the request that owns it.                        *)

Inserting(w, r) ==
  /\ pc[w] \in {"invalidate", "invalidating", "pickcode", "storecode", "raising", "commit"}
  /\ req[w].op \in {"ensure", "issue"}
  /\ rows[r] = NoRow
  /\ rowDraft[r] = [NoRow EXCEPT !.user = req[w].user]

Locking(w, r) ==
  /\ pc[w] = "index"
  /\ Live(rows[r])
  /\ rowDraft[r] = rows[r]

Linking(w, r) ==
  /\ pc[w] \in {"markused", "commit"}
  /\ req[w] \in ConfirmRequest
  /\ Live(rows[r])
  /\ rowDraft[r] = [rows[r] EXCEPT !.peer = req[w].peer, !.state = "ACTIVE"]
  /\ codes[req[w].code].rec = r
  /\ pc[w] = "commit" => codeOwner[req[w].code] = w

Moving(w, r) ==
  /\ pc[w] = "commit"
  /\ req[w].op \in {"deny", "allow"}
  /\ Live(rows[r])
  /\ rows[r].peer # None
  /\ rowDraft[r] = [rows[r] EXCEPT !.state = TargetState(req[w].op)]

Deleting(w, r) ==
  /\ pc[w] \in {"notify", "commit"}
  /\ req[w].op = "unlink"
  /\ Live(rows[r])
  /\ rowDraft[r] = [rows[r] EXCEPT !.deleted = TRUE]

RowHeld(w) ==
  \A r \in Record : rowOwner[r] = w =>
    \/ Inserting(w, r) \/ Locking(w, r) \/ Linking(w, r)
    \/ Moving(w, r) \/ Deleting(w, r)

(* The draft of a code: a new one, or a stored one that is marked used.    *)

Storing(w, c) ==
  /\ pc[w] = "commit"
  /\ req[w].op = "issue"
  /\ c = mem[w].code
  /\ mem[w].rec \in Record
  /\ codes[c] = NoCode
  /\ codeDraft[c] = [rec |-> mem[w].rec, used |-> FALSE]

\* The statements at which a request may own a code.
UsingCodes == {"invalidating", "pickcode", "storecode", "softdelete", "softdeleting",
               "notify", "commit", "raising"}

Using(w, c) ==
  /\ pc[w] \in UsingCodes
  /\ codes[c].rec \in Record
  /\ codeDraft[c] = [rec |-> codes[c].rec, used |-> TRUE]

CodeHeld(w) == \A c \in Code : codeOwner[c] = w => Storing(w, c) \/ Using(w, c)

(* What a request knows at its statements.                                 *)

\* The requests that come to a statement.
Roles(w) ==
  /\ pc[w] = "lookup" => req[w].op \in {"ensure", "issue", "unlink"}
  /\ pc[w] \in {"insert", "relookup"} => req[w].op \in {"ensure", "issue"}
  /\ pc[w] \in {"invalidate", "invalidating"} => req[w].op \in {"issue", "unlink"}
  /\ pc[w] \in {"pickcode", "storecode"} => req[w].op = "issue"
  /\ pc[w] \in {"softdelete", "softdeleting", "notify"} => req[w].op = "unlink"
  /\ pc[w] \in {"findpeer", "setstate"} => req[w].op \in {"deny", "allow"}

Succeeds(w, ops) == pc[w] = "commit" /\ req[w].op \in ops /\ mem[w].entry = "success"

\* issue_confirmation and unlink work on a row of their user.
ApiReads(w) ==
  /\ \/ pc[w] \in {"invalidate", "invalidating", "pickcode", "storecode",
                   "softdelete", "softdeleting", "notify"}
     \/ Succeeds(w, {"issue", "unlink"})
     => mem[w].rec \in Record /\ RowFor(w, mem[w].rec).user = req[w].user
  /\ pc[w] = "invalidating" => \A c \in mem[w].todo : codes[c].rec = mem[w].rec
  /\ pc[w] = "storecode" => mem[w].code \in Code
  /\ Succeeds(w, {"issue"}) =>
       mem[w].code \in Code /\ codeOwner[mem[w].code] = w /\ codes[mem[w].code] = NoCode
  /\ pc[w] = "notify" \/ Succeeds(w, {"unlink"})
     => rows[mem[w].rec].deleted \/ rowOwner[mem[w].rec] = w

\* The binding an unlink writes about is one of its user; once soft_delete has
\* run it is deleted, or is the row this unlink deletes.
NoticeReads(w) ==
  mem[w].notice # None =>
    /\ pc[w] \in {"invalidate", "invalidating", "softdelete", "softdeleting", "notify",
                  "commit", "raising"}
    /\ req[w].op = "unlink"
    /\ rows[mem[w].notice].user = req[w].user
    /\ pc[w] = "softdeleting" => mem[w].notice = mem[w].rec \/ rows[mem[w].notice].deleted
    /\ pc[w] \in {"notify", "commit"} =>
         rows[mem[w].notice].deleted \/ rowOwner[mem[w].notice] = w

\* A confirm works on the row its code belongs to; what it reports as a success
\* it has drafted in both tables.
ConfirmReads(w) ==
  /\ \/ pc[w] \in {"fetchbinding", "occupied", "activate", "index", "markused"}
     \/ Succeeds(w, {"confirm"})
     => mem[w].rec \in Record /\ codes[req[w].code].rec = mem[w].rec
  /\ pc[w] \in {"occupied", "activate", "index", "markused"} => rows[mem[w].rec].user # None
  /\ pc[w] \in {"index", "markused"} \/ Succeeds(w, {"confirm"}) => rowOwner[mem[w].rec] = w
  /\ Succeeds(w, {"confirm"}) => req[w] \in ConfirmRequest /\ codeOwner[req[w].code] = w

\* block and unblock work on a row that has an account.
StateReads(w) ==
  /\ pc[w] = "setstate" =>
       /\ mem[w].rec \in Record
       /\ rows[mem[w].rec].user # None
       /\ rows[mem[w].rec].peer # None
  /\ Succeeds(w, {"deny", "allow"}) =>
       /\ mem[w].rec \in Record
       /\ rows[mem[w].rec].user # None
       /\ rows[mem[w].rec].deleted \/ rowOwner[mem[w].rec] = w

Knows(w) == ApiReads(w) /\ NoticeReads(w) /\ ConfirmReads(w) /\ StateReads(w)
Own(w)   == RowHeld(w) /\ CodeHeld(w) /\ Roles(w) /\ Knows(w)

CommitInv == IInv /\ CodesHaveRows /\ \A w \in Worker : Own(w)

-----------------------------------------------------------------------------
(* What no step of a request does to the others.                           *)

\* A code keeps its binding and its used_at, a row its user and deleted_at,
\* and one that has an account has one.
Persists ==
  /\ \A c \in Code : codes[c] # NoCode =>
       /\ codes'[c].rec = codes[c].rec
       /\ codes[c].used => codes'[c].used
  /\ \A r \in Record : rows[r].user # None =>
       /\ rows'[r].user = rows[r].user
       /\ rows[r].deleted => rows'[r].deleted
       /\ rows[r].peer # None => rows'[r].peer # None

\* What another request owns stays as it is.
LeavesRows(w) ==
  \A r \in Record, v \in Worker \ {w} :
    /\ rowOwner[r] = v <=> rowOwner'[r] = v
    /\ rowOwner[r] = v => rows'[r] = rows[r] /\ rowDraft'[r] = rowDraft[r]
LeavesCodes(w) ==
  \A c \in Code, v \in Worker \ {w} :
    /\ codeOwner[c] = v <=> codeOwner'[c] = v
    /\ codeOwner[c] = v => codes'[c] = codes[c] /\ codeDraft'[c] = codeDraft[c]

Respects(w) == Others(w) /\ Persists /\ LeavesRows(w) /\ LeavesCodes(w)

\* A statement that writes nothing.
LEMMA RespectsUnchanged ==
  ASSUME NEW w \in Worker, Others(w), UNCHANGED tables
  PROVE  Respects(w)
  BY DEF Respects, tables, Persists, LeavesRows, LeavesCodes

\* A write waits for the owner of the row.
LEMMA RespectsWriteRow ==
  ASSUME TypeInv, NEW w \in Worker, NEW r \in Record, NEW row, RowFree(w, r),
         WriteRow(w, r, row), Others(w)
  PROVE  Respects(w)
<1>1. None \notin Worker
  BY BindingAssumption
<1>2. /\ \A s \in Record : rowOwner'[s] = IF s = r THEN w ELSE rowOwner[s]
      /\ \A s \in Record : rowDraft'[s] = IF s = r THEN row ELSE rowDraft[s]
      /\ UNCHANGED <<rows, codes, codeOwner, codeDraft>>
  BY DEF WriteRow, TypeInv, TypeOK
<1>3. LeavesRows(w)
  BY <1>1, <1>2 DEF LeavesRows, RowFree
<1> QED
  BY <1>2, <1>3 DEF Respects, Persists, LeavesCodes

LEMMA RespectsWriteCode ==
  ASSUME TypeInv, NEW w \in Worker, NEW c \in Code, NEW row, CodeFree(w, c),
         WriteCode(w, c, row), Others(w)
  PROVE  Respects(w)
<1>1. None \notin Worker
  BY BindingAssumption
<1>2. /\ \A d \in Code : codeOwner'[d] = IF d = c THEN w ELSE codeOwner[d]
      /\ \A d \in Code : codeDraft'[d] = IF d = c THEN row ELSE codeDraft[d]
      /\ UNCHANGED <<rows, codes, rowOwner, rowDraft>>
  BY DEF WriteCode, TypeInv, TypeOK
<1>3. LeavesCodes(w)
  BY <1>1, <1>2 DEF LeavesCodes, CodeFree
<1> QED
  BY <1>2, <1>3 DEF Respects, Persists, LeavesRows

\* The end of a transaction, as the others see it.
LEMMA ReleaseLeaves ==
  ASSUME TypeInv, NEW w \in Worker, Release(w),
         \A r \in Record : rowOwner[r] # w => rows'[r] = rows[r],
         \A c \in Code : codeOwner[c] # w => codes'[c] = codes[c]
  PROVE  LeavesRows(w) /\ LeavesCodes(w)
<1>1. None \notin Worker
  BY BindingAssumption
<1>2. /\ \A r \in Record : rowOwner'[r] = IF rowOwner[r] = w THEN None ELSE rowOwner[r]
      /\ \A r \in Record : rowDraft'[r] = IF rowOwner[r] = w THEN NoRow ELSE rowDraft[r]
  BY DEF Release
<1>3. /\ \A c \in Code : codeOwner'[c] = IF codeOwner[c] = w THEN None ELSE codeOwner[c]
      /\ \A c \in Code : codeDraft'[c] = IF codeOwner[c] = w THEN NoCode ELSE codeDraft[c]
  BY DEF Release
<1>4. LeavesRows(w)
  BY <1>1, <1>2 DEF LeavesRows
<1>5. LeavesCodes(w)
  BY <1>1, <1>3 DEF LeavesCodes
<1> QED
  BY <1>4, <1>5

LEMMA RespectsUndo ==
  ASSUME TypeInv, NEW w \in Worker, Undo(w), Others(w)
  PROVE  Respects(w)
<1>1. Release(w) /\ rows' = rows /\ codes' = codes
  BY DEF Undo
<1>2. LeavesRows(w) /\ LeavesCodes(w)
  BY <1>1, ReleaseLeaves
<1> QED
  BY <1>1, <1>2 DEF Respects, Persists

\* A commit installs drafts, and every draft keeps what the others rely on.
LEMMA CommitPersists ==
  ASSUME TypeInv, NEW w \in Worker, RowHeld(w), CodeHeld(w), Commit(w)
  PROVE  Persists
<1>1. /\ \A r \in Record : rows'[r] = RowFor(w, r)
      /\ \A c \in Code : codes'[c] = CodeFor(w, c)
  BY DEF Commit
<1>2. ASSUME NEW c \in Code, codes[c] # NoCode
      PROVE  codes'[c].rec = codes[c].rec /\ (codes[c].used => codes'[c].used)
  <2>1. CASE codeOwner[c] # w
    <3>1. codes'[c] = codes[c]
      BY <1>1, <2>1 DEF CodeFor
    <3> QED
      BY <3>1
  <2>2. CASE codeOwner[c] = w
    <3>1. codes'[c] = codeDraft[c] /\ Using(w, c)
      BY <1>1, <1>2, <2>2 DEF CodeFor, CodeHeld, Storing
    <3>2. codes'[c] = [rec |-> codes[c].rec, used |-> TRUE]
      BY <3>1 DEF Using
    <3> QED
      BY <3>2
  <2> QED
    BY <2>1, <2>2
<1>3. ASSUME NEW r \in Record, rows[r].user # None
      PROVE  /\ rows'[r].user = rows[r].user
             /\ rows[r].deleted => rows'[r].deleted
             /\ rows[r].peer # None => rows'[r].peer # None
  <2>1. CASE rowOwner[r] # w
    BY <1>1, <2>1 DEF RowFor
  <2>2. CASE rowOwner[r] = w
    <3>1. rows'[r] = rowDraft[r] /\ rows[r] \in Row
      BY <1>1, <2>2 DEF RowFor, TypeInv, TypeOK
    <3>2. ~Inserting(w, r)
      BY <1>3 DEF Inserting, NoRow
    <3>3. CASE Locking(w, r)
      BY <3>1, <3>3 DEF Locking
    <3>4. CASE Linking(w, r)
      <4>1. req[w].peer # None
        BY <3>4, BindingAssumption DEF Linking, ConfirmRequest
      <4> QED
        BY <3>1, <3>4, <4>1 DEF Linking, Row
    <3>5. CASE Moving(w, r)
      BY <3>1, <3>5 DEF Moving, Row
    <3>6. CASE Deleting(w, r)
      BY <3>1, <3>6 DEF Deleting, Row
    <3> QED
      BY <2>2, <3>2, <3>3, <3>4, <3>5, <3>6 DEF RowHeld
  <2> QED
    BY <2>1, <2>2
<1> QED
  BY <1>2, <1>3 DEF Persists

LEMMA RespectsCommit ==
  ASSUME TypeInv, NEW w \in Worker, RowHeld(w), CodeHeld(w), Commit(w), Others(w)
  PROVE  Respects(w)
<1>1. Release(w)
  BY DEF Commit
<1>2. /\ \A r \in Record : rowOwner[r] # w => rows'[r] = rows[r]
      /\ \A c \in Code : codeOwner[c] # w => codes'[c] = codes[c]
  BY DEF Commit, RowFor, CodeFor
<1> QED
  BY <1>1, <1>2, ReleaseLeaves, CommitPersists DEF Respects

-----------------------------------------------------------------------------
(* What a request knows is not undone by the others.                       *)

\* The facts of the stability lemmas about the request v, spelled out.
LEMMA RespectedWorker ==
  ASSUME NEW w \in Worker, NEW v \in Worker \ {w}, Respects(w)
  PROVE  /\ pc'[v] = pc[v] /\ mem'[v] = mem[v] /\ req'[v] = req[v]
         /\ \A r \in Record : rowOwner[r] = v =>
              rowOwner'[r] = v /\ rows'[r] = rows[r] /\ rowDraft'[r] = rowDraft[r]
         /\ \A r \in Record : rowOwner'[r] = v => rowOwner[r] = v
         /\ \A c \in Code : codeOwner[c] = v =>
              codeOwner'[c] = v /\ codes'[c] = codes[c] /\ codeDraft'[c] = codeDraft[c]
         /\ \A c \in Code : codeOwner'[c] = v => codeOwner[c] = v
  BY DEF Respects, Others, LeavesRows, LeavesCodes

\* A code that has a row keeps it, a row its user.
LEMMA RespectedTables ==
  ASSUME NEW w \in Worker, Respects(w)
  PROVE  /\ \A c \in Code : codes[c].rec \in Record => codes'[c].rec = codes[c].rec
         /\ \A r \in Record : rows[r].user # None =>
              /\ rows'[r].user = rows[r].user
              /\ rows[r].deleted => rows'[r].deleted
              /\ rows[r].peer # None => rows'[r].peer # None
  BY BindingAssumption DEF Respects, Persists, NoCode

LEMMA StableRowHeld ==
  ASSUME TypeInv, NEW w \in Worker, NEW v \in Worker \ {w}, Respects(w), RowHeld(v)
  PROVE  RowHeld(v)'
<1> SUFFICES ASSUME NEW r \in Record, rowOwner'[r] = v
             PROVE  \/ Inserting(v, r)' \/ Locking(v, r)' \/ Linking(v, r)'
                    \/ Moving(v, r)' \/ Deleting(v, r)'
  BY DEF RowHeld
<1>1. /\ pc'[v] = pc[v] /\ req'[v] = req[v] /\ rowOwner[r] = v
      /\ rows'[r] = rows[r] /\ rowDraft'[r] = rowDraft[r]
  BY RespectedWorker
<1>2. Inserting(v, r) => Inserting(v, r)'
  BY <1>1 DEF Inserting
<1>3. Locking(v, r) => Locking(v, r)'
  BY <1>1 DEF Locking, Live
<1>4. Moving(v, r) => Moving(v, r)'
  BY <1>1 DEF Moving, Live
<1>5. Deleting(v, r) => Deleting(v, r)'
  BY <1>1 DEF Deleting, Live
<1>6. ASSUME Linking(v, r) PROVE Linking(v, r)'
  <2>1. req[v].code \in Code /\ codes[req[v].code].rec = r
    BY <1>6 DEF Linking, ConfirmRequest
  <2>2. codes'[req[v].code].rec = r
    BY <2>1, RespectedTables
  <2>3. codeOwner[req[v].code] = v => codeOwner'[req[v].code] = v
    BY <2>1, RespectedWorker
  <2> QED
    BY <1>1, <1>6, <2>2, <2>3 DEF Linking, Live
<1> QED
  BY <1>1, <1>2, <1>3, <1>4, <1>5, <1>6 DEF RowHeld

LEMMA StableCodeHeld ==
  ASSUME TypeInv, NEW w \in Worker, NEW v \in Worker \ {w}, Respects(w), CodeHeld(v)
  PROVE  CodeHeld(v)'
<1> SUFFICES ASSUME NEW c \in Code, codeOwner'[c] = v PROVE Storing(v, c)' \/ Using(v, c)'
  BY DEF CodeHeld
<1>1. /\ pc'[v] = pc[v] /\ req'[v] = req[v] /\ mem'[v] = mem[v] /\ codeOwner[c] = v
      /\ codes'[c] = codes[c] /\ codeDraft'[c] = codeDraft[c]
  BY RespectedWorker
<1> QED
  BY <1>1 DEF CodeHeld, Storing, Using

LEMMA StableApiReads ==
  ASSUME TypeInv, NEW w \in Worker, NEW v \in Worker \ {w}, Respects(w),
         Roles(v), ApiReads(v)
  PROVE  ApiReads(v)'
<1> DEFINE rec == mem[v].rec
<1>1. pc'[v] = pc[v] /\ req'[v] = req[v] /\ mem'[v] = mem[v]
  BY RespectedWorker
<1>2. ASSUME rec \in Record, RowFor(v, rec).user = req[v].user, req[v].user # None
      PROVE  RowFor(v, rec)'.user = req[v].user
  <2>1. CASE rowOwner[rec] = v
    <3>1. rowOwner'[rec] = v /\ rowDraft'[rec] = rowDraft[rec]
      BY <1>2, <2>1, RespectedWorker
    <3> QED
      BY <1>1, <1>2, <2>1, <3>1 DEF RowFor
  <2>2. CASE rowOwner[rec] # v
    <3>1. rowOwner'[rec] # v
      BY <1>2, <2>2, RespectedWorker
    <3>2. rows'[rec].user = rows[rec].user
      BY <1>2, <2>2, RespectedTables DEF RowFor
    <3> QED
      BY <1>1, <1>2, <2>2, <3>1, <3>2 DEF RowFor
  <2> QED
    BY <2>1, <2>2
<1>3. req[v].op \in {"issue", "unlink"} => req[v].user # None
  BY BindingAssumption
     DEF TypeInv, TypeOK, Request, ApiRequest, ConfirmRequest, StateRequest, NoRequest
<1>4. \/ pc[v] \in {"invalidate", "invalidating", "pickcode", "storecode",
                    "softdelete", "softdeleting", "notify"}
      \/ Succeeds(v, {"issue", "unlink"})
      => rec \in Record /\ RowFor(v, rec)'.user = req[v].user
  BY <1>2, <1>3 DEF ApiReads, Roles, Succeeds
<1>5. pc[v] = "invalidating" => \A c \in mem[v].todo : codes'[c].rec = rec
  BY RespectedTables DEF ApiReads, TypeInv, TypeOK, Memory
<1>6. Succeeds(v, {"issue"}) =>
        mem[v].code \in Code /\ codeOwner'[mem[v].code] = v /\ codes'[mem[v].code] = NoCode
  BY RespectedWorker DEF ApiReads
<1>7. pc[v] = "notify" \/ Succeeds(v, {"unlink"}) => rows'[rec].deleted \/ rowOwner'[rec] = v
  <2> SUFFICES ASSUME pc[v] = "notify" \/ Succeeds(v, {"unlink"})
               PROVE  rows'[rec].deleted \/ rowOwner'[rec] = v
    OBVIOUS
  <2>1. /\ rec \in Record /\ RowFor(v, rec).user = req[v].user
        /\ rows[rec].deleted \/ rowOwner[rec] = v
    BY DEF ApiReads, Succeeds
  <2>2. req[v].user # None
    BY <1>3 DEF Roles, Succeeds
  <2>3. CASE rowOwner[rec] = v
    BY <2>1, <2>3, RespectedWorker
  <2>4. CASE rowOwner[rec] # v
    <3>1. rows[rec].user # None /\ rows[rec].deleted
      BY <2>1, <2>2, <2>4 DEF RowFor
    <3> QED
      BY <2>1, <3>1, RespectedTables
  <2> QED
    BY <2>3, <2>4
<1> QED
  BY <1>1, <1>4, <1>5, <1>6, <1>7 DEF ApiReads, Succeeds

LEMMA StableNoticeReads ==
  ASSUME TypeInv, NEW w \in Worker, NEW v \in Worker \ {w}, Respects(w), NoticeReads(v)
  PROVE  NoticeReads(v)'
<1> DEFINE n == mem[v].notice
<1>1. pc'[v] = pc[v] /\ req'[v] = req[v] /\ mem'[v] = mem[v]
  BY RespectedWorker
<1> SUFFICES ASSUME n # None PROVE NoticeReads(v)'
  BY <1>1 DEF NoticeReads
<1>2. n \in Record
  BY DEF TypeInv, TypeOK, Memory
<1>3. req[v].op = "unlink" /\ rows[n].user = req[v].user
  BY DEF NoticeReads
<1>4. req[v].user # None
  BY <1>3, BindingAssumption
     DEF TypeInv, TypeOK, Request, ApiRequest, ConfirmRequest, StateRequest, NoRequest
<1>5. rows'[n].user = req[v].user /\ (rows[n].deleted => rows'[n].deleted)
  BY <1>2, <1>3, <1>4, RespectedTables
<1>6. rowOwner[n] = v => rowOwner'[n] = v
  BY <1>2, RespectedWorker
<1> QED
  BY <1>1, <1>5, <1>6 DEF NoticeReads

LEMMA StableConfirmReads ==
  ASSUME TypeInv, NEW w \in Worker, NEW v \in Worker \ {w}, Respects(w), ConfirmReads(v)
  PROVE  ConfirmReads(v)'
<1> DEFINE rec  == mem[v].rec
           code == req[v].code
           reading == pc[v] \in {"fetchbinding", "occupied", "activate", "index", "markused"}
<1>1. pc'[v] = pc[v] /\ req'[v] = req[v] /\ mem'[v] = mem[v]
  BY RespectedWorker
<1>2. reading \/ Succeeds(v, {"confirm"}) => code \in Code
  BY DEF ConfirmReads, TypeInv, ConfirmRequests, ConfirmRequest
<1>3. reading \/ Succeeds(v, {"confirm"}) => rec \in Record /\ codes'[code].rec = rec
  BY <1>2, RespectedTables DEF ConfirmReads
<1>4. pc[v] \in {"occupied", "activate", "index", "markused"} => rows'[rec].user # None
  BY <1>3, RespectedTables DEF ConfirmReads
<1>5. pc[v] \in {"index", "markused"} \/ Succeeds(v, {"confirm"}) => rowOwner'[rec] = v
  BY <1>3, RespectedWorker DEF ConfirmReads
<1>6. Succeeds(v, {"confirm"}) => req[v] \in ConfirmRequest /\ codeOwner'[code] = v
  BY <1>2, RespectedWorker DEF ConfirmReads
<1> QED
  BY <1>1, <1>3, <1>4, <1>5, <1>6 DEF ConfirmReads, Succeeds

LEMMA StableStateReads ==
  ASSUME TypeInv, NEW w \in Worker, NEW v \in Worker \ {w}, Respects(w),
         StateReads(v), RowHeld(v)
  PROVE  StateReads(v)'
<1> DEFINE rec == mem[v].rec
<1>1. pc'[v] = pc[v] /\ req'[v] = req[v] /\ mem'[v] = mem[v]
  BY RespectedWorker
<1>2. pc[v] = "setstate" =>
        rec \in Record /\ rows'[rec].user # None /\ rows'[rec].peer # None
  BY RespectedTables DEF StateReads
<1>3. ASSUME Succeeds(v, {"deny", "allow"})
      PROVE  rec \in Record /\ (rows'[rec].deleted \/ rowOwner'[rec] = v)
  <2>1. rec \in Record /\ rows[rec].user # None /\ (rows[rec].deleted \/ rowOwner[rec] = v)
    BY <1>3 DEF StateReads
  <2>2. CASE rowOwner[rec] = v
    BY <2>1, <2>2, RespectedWorker
  <2>3. CASE rows[rec].deleted
    BY <2>1, <2>3, RespectedTables
  <2> QED
    BY <2>1, <2>2, <2>3
<1>4. Succeeds(v, {"deny", "allow"}) => rec \in Record /\ rows'[rec].user # None
  BY RespectedTables DEF StateReads
<1> QED
  BY <1>1, <1>2, <1>3, <1>4 DEF StateReads, Succeeds

\* What a request knows holds after a step of another one.
LEMMA StableOwn ==
  ASSUME TypeInv, NEW w \in Worker, NEW v \in Worker \ {w}, Respects(w), Own(v)
  PROVE  Own(v)'
<1>1. Roles(v)'
  BY RespectedWorker DEF Own, Roles
<1> QED
  BY <1>1, StableRowHeld, StableCodeHeld, StableApiReads, StableNoticeReads,
     StableConfirmReads, StableStateReads DEF Own, Knows

-----------------------------------------------------------------------------
(* What a request knows after a step of its own.                           *)

LEMMA RequestFields ==
  ASSUME TypeInv, NEW w \in Worker
  PROVE  /\ req[w].op \in {"ensure", "issue", "unlink"} =>
              req[w].user \in User /\ req[w].user # None
         /\ req[w] \in ConfirmRequest =>
              /\ req[w].op = "confirm" /\ req[w].code \in Code
              /\ req[w].peer \in Peer /\ req[w].peer # None
         /\ req[w].op = "confirm" => req[w] \in ConfirmRequest
<1>1. req[w] \in Request \cup {NoRequest}
  BY DEF TypeInv, TypeOK
<1>2. req[w].op \in {"ensure", "issue", "unlink"} => req[w] \in ApiRequest
  BY <1>1 DEF Request, ApiRequest, ConfirmRequest, StateRequest, NoRequest
<1>3. req[w].op = "confirm" => req[w] \in ConfirmRequest
  BY <1>1 DEF Request, ApiRequest, ConfirmRequest, StateRequest, NoRequest
<1>4. req[w] \in ApiRequest => req[w].user \in User /\ req[w].user # None
  BY BindingAssumption DEF ApiRequest
<1>5. req[w] \in ConfirmRequest =>
        /\ req[w].op = "confirm" /\ req[w].code \in Code
        /\ req[w].peer \in Peer /\ req[w].peer # None
  BY BindingAssumption DEF ConfirmRequest
<1> QED
  BY <1>2, <1>3, <1>4, <1>5

\* log_action changes one local.
LEMMA LogFields ==
  ASSUME TypeInv, NEW w \in Worker, NEW s, Log(w, s)
  PROVE  /\ mem'[w].rec = mem[w].rec /\ mem'[w].todo = mem[w].todo
         /\ mem'[w].code = mem[w].code /\ mem'[w].notice = mem[w].notice
         /\ mem'[w].entry = s
  BY DEF Log, TypeInv, TypeOK, Memory

LEMMA OwnsNoCode ==
  ASSUME NEW w \in Worker, CodeHeld(w), pc[w] \notin UsingCodes
  PROVE  \A c \in Code : codeOwner[c] # w
  BY DEF CodeHeld, Storing, Using, UsingCodes

\* After the end of a transaction nothing is owned.
LEMMA ReleaseHeld ==
  ASSUME NEW w \in Worker, Release(w)
  PROVE  /\ \A r \in Record : rowOwner'[r] # w
         /\ \A c \in Code : codeOwner'[c] # w
         /\ RowHeld(w)' /\ CodeHeld(w)'
<1>1. None \notin Worker
  BY BindingAssumption
<1>2. /\ \A r \in Record : rowOwner'[r] = IF rowOwner[r] = w THEN None ELSE rowOwner[r]
      /\ \A c \in Code : codeOwner'[c] = IF codeOwner[c] = w THEN None ELSE codeOwner[c]
  BY DEF Release
<1>3. /\ \A r \in Record : rowOwner'[r] # w
      /\ \A c \in Code : codeOwner'[c] # w
  BY <1>1, <1>2
<1> QED
  BY <1>3 DEF RowHeld, CodeHeld

LEMMA StepRoles ==
  ASSUME TypeInv, Inserts, NEW w \in Worker, Roles(w), Start(w) \/ Step(w) \/ Crash(w)
  PROVE  Roles(w)'
<1>1. pc \in [Worker -> Statement] /\ req \in [Worker -> Request \cup {NoRequest}]
  BY DEF TypeInv, TypeOK
<1>2. CASE Start(w)
  <2>1. PICK q \in Request : req'[w] = q /\ pc'[w] = FirstStatement(q.op)
    BY <1>1, <1>2 DEF Start, Goto
  <2>2. q.op \in {"ensure", "issue", "unlink", "confirm", "deny", "allow"}
    BY DEF Request, ApiRequest, ConfirmRequest, StateRequest
  <2>3. CASE q.op \in {"ensure", "issue", "unlink"}
    <3>1. pc'[w] = "lookup"
      BY <2>1, <2>3 DEF FirstStatement
    <3> QED
      BY <2>1, <2>3, <3>1 DEF Roles
  <2>4. CASE q.op = "confirm"
    <3>1. pc'[w] = "ratelimit"
      BY <2>1, <2>4 DEF FirstStatement
    <3> QED
      BY <2>1, <2>4, <3>1 DEF Roles
  <2>5. CASE q.op \in {"deny", "allow"}
    <3>1. pc'[w] = "findpeer"
      BY <2>1, <2>5 DEF FirstStatement
    <3> QED
      BY <2>1, <2>5, <3>1 DEF Roles
  <2> QED
    BY <2>2, <2>3, <2>4, <2>5
<1>3. CASE ApiStep(w)
  <2>0. req' = req
    BY <1>3 DEF ApiStep, Lookup, Insert, Relookup, Invalidate, InvalidateOne,
       InvalidateDone, PickCode, StoreCode, SoftDelete, SoftDeleteRow, Notify, Frame
  <2>1. CASE Lookup(w)
    <3>1. pc[w] = "lookup"
      BY <2>1 DEF Lookup
    <3>2. \/ pc'[w] \in {"raising", "commit"}
          \/ pc'[w] = "invalidate" /\ req[w].op # "ensure"
          \/ pc'[w] = "insert" /\ req[w].op # "unlink"
      BY <1>1, <2>1 DEF Lookup, Found, LogAndCommit, Goto
    <3> QED
      BY <2>0, <3>1, <3>2 DEF Roles
  <2>2. CASE Insert(w) \/ Relookup(w)
    <3>1. pc[w] \in {"insert", "relookup"}
      BY <2>2 DEF Insert, Relookup
    <3>2. \/ pc'[w] \in {"raising", "commit", "relookup"}
          \/ pc'[w] = "invalidate" /\ req[w].op # "ensure"
      BY <1>1, <2>2 DEF Insert, Relookup, Found, Goto
    <3> QED
      BY <2>0, <3>1, <3>2 DEF Roles
  <2>3. CASE Invalidate(w) \/ InvalidateOne(w)
    BY <1>1, <2>0, <2>3 DEF Invalidate, InvalidateOne, Goto, Roles
  <2>4. CASE InvalidateDone(w)
    BY <1>1, <2>0, <2>4 DEF InvalidateDone, Goto, Roles
  <2>5. CASE PickCode(w) \/ StoreCode(w)
    BY <1>1, <2>0, <2>5 DEF PickCode, StoreCode, Goto, Roles
  <2>6. CASE SoftDelete(w) \/ SoftDeleteRow(w) \/ Notify(w)
    BY <1>1, <2>0, <2>6 DEF SoftDelete, SoftDeleteRow, Notify, LogUnlink, Goto, Roles
  <2> QED
    BY <1>3, <2>1, <2>2, <2>3, <2>4, <2>5, <2>6 DEF ApiStep
<1>4. CASE BotStep(w)
  BY <1>1, <1>4 DEF BotStep, RateLimit, FetchCode, FetchBinding, Occupied, Activate,
     ActivateIndex, MarkUsed, FindPeer, SetState, LogAndCommit, Goto, Frame, Roles
<1>5. CASE EndStep(w) \/ Crash(w)
  <2>1. pc'[w] \in {"idle", "raising"}
    BY <1>1, <1>5 DEF EndStep, Commit, Rollback, DeadlockVictim, Crash, Finish, Goto
  <2> QED
    BY <2>1 DEF Roles
<1> QED
  BY <1>2, <1>3, <1>4, <1>5 DEF Step

\* The start of a request.
LEMMA StartOwn ==
  ASSUME IInv, NEW w \in Worker, Own(w), Start(w)
  PROVE  RowHeld(w)' /\ CodeHeld(w)' /\ Knows(w)'
<1>1. pc[w] = "idle" /\ pc'[w] \in {"lookup", "ratelimit", "findpeer"}
  <2>1. PICK q \in Request : pc'[w] = FirstStatement(q.op)
    BY DEF IInv, TypeInv, TypeOK, Start, Goto
  <2>2. q.op \in {"ensure", "issue", "unlink", "confirm", "deny", "allow"}
    BY DEF Request, ApiRequest, ConfirmRequest, StateRequest
  <2> QED
    BY <2>1, <2>2 DEF Start, FirstStatement
<1>2. mem' = mem /\ rowOwner' = rowOwner /\ codeOwner' = codeOwner
  BY DEF Start, tables
<1>3. (\A r \in Record : rowOwner[r] # w) /\ (\A c \in Code : codeOwner[c] # w)
  BY <1>1, OwnsNothing, OwnsNoCode DEF Owning, UsingCodes, IInv, Own
<1>4. mem[w].notice = None
  BY <1>1 DEF Own, Knows, NoticeReads
<1> QED
  BY <1>1, <1>2, <1>3, <1>4 DEF RowHeld, CodeHeld, Knows, ApiReads, NoticeReads,
     ConfirmReads, StateReads, Succeeds

\* The end of a transaction and of its request.
LEMMA EndOwn ==
  ASSUME IInv, NEW w \in Worker, Own(w), EndStep(w) \/ Crash(w)
  PROVE  RowHeld(w)' /\ CodeHeld(w)' /\ Knows(w)'
<1>1. RowHeld(w)' /\ CodeHeld(w)'
  BY ReleaseHeld DEF EndStep, Commit, Rollback, DeadlockVictim, Crash, Undo
<1>2. CASE Finish(w)
  <2>1. pc'[w] = "idle" /\ mem'[w].notice = None
    BY <1>2 DEF Finish, Goto, NoMemory, IInv, TypeInv, TypeOK
  <2> QED
    BY <1>1, <2>1 DEF Knows, ApiReads, NoticeReads, ConfirmReads, StateReads, Succeeds
<1>3. CASE DeadlockVictim(w)
  <2>1. pc'[w] = "raising" /\ mem' = mem /\ req' = req /\ rows' = rows
    BY <1>3 DEF DeadlockVictim, Goto, Undo, Frame, IInv, TypeInv, TypeOK
  <2>2. NoticeReads(w)'
    BY <2>1 DEF Own, Knows, NoticeReads
  <2> QED
    BY <1>1, <2>1, <2>2 DEF Knows, ApiReads, ConfirmReads, StateReads, Succeeds
<1> QED
  BY <1>2, <1>3 DEF EndStep, Commit, Rollback, Crash

\* A request that owns nothing and touches no table still owns nothing.
LEMMA NothingHeld ==
  ASSUME NEW w \in Worker, UNCHANGED <<rowOwner, codeOwner>>,
         \A r \in Record : rowOwner[r] # w, \A c \in Code : codeOwner[c] # w
  PROVE  RowHeld(w)' /\ CodeHeld(w)'
  BY DEF RowHeld, CodeHeld

\* The locals of a request of the API decide nothing of a confirm or of a deny.
LEMMA ApiKnows ==
  ASSUME NEW w \in Worker, req'[w].op \in {"ensure", "issue", "unlink"},
         pc'[w] \notin {"fetchbinding", "occupied", "activate", "index", "markused", "setstate"},
         ApiReads(w)', NoticeReads(w)'
  PROVE  Knows(w)'
  BY DEF Knows, ConfirmReads, StateReads, Succeeds

LEMMA FoundOwn ==
  ASSUME IInv, NEW w \in Worker, Own(w), NEW r \in Record,
         pc[w] \in {"lookup", "relookup"}, HasUser(RowFor(w, r), req[w].user), Found(w, r),
         UNCHANGED req
  PROVE  Knows(w)'
<1> USE DEF IInv, TypeInv, TypeOK
<1>1. req[w].op \in {"ensure", "issue", "unlink"}
  BY DEF Own, Roles
<1>2. rowOwner[r] # w /\ RowFor(w, r) = rows[r]
  BY OwnsNothing DEF Owning, RowFor
<1>3. rows' = rows /\ rowOwner' = rowOwner /\ RowFor(w, r)' = rows[r]
  BY <1>2 DEF Found, tables, RowFor
<1>4. rows[r].user = req[w].user
  BY <1>2 DEF HasUser
<1>5. mem'[w].rec = r /\ mem'[w].notice \in {r, None}
  BY DEF Found, Memory
<1>6. /\ pc'[w] \in {"raising", "commit", "invalidate"}
      /\ pc'[w] = "commit" => req[w].op = "ensure"
  BY DEF Found, Goto
<1>7. mem'[w].notice # None => req[w].op = "unlink" /\ pc'[w] = "invalidate"
  BY DEF Found, Goto, Memory
<1>8. ApiReads(w)'
  BY <1>3, <1>4, <1>5, <1>6 DEF ApiReads, Succeeds
<1>9. NoticeReads(w)'
  BY <1>3, <1>4, <1>5, <1>6, <1>7 DEF NoticeReads
<1> QED
  BY <1>1, <1>6, <1>8, <1>9, ApiKnows

LEMMA LookupOwn ==
  ASSUME IInv, NEW w \in Worker, Own(w), Lookup(w) \/ Relookup(w)
  PROVE  RowHeld(w)' /\ CodeHeld(w)' /\ Knows(w)'
<1>1. pc[w] \in {"lookup", "relookup"} /\ UNCHANGED <<tables, req>>
  BY DEF Lookup, Relookup, Found, LogAndCommit, Frame
<1>2. RowHeld(w)' /\ CodeHeld(w)'
  BY <1>1, OwnsNothing, OwnsNoCode, NothingHeld DEF Owning, UsingCodes, IInv, Own, tables
<1>3. CASE \E r \in Record : HasUser(RowFor(w, r), req[w].user) /\ Found(w, r)
  BY <1>1, <1>2, <1>3, FoundOwn
<1>4. ASSUME mem'[w].notice = mem[w].notice,
             \/ pc'[w] \in {"insert", "raising"}
             \/ pc'[w] = "commit" /\ mem'[w].entry = "noop"
      PROVE  Knows(w)'
  <2>1. mem'[w].notice = None
    BY <1>1, <1>4 DEF Own, Knows, NoticeReads
  <2> QED
    BY <1>4, <2>1 DEF Knows, ApiReads, NoticeReads, ConfirmReads, StateReads, Succeeds
<1>5. CASE LogAndCommit(w, "noop")
  <2>1. pc'[w] = "commit"
    BY <1>5 DEF LogAndCommit, Goto, IInv, TypeInv, TypeOK
  <2> QED
    BY <1>2, <1>4, <1>5, <2>1, LogFields DEF LogAndCommit, IInv
<1>6. CASE UNCHANGED mem /\ (Goto(w, "insert") \/ Goto(w, "raising"))
  <2>1. pc'[w] \in {"insert", "raising"} /\ mem' = mem
    BY <1>6 DEF Goto, IInv, TypeInv, TypeOK
  <2> QED
    BY <1>2, <1>4, <2>1
<1> QED
  BY <1>3, <1>5, <1>6 DEF Lookup, Relookup

LEMMA InsertOwn ==
  ASSUME IInv, NEW w \in Worker, Own(w), Insert(w)
  PROVE  RowHeld(w)' /\ CodeHeld(w)' /\ Knows(w)'
<1> USE DEF IInv, TypeInv, TypeOK
<1>1. /\ pc[w] = "insert" /\ req' = req
      /\ req[w].op \in {"ensure", "issue"} /\ mem[w].notice = None
  BY DEF Insert, Frame, Own, Roles, Knows, NoticeReads
<1>2. /\ \A r \in Record : rowOwner[r] # w
      /\ \A c \in Code : codeOwner[c] # w
  BY <1>1, OwnsNothing, OwnsNoCode DEF Owning, UsingCodes, Own
<1>3. CASE Undo(w) /\ Goto(w, "relookup") /\ UNCHANGED mem
  <2>1. RowHeld(w)' /\ CodeHeld(w)'
    BY <1>3, ReleaseHeld DEF Undo
  <2>2. pc'[w] = "relookup" /\ mem' = mem
    BY <1>3 DEF Goto
  <2> QED
    BY <1>1, <2>1, <2>2
       DEF Knows, ApiReads, NoticeReads, ConfirmReads, StateReads, Succeeds
<1>4. CASE \E r \in Record :
             /\ rows[r] = NoRow
             /\ WriteRow(w, r, [NoRow EXCEPT !.user = req[w].user])
             /\ mem' = [mem EXCEPT ![w].rec = r]
  <2>1. PICK r \in Record :
             /\ rows[r] = NoRow
             /\ WriteRow(w, r, [NoRow EXCEPT !.user = req[w].user])
             /\ mem' = [mem EXCEPT ![w].rec = r]
    BY <1>4
  <2>2. mem'[w].rec = r /\ mem'[w].notice = None
    BY <1>1, <2>1 DEF Memory
  <2>3. pc'[w] = IF req[w].op = "ensure" THEN "commit" ELSE "invalidate"
    <3>1. ~UserTaken(w, req[w].user) \/ pc'[w] = "relookup"
      BY DEF Insert, Goto
    <3>2. rowOwner'[r] = w
      BY <2>1 DEF WriteRow
    <3>3. ~Undo(w)
      BY <3>2, ReleaseHeld DEF Undo
    <3> QED
      BY <3>3 DEF Insert, Goto
  <2>4. /\ \A s \in Record : rowOwner'[s] = IF s = r THEN w ELSE rowOwner[s]
        /\ rowDraft'[r] = [NoRow EXCEPT !.user = req[w].user]
        /\ rows'[r] = NoRow /\ codeOwner' = codeOwner
    BY <2>1 DEF WriteRow
  <2>5. Inserting(w, r)'
    BY <1>1, <2>3, <2>4 DEF Inserting
  <2>6. RowHeld(w)' /\ CodeHeld(w)'
    BY <1>2, <2>4, <2>5 DEF RowHeld, CodeHeld
  <2>7. RowFor(w, r)'.user = req[w].user
    BY <2>4 DEF RowFor, NoRow
  <2>8. ApiReads(w)'
    BY <1>1, <2>2, <2>3, <2>7 DEF ApiReads, Succeeds
  <2>9. NoticeReads(w)'
    BY <2>2 DEF NoticeReads
  <2> QED
    BY <1>1, <2>3, <2>6, <2>8, <2>9, ApiKnows
<1> QED
  BY <1>3, <1>4 DEF Insert

\* An inserted row stays one while its request deals with codes.
LEMMA InsertedHeld ==
  ASSUME NEW w \in Worker, RowHeld(w), UNCHANGED <<rows, rowOwner, rowDraft, req>>,
         pc[w] \in {"invalidate", "invalidating", "pickcode", "storecode"},
         \/ \A r \in Record : rowOwner[r] # w
         \/ pc'[w] \in {"invalidate", "invalidating", "pickcode", "storecode",
                        "raising", "commit"}
  PROVE  RowHeld(w)'
<1> SUFFICES ASSUME NEW r \in Record, rowOwner'[r] = w PROVE Inserting(w, r)'
  BY DEF RowHeld
<1>1. Inserting(w, r)
  BY DEF RowHeld, Locking, Linking, Moving, Deleting
<1> QED
  BY <1>1 DEF Inserting

\* Drafts of codes stay while no code is written.
LEMMA UsedHeld ==
  ASSUME NEW w \in Worker, CodeHeld(w), UNCHANGED <<codes, codeOwner, codeDraft>>,
         pc[w] # "commit", pc'[w] \in UsingCodes
  PROVE  CodeHeld(w)'
  BY DEF CodeHeld, Storing, Using

\* What issue and unlink know, at a statement that keeps their row.
LEMMA SameRowRead ==
  ASSUME NEW w \in Worker, ApiReads(w), UNCHANGED <<rows, rowOwner, rowDraft, req>>,
         mem'[w].rec = mem[w].rec,
         pc[w] \in {"invalidate", "invalidating", "pickcode", "storecode",
                    "softdelete", "softdeleting", "notify"}
  PROVE  mem'[w].rec \in Record /\ RowFor(w, mem[w].rec)'.user = req'[w].user
  BY DEF ApiReads, RowFor

LEMMA InvalidateOwn ==
  ASSUME IInv, NEW w \in Worker, Own(w), Invalidate(w)
  PROVE  RowHeld(w)' /\ CodeHeld(w)' /\ Knows(w)'
<1> USE DEF IInv, TypeInv, TypeOK
<1>1. /\ pc[w] = "invalidate" /\ pc'[w] = "invalidating" /\ req' = req
      /\ UNCHANGED tables
      /\ mem'[w].rec = mem[w].rec /\ mem'[w].notice = mem[w].notice
      /\ mem'[w].todo = {c \in Code : CodeFor(w, c).rec = mem[w].rec /\ ~CodeFor(w, c).used}
  BY DEF Invalidate, Goto, Frame, Memory
<1>2. RowHeld(w)'
  BY <1>1, InsertedHeld DEF tables, Own
<1>3. \A c \in Code : codeOwner[c] # w
  BY <1>1, OwnsNoCode DEF UsingCodes, Own
<1>4. CodeHeld(w)'
  BY <1>1, <1>3 DEF CodeHeld, tables
<1>5. mem'[w].rec \in Record /\ RowFor(w, mem[w].rec)'.user = req'[w].user
  BY <1>1, SameRowRead DEF tables, Own, Knows
<1>6. \A c \in mem'[w].todo : codes'[c].rec = mem'[w].rec
  BY <1>1, <1>3 DEF CodeFor, tables
<1>7. ApiReads(w)'
  BY <1>1, <1>5, <1>6 DEF ApiReads, Succeeds
<1>8. NoticeReads(w)'
  BY <1>1 DEF NoticeReads, Own, Knows, tables
<1> QED
  BY <1>1, <1>2, <1>4, <1>7, <1>8, ApiKnows DEF Own, Roles

\* What mark_used and invalidate_previous make of a row of vk_confirmations.
LEMMA UsedVersion ==
  ASSUME NEW row \in Confirmation
  PROVE  [row EXCEPT !.used = TRUE] = [rec |-> row.rec, used |-> TRUE]
<1> DEFINE version == [row EXCEPT !.used = TRUE]
<1>1. version \in Confirmation
  BY CodeEdits
<1>2. version.rec = row.rec /\ version.used = TRUE
  BY DEF Confirmation
<1> HIDE DEF version
<1>3. version = [rec |-> version.rec, used |-> version.used]
  BY <1>1 DEF Confirmation
<1>4. version = [rec |-> row.rec, used |-> TRUE]
  BY <1>2, <1>3
<1> QED
  BY <1>4 DEF version

LEMMA InvalidateOneOwn ==
  ASSUME IInv, NEW w \in Worker, Own(w), InvalidateOne(w)
  PROVE  RowHeld(w)' /\ CodeHeld(w)' /\ Knows(w)'
<1> USE DEF IInv, TypeInv, TypeOK
<1>1. PICK c \in mem[w].todo :
        /\ WriteCode(w, c, [CodeFor(w, c) EXCEPT !.used = TRUE])
        /\ mem' = [mem EXCEPT ![w].todo = mem[w].todo \ {c}]
  BY DEF InvalidateOne
<1>2. /\ pc[w] = "invalidating" /\ pc' = pc /\ req' = req
      /\ UNCHANGED <<rows, rowOwner, rowDraft, codes>>
      /\ mem'[w].rec = mem[w].rec /\ mem'[w].notice = mem[w].notice
      /\ mem'[w].todo = mem[w].todo \ {c}
  BY <1>1 DEF InvalidateOne, WriteCode, Frame, Memory
<1>3. RowHeld(w)'
  BY <1>2, InsertedHeld DEF Own
<1>4. c \in Code /\ mem[w].rec \in Record /\ codes[c].rec = mem[w].rec
  BY <1>2 DEF Own, Knows, ApiReads, Memory
<1>5. codeOwner[c] = w => Using(w, c)
  BY <1>2, <1>4 DEF Own, CodeHeld, Storing
<1>6. CodeFor(w, c).rec = codes[c].rec /\ CodeFor(w, c) \in Confirmation
  BY <1>4, <1>5 DEF CodeFor, Using
<1>7. /\ \A d \in Code : codeOwner'[d] = IF d = c THEN w ELSE codeOwner[d]
      /\ \A d \in Code : d # c => codeDraft'[d] = codeDraft[d]
      /\ codeDraft'[c] = [CodeFor(w, c) EXCEPT !.used = TRUE]
  BY <1>1, <1>4 DEF WriteCode
<1>8. codeDraft'[c] = [rec |-> codes[c].rec, used |-> TRUE]
  BY <1>6, <1>7, UsedVersion
<1>9. CodeHeld(w)'
  <2> SUFFICES ASSUME NEW d \in Code, codeOwner'[d] = w PROVE Using(w, d)'
    BY DEF CodeHeld
  <2>1. CASE d = c
    BY <1>2, <1>4, <1>8, <2>1 DEF Using, UsingCodes
  <2>2. CASE d # c
    <3>1. Using(w, d)
      BY <1>2, <1>7, <2>2 DEF Own, CodeHeld, Storing
    <3> QED
      BY <1>2, <1>7, <2>2, <3>1 DEF Using
  <2> QED
    BY <2>1, <2>2
<1>10. mem'[w].rec \in Record /\ RowFor(w, mem[w].rec)'.user = req'[w].user
  BY <1>2, SameRowRead DEF Own, Knows
<1>11. \A d \in mem'[w].todo : codes'[d].rec = mem'[w].rec
  BY <1>2 DEF Own, Knows, ApiReads
<1>12. ApiReads(w)'
  BY <1>2, <1>10, <1>11 DEF ApiReads, Succeeds
<1>13. NoticeReads(w)'
  BY <1>2 DEF NoticeReads, Own, Knows
<1> QED
  BY <1>2, <1>3, <1>9, <1>12, <1>13, ApiKnows DEF Own, Roles

LEMMA InvalidateDoneOwn ==
  ASSUME IInv, NEW w \in Worker, Own(w), InvalidateDone(w)
  PROVE  RowHeld(w)' /\ CodeHeld(w)' /\ Knows(w)'
<1> USE DEF IInv, TypeInv, TypeOK
<1>1. /\ pc[w] = "invalidating" /\ mem' = mem /\ req' = req /\ UNCHANGED tables
      /\ pc'[w] = IF req[w].op = "issue" THEN "pickcode" ELSE "softdelete"
  BY DEF InvalidateDone, Goto, Frame
<1>2. (\A r \in Record : rowOwner[r] # w) \/ pc'[w] = "pickcode"
  BY <1>1 DEF Ownership
<1>3. RowHeld(w)'
  BY <1>1, <1>2, InsertedHeld DEF tables, Own
<1>4. CodeHeld(w)'
  BY <1>1, UsedHeld DEF tables, Own, UsingCodes
<1>5. mem'[w].rec \in Record /\ RowFor(w, mem[w].rec)'.user = req'[w].user
  BY <1>1, SameRowRead DEF tables, Own, Knows
<1>6. ApiReads(w)'
  BY <1>1, <1>5 DEF ApiReads, Succeeds
<1>7. NoticeReads(w)'
  BY <1>1 DEF NoticeReads, Own, Knows, tables
<1> QED
  BY <1>1, <1>3, <1>4, <1>6, <1>7, ApiKnows DEF Own, Roles

LEMMA PickCodeOwn ==
  ASSUME IInv, NEW w \in Worker, Own(w), PickCode(w)
  PROVE  RowHeld(w)' /\ CodeHeld(w)' /\ Knows(w)'
<1> USE DEF IInv, TypeInv, TypeOK
<1>1. /\ pc[w] = "pickcode" /\ pc'[w] \in {"storecode", "raising"} /\ req' = req
      /\ UNCHANGED tables
      /\ mem'[w].rec = mem[w].rec /\ mem'[w].notice = mem[w].notice
  BY DEF PickCode, Goto, Frame, Memory
<1>0. pc'[w] = "storecode" => mem'[w].code \in Code
  <2>1. CASE \E c \in Code : mem' = [mem EXCEPT ![w].code = c]
    BY <2>1 DEF Memory
  <2>2. CASE Goto(w, "raising")
    BY <2>2 DEF Goto
  <2> QED
    BY <2>1, <2>2 DEF PickCode
<1>2. RowHeld(w)'
  BY <1>1, InsertedHeld DEF tables, Own
<1>3. CodeHeld(w)'
  BY <1>1, UsedHeld DEF tables, Own, UsingCodes
<1>4. mem'[w].rec \in Record /\ RowFor(w, mem[w].rec)'.user = req'[w].user
  BY <1>1, SameRowRead DEF tables, Own, Knows
<1>5. ApiReads(w)'
  BY <1>0, <1>1, <1>4 DEF ApiReads, Succeeds
<1>6. mem'[w].notice = None
  BY <1>1 DEF NoticeReads, Own, Knows
<1>7. NoticeReads(w)'
  BY <1>6 DEF NoticeReads
<1> QED
  BY <1>1, <1>2, <1>3, <1>5, <1>7, ApiKnows DEF Own, Roles

LEMMA StoreCodeOwn ==
  ASSUME IInv, NEW w \in Worker, Own(w), StoreCode(w)
  PROVE  RowHeld(w)' /\ CodeHeld(w)' /\ Knows(w)'
<1> USE DEF IInv, TypeInv, TypeOK
<1>1. /\ pc[w] = "storecode" /\ req' = req /\ req[w].op = "issue" /\ mem[w].notice = None
  BY DEF StoreCode, Frame, Own, Roles, Knows, NoticeReads
<1>2. CASE Undo(w) /\ Goto(w, "raising") /\ UNCHANGED mem
  <2>1. RowHeld(w)' /\ CodeHeld(w)'
    BY <1>2, ReleaseHeld DEF Undo
  <2>2. pc'[w] = "raising" /\ mem' = mem
    BY <1>2 DEF Goto
  <2> QED
    BY <1>1, <2>1, <2>2
       DEF Knows, ApiReads, NoticeReads, ConfirmReads, StateReads, Succeeds
<1>3. CASE /\ codes[mem[w].code] = NoCode
           /\ WriteCode(w, mem[w].code, [rec |-> mem[w].rec, used |-> FALSE])
           /\ Log(w, "success") /\ Goto(w, "commit")
  <2>1. /\ pc'[w] = "commit" /\ UNCHANGED <<rows, rowOwner, rowDraft, codes>>
        /\ mem'[w].rec = mem[w].rec /\ mem'[w].code = mem[w].code
        /\ mem'[w].notice = None /\ mem'[w].entry = "success"
    BY <1>1, <1>3, LogFields DEF Goto, WriteCode
  <2>2. RowHeld(w)'
    BY <1>1, <2>1, InsertedHeld DEF Own
  <2>3. mem[w].rec \in Record
    BY <1>1 DEF Own, Knows, ApiReads
  <2>4. PICK c \in Code : c = mem[w].code
    BY <1>1 DEF Own, Knows, ApiReads
  <2>5. /\ \A d \in Code : codeOwner'[d] = IF d = c THEN w ELSE codeOwner[d]
        /\ \A d \in Code : d # c => codeDraft'[d] = codeDraft[d]
        /\ codeDraft'[c] = [rec |-> mem[w].rec, used |-> FALSE]
    BY <1>3, <2>4 DEF WriteCode
  <2>6. Storing(w, c)'
    BY <1>1, <1>3, <2>1, <2>3, <2>4, <2>5 DEF Storing
  <2>7. CodeHeld(w)'
    <3> SUFFICES ASSUME NEW d \in Code, d # c, codeOwner'[d] = w PROVE Using(w, d)'
      BY <2>6 DEF CodeHeld
    <3>1. Using(w, d)
      BY <1>1, <2>5 DEF Own, CodeHeld, Storing
    <3>2. codes'[d] = codes[d] /\ codeDraft'[d] = codeDraft[d] /\ pc'[w] = "commit"
      BY <2>1, <2>5
    <3> QED
      BY <3>1, <3>2 DEF Using, UsingCodes
  <2>8. mem'[w].rec \in Record /\ RowFor(w, mem[w].rec)'.user = req'[w].user
    BY <1>1, <2>1, SameRowRead DEF Own, Knows
  <2>9. mem'[w].code \in Code /\ codeOwner'[mem'[w].code] = w /\ codes'[mem'[w].code] = NoCode
    BY <1>3, <2>1, <2>4, <2>5
  <2>10. ApiReads(w)'
    BY <1>1, <2>1, <2>8, <2>9 DEF ApiReads, Succeeds
  <2>11. NoticeReads(w)'
    BY <2>1 DEF NoticeReads
  <2> QED
    BY <1>1, <2>1, <2>2, <2>7, <2>10, <2>11, ApiKnows
<1> QED
  BY <1>2, <1>3 DEF StoreCode

LEMMA LogUnlinkFields ==
  ASSUME TypeInv, NEW w \in Worker, LogUnlink(w)
  PROVE  /\ mem'[w].rec = mem[w].rec /\ mem'[w].notice = mem[w].notice
         /\ mem'[w].entry = "success"
         /\ pc'[w] \in {"notify", "commit"}
<1>1. Log(w, "success")
  BY DEF LogUnlink
<1>2. pc'[w] \in {"notify", "commit"}
  BY DEF LogUnlink, Goto, TypeInv, TypeOK
<1> QED
  BY <1>1, <1>2, LogFields

\* A row of a user is deleted when no live row of the user is in sight.
LEMMA NotTakenDeleted ==
  ASSUME NEW w \in Worker, \A r \in Record : rowOwner[r] # w,
         NEW u, u # None, ~UserTaken(w, u), NEW r \in Record, rows[r].user = u
  PROVE  rows[r].deleted
  BY DEF UserTaken, HasUser, RowFor, Live

\* ... or when another live row of the user is.
LEMMA OtherTakenDeleted ==
  ASSUME TypeInv, VersionsApart, NEW u, u # None, NEW r \in Record, NEW s \in Record, r # s,
         HasUser(rows[r], u), rows[s].user = u
  PROVE  rows[s].deleted
<1>1. Apart(rows[r], rows[s])
  BY DEF VersionsApart, Version, TypeInv, TypeOK
<1> QED
  BY <1>1 DEF Apart, HasUser, Live

LEMMA SoftDeleteOwn ==
  ASSUME IInv, NEW w \in Worker, Own(w), SoftDelete(w)
  PROVE  RowHeld(w)' /\ CodeHeld(w)' /\ Knows(w)'
<1> USE DEF IInv
<1>1. /\ pc[w] = "softdelete" /\ req' = req /\ UNCHANGED tables /\ req[w].op = "unlink"
  BY DEF SoftDelete, Frame, Own, Roles, LogUnlink
<1>2. req[w].user # None
  BY <1>1, RequestFields
<1>3. \A r \in Record : rowOwner[r] # w
  BY <1>1, OwnsNothing DEF Owning
<1>4. pc'[w] \in {"softdeleting", "notify", "commit"}
  BY DEF SoftDelete, LogUnlink, Goto, TypeInv, TypeOK
<1>5. RowHeld(w)'
  BY <1>1, <1>3 DEF RowHeld, tables
<1>6. CodeHeld(w)'
  BY <1>1, <1>4, UsedHeld DEF tables, Own, UsingCodes
<1>7. \A r \in Record : RowFor(w, r) = rows[r] /\ RowFor(w, r)' = rows[r]
  BY <1>1, <1>3 DEF RowFor, tables
<1>8. /\ mem[w].rec \in Record /\ rows[mem[w].rec].user = req[w].user
      /\ mem[w].notice # None =>
           mem[w].notice \in Record /\ rows[mem[w].notice].user = req[w].user
  BY <1>1, <1>7 DEF Own, Knows, ApiReads, NoticeReads, TypeInv, TypeOK, Memory
<1>9. CASE ~UserTaken(w, req[w].user) /\ LogUnlink(w)
  <2>1. /\ mem'[w].rec = mem[w].rec /\ mem'[w].notice = mem[w].notice
        /\ pc'[w] \in {"notify", "commit"}
    BY <1>9, LogUnlinkFields
  <2>2. /\ rows[mem[w].rec].deleted
        /\ mem[w].notice # None => rows[mem[w].notice].deleted
    BY <1>2, <1>3, <1>8, <1>9, NotTakenDeleted
  <2>3. ApiReads(w)'
    BY <1>1, <1>7, <1>8, <2>1, <2>2 DEF ApiReads, Succeeds, tables
  <2>4. NoticeReads(w)'
    BY <1>1, <1>8, <2>1, <2>2 DEF NoticeReads, tables
  <2> QED
    BY <1>1, <1>5, <1>6, <2>1, <2>3, <2>4, ApiKnows
<1>10. CASE \E r \in Record :
              /\ HasUser(RowFor(w, r), req[w].user)
              /\ mem' = [mem EXCEPT ![w].rec = r]
              /\ Goto(w, "softdeleting")
  <2>1. PICK r \in Record :
              /\ HasUser(rows[r], req[w].user)
              /\ mem' = [mem EXCEPT ![w].rec = r]
              /\ Goto(w, "softdeleting")
    BY <1>7, <1>10
  <2>2. /\ pc'[w] = "softdeleting" /\ mem'[w].rec = r /\ mem'[w].notice = mem[w].notice
        /\ rows[r].user = req[w].user
    BY <2>1 DEF HasUser, Goto, TypeInv, TypeOK, Memory
  <2>3. mem[w].notice # None => mem[w].notice = r \/ rows[mem[w].notice].deleted
    BY <1>2, <1>8, <2>1, OtherTakenDeleted
  <2>4. ApiReads(w)'
    BY <1>1, <1>7, <2>2 DEF ApiReads, Succeeds
  <2>5. NoticeReads(w)'
    BY <1>1, <1>8, <2>2, <2>3 DEF NoticeReads, tables
  <2> QED
    BY <1>1, <1>5, <1>6, <2>2, <2>4, <2>5, ApiKnows
<1> QED
  BY <1>9, <1>10 DEF SoftDelete

LEMMA SoftDeleteRowOwn ==
  ASSUME IInv, NEW w \in Worker, Own(w), SoftDeleteRow(w)
  PROVE  RowHeld(w)' /\ CodeHeld(w)' /\ Knows(w)'
<1> USE DEF IInv
<1>1. /\ pc[w] = "softdeleting" /\ req' = req /\ req[w].op = "unlink"
      /\ UNCHANGED <<rows, codes, codeOwner, codeDraft>>
  BY DEF SoftDeleteRow, Frame, Own, Roles, WriteRow, tables
<1>2. req[w].user # None
  BY <1>1, RequestFields
<1>3. \A s \in Record : rowOwner[s] # w
  BY <1>1, OwnsNothing DEF Owning
<1>4. /\ mem'[w].rec = mem[w].rec /\ mem'[w].notice = mem[w].notice
      /\ pc'[w] \in {"notify", "commit"}
  BY LogUnlinkFields DEF SoftDeleteRow
<1>5. PICK r \in Record : r = mem[w].rec
  BY <1>1 DEF Own, Knows, ApiReads
<1>6. RowFor(w, r) = rows[r] /\ rows[r] \in Row
  BY <1>3 DEF RowFor, TypeInv, TypeOK
<1>7. rows[r].user = req[w].user
  BY <1>1, <1>5, <1>6 DEF Own, Knows, ApiReads
<1>8. CodeHeld(w)'
  BY <1>1, <1>4, UsedHeld DEF Own, UsingCodes
<1>9. /\ RowHeld(w)' /\ RowFor(w, r)'.user = req[w].user
      /\ rows[r].deleted \/ rowOwner'[r] = w
  <2>1. CASE rows[r].deleted /\ UNCHANGED tables
    BY <1>3, <1>6, <1>7, <2>1 DEF RowHeld, RowFor, tables
  <2>2. CASE ~rows[r].deleted /\ WriteRow(w, r, [rows[r] EXCEPT !.deleted = TRUE])
    <3>1. /\ \A s \in Record : rowOwner'[s] = IF s = r THEN w ELSE rowOwner[s]
          /\ rowDraft'[r] = [rows[r] EXCEPT !.deleted = TRUE]
      BY <2>2 DEF WriteRow, TypeInv, TypeOK
    <3>2. Deleting(w, r)'
      BY <1>1, <1>2, <1>4, <1>7, <2>2, <3>1 DEF Deleting, Live
    <3>3. RowFor(w, r)'.user = req[w].user
      BY <1>6, <1>7, <3>1 DEF RowFor, Row
    <3> QED
      BY <1>3, <3>1, <3>2, <3>3 DEF RowHeld
  <2> QED
    BY <1>5, <1>6, <2>1, <2>2 DEF SoftDeleteRow
<1>10. ApiReads(w)'
  BY <1>1, <1>4, <1>5, <1>9 DEF ApiReads, Succeeds
<1>11. NoticeReads(w)'
  BY <1>1, <1>4, <1>5, <1>9 DEF NoticeReads, Own, Knows
<1> QED
  BY <1>1, <1>4, <1>8, <1>9, <1>10, <1>11, ApiKnows

LEMMA NotifyOwn ==
  ASSUME IInv, NEW w \in Worker, Own(w), Notify(w)
  PROVE  RowHeld(w)' /\ CodeHeld(w)' /\ Knows(w)'
<1> USE DEF IInv
<1>1. /\ pc[w] = "notify" /\ pc'[w] = "commit" /\ mem' = mem /\ req' = req
      /\ UNCHANGED tables /\ req[w].op = "unlink"
  BY DEF Notify, Goto, Frame, TypeInv, TypeOK, Own, Roles
<1>2. RowHeld(w)'
  <2> SUFFICES ASSUME NEW r \in Record, rowOwner'[r] = w PROVE Deleting(w, r)'
    BY DEF RowHeld
  <2>1. Deleting(w, r)
    BY <1>1 DEF tables, Own, RowHeld, Inserting, Locking, Linking, Moving
  <2> QED
    BY <1>1, <2>1 DEF Deleting, tables, Live
<1>3. CodeHeld(w)'
  BY <1>1, UsedHeld DEF tables, Own, UsingCodes
<1>4. RowFor(w, mem[w].rec)' = RowFor(w, mem[w].rec)
  BY <1>1 DEF RowFor, tables
<1>5. ApiReads(w)'
  BY <1>1, <1>4 DEF ApiReads, Succeeds, Own, Knows, tables
<1>6. NoticeReads(w)'
  BY <1>1 DEF NoticeReads, Own, Knows, tables
<1> QED
  BY <1>1, <1>2, <1>3, <1>5, <1>6, ApiKnows

\* A request of the bot keeps none of what issue and unlink know.
LEMMA BotKnows ==
  ASSUME IInv, NEW w \in Worker, Own(w), UNCHANGED req,
         req[w].op \in {"confirm", "deny", "allow"},
         mem'[w].notice = mem[w].notice,
         pc'[w] \notin {"invalidate", "invalidating", "pickcode", "storecode",
                        "softdelete", "softdeleting", "notify"},
         ConfirmReads(w)', StateReads(w)'
  PROVE  Knows(w)'
<1>1. mem'[w].notice = None
  BY DEF Own, Knows, NoticeReads
<1>2. ApiReads(w)' /\ NoticeReads(w)'
  BY <1>1 DEF ApiReads, NoticeReads, Succeeds
<1> QED
  BY <1>2 DEF Knows

\* The request at a statement of the bot.
LEMMA BotRequest ==
  ASSUME IInv, NEW w \in Worker, Own(w)
  PROVE  /\ pc[w] \in {"ratelimit", "fetchcode", "fetchbinding", "occupied",
                       "activate", "index", "markused"}
              => req[w] \in ConfirmRequest /\ req[w].op = "confirm"
         /\ pc[w] \in {"findpeer", "setstate"} => req[w].op \in {"deny", "allow"}
  BY RequestFields DEF IInv, TypeInv, ConfirmRequests, Own, Roles

\* A statement that logs something else than a success, or goes on to the next
\* statement of confirm.
LEMMA RefusedKnows ==
  ASSUME IInv, NEW w \in Worker, Own(w), UNCHANGED req,
         req[w].op \in {"confirm", "deny", "allow"},
         mem'[w].notice = mem[w].notice,
         \/ pc'[w] = "commit" /\ mem'[w].entry # "success"
         \/ pc'[w] \in {"fetchcode", "raising"}
  PROVE  Knows(w)'
<1>1. ConfirmReads(w)' /\ StateReads(w)'
  BY DEF ConfirmReads, StateReads, Succeeds
<1> QED
  BY <1>1, BotKnows

LEMMA LoggedRefusal ==
  ASSUME IInv, NEW w \in Worker, Own(w), UNCHANGED req,
         req[w].op \in {"confirm", "deny", "allow"},
         NEW s, s # "success", Log(w, s), Goto(w, "commit")
  PROVE  Knows(w)'
<1>1. pc'[w] = "commit" /\ mem'[w].entry # "success" /\ mem'[w].notice = mem[w].notice
  BY LogFields DEF Goto, IInv, TypeInv, TypeOK
<1> QED
  BY <1>1, RefusedKnows

\* The statements of confirm that only read, and the search for an account.
LEMMA BotReadsHeld ==
  ASSUME IInv, NEW w \in Worker, Own(w),
         RateLimit(w) \/ FetchCode(w) \/ FetchBinding(w) \/ Occupied(w) \/ FindPeer(w)
  PROVE  /\ RowHeld(w)' /\ CodeHeld(w)'
         /\ UNCHANGED <<tables, req>>
         /\ \A r \in Record : RowFor(w, r) = rows[r]
         /\ \A c \in Code : CodeFor(w, c) = codes[c]
<1>1. /\ pc[w] \in {"ratelimit", "fetchcode", "fetchbinding", "occupied", "findpeer"}
      /\ UNCHANGED <<tables, req>>
  BY DEF RateLimit, FetchCode, FetchBinding, Occupied, FindPeer, LogAndCommit, Frame
<1>2. (\A r \in Record : rowOwner[r] # w) /\ (\A c \in Code : codeOwner[c] # w)
  BY <1>1, OwnsNothing, OwnsNoCode DEF Owning, UsingCodes, IInv, Own
<1>3. RowHeld(w)' /\ CodeHeld(w)'
  BY <1>1, <1>2, NothingHeld DEF tables
<1> QED
  BY <1>1, <1>2, <1>3 DEF RowFor, CodeFor

LEMMA ConfirmReadsOwn ==
  ASSUME IInv, CodesHaveRows, NEW w \in Worker, Own(w),
         RateLimit(w) \/ FetchCode(w) \/ FetchBinding(w) \/ Occupied(w)
  PROVE  Knows(w)'
<1> USE DEF IInv
<1>1. /\ UNCHANGED <<tables, req>>
      /\ \A r \in Record : RowFor(w, r) = rows[r]
      /\ \A c \in Code : CodeFor(w, c) = codes[c]
  BY BotReadsHeld
<1>2. req[w] \in ConfirmRequest /\ req[w].op = "confirm" /\ req[w].code \in Code
  BY BotRequest, RequestFields DEF RateLimit, FetchCode, FetchBinding, Occupied
\* What the two statements that go on know.
<1>3. ASSUME mem'[w].rec \in Record, codes[req[w].code].rec = mem'[w].rec,
             mem'[w].notice = mem[w].notice,
             \/ pc'[w] = "fetchbinding"
             \/ pc'[w] \in {"occupied", "activate"} /\ rows[mem'[w].rec].user # None
      PROVE  Knows(w)'
  <2>1. ConfirmReads(w)' /\ StateReads(w)'
    BY <1>1, <1>3 DEF ConfirmReads, StateReads, Succeeds, tables
  <2> QED
    BY <1>1, <1>2, <1>3, <2>1, BotKnows
<1>4. CASE RateLimit(w)
  <2>1. CASE LogAndCommit(w, "rate_limited")
    BY <1>1, <1>2, <2>1, LoggedRefusal DEF LogAndCommit
  <2>2. CASE Goto(w, "fetchcode") /\ UNCHANGED mem
    <3>1. pc'[w] = "fetchcode"
      BY <2>2 DEF Goto, TypeInv, TypeOK
    <3> QED
      BY <1>1, <1>2, <2>2, <3>1, RefusedKnows
  <2> QED
    BY <1>4, <2>1, <2>2 DEF RateLimit
<1>5. CASE FetchCode(w)
  <2> DEFINE confirmation == codes[req[w].code]
  <2>1. \/ LogAndCommit(w, "not_found")
        \/ /\ confirmation # NoCode
           /\ mem' = [mem EXCEPT ![w].rec = confirmation.rec, ![w].used = confirmation.used]
           /\ Goto(w, "fetchbinding")
    BY <1>1, <1>2, <1>5 DEF FetchCode
  <2>2. CASE LogAndCommit(w, "not_found")
    BY <1>1, <1>2, <2>2, LoggedRefusal DEF LogAndCommit
  <2>3. CASE /\ confirmation # NoCode
             /\ mem' = [mem EXCEPT ![w].rec = confirmation.rec, ![w].used = confirmation.used]
             /\ Goto(w, "fetchbinding")
    <3>1. confirmation.rec \in Record
      BY <1>2, <2>3 DEF CodesHaveRows
    <3>2. /\ mem'[w].rec = confirmation.rec /\ mem'[w].notice = mem[w].notice
          /\ pc'[w] = "fetchbinding"
      BY <2>3 DEF Goto, TypeInv, TypeOK, Memory
    <3> QED
      BY <1>3, <3>1, <3>2
  <2> QED
    BY <2>1, <2>2, <2>3
<1>6. ASSUME pc[w] \in {"fetchbinding", "occupied"}
      PROVE  /\ mem[w].rec \in Record /\ codes[req[w].code].rec = mem[w].rec
             /\ pc[w] = "occupied" => rows[mem[w].rec].user # None
  BY <1>6 DEF Own, Knows, ConfirmReads
<1>7. CASE FetchBinding(w)
  <2> DEFINE verdict == Verdict(RowFor(w, mem[w].rec), mem[w].used,
                                req[w].code \in expired, req[w].peer)
  <2>1. \/ verdict # "open" /\ LogAndCommit(w, verdict)
        \/ verdict = "open" /\ Goto(w, "occupied") /\ UNCHANGED mem
    BY <1>7 DEF FetchBinding
  <2>2. verdict # "success"
    BY DEF Verdict
  <2>3. mem[w].used \in BOOLEAN
    BY DEF TypeInv, TypeOK, Memory
  <2>4. verdict = "open" => Live(RowFor(w, mem[w].rec))
    BY <2>3 DEF Verdict
  <2> HIDE DEF verdict
  <2>5. CASE LogAndCommit(w, verdict)
    BY <1>1, <1>2, <2>2, <2>5, LoggedRefusal DEF LogAndCommit
  <2>6. CASE verdict = "open" /\ Goto(w, "occupied") /\ UNCHANGED mem
    <3>1. pc[w] = "fetchbinding" /\ pc'[w] = "occupied"
      BY <1>7, <2>6 DEF FetchBinding, Goto, TypeInv, TypeOK
    <3>2. rows[mem[w].rec].user # None
      BY <1>1, <1>6, <2>4, <2>6, <3>1 DEF Live
    <3> QED
      BY <1>3, <1>6, <2>6, <3>1, <3>2
  <2> QED
    BY <2>1, <2>5, <2>6
<1>8. CASE Occupied(w)
  <2>1. CASE LogAndCommit(w, "peer_conflict")
    BY <1>1, <1>2, <2>1, LoggedRefusal DEF LogAndCommit
  <2>2. CASE Goto(w, "activate") /\ UNCHANGED mem
    <3>1. pc[w] = "occupied" /\ pc'[w] = "activate"
      BY <1>8, <2>2 DEF Occupied, Goto, TypeInv, TypeOK
    <3> QED
      BY <1>3, <1>6, <2>2, <3>1
  <2> QED
    BY <1>8, <2>1, <2>2 DEF Occupied
<1> QED
  BY <1>4, <1>5, <1>7, <1>8

LEMMA FindPeerOwn ==
  ASSUME IInv, NEW w \in Worker, Own(w), FindPeer(w)
  PROVE  Knows(w)'
<1> USE DEF IInv
<1>1. /\ UNCHANGED <<tables, req>>
      /\ \A r \in Record : RowFor(w, r) = rows[r]
  BY BotReadsHeld
<1>2. pc[w] = "findpeer" /\ req[w].op \in {"deny", "allow"}
  BY BotRequest DEF FindPeer
<1>3. CASE LogAndCommit(w, "no_binding")
  BY <1>1, <1>2, <1>3, LoggedRefusal DEF LogAndCommit
<1>4. CASE \E r \in Record :
             /\ HasPeer(RowFor(w, r), req[w].peer)
             /\ mem' = [mem EXCEPT ![w].rec = r]
             /\ Goto(w, "setstate")
  <2>1. PICK r \in Record :
             /\ HasPeer(rows[r], req[w].peer)
             /\ mem' = [mem EXCEPT ![w].rec = r]
             /\ Goto(w, "setstate")
    BY <1>1, <1>4
  <2>2. /\ pc'[w] = "setstate" /\ mem'[w].rec = r /\ mem'[w].notice = mem[w].notice
    BY <2>1 DEF Goto, TypeInv, TypeOK, Memory
  <2>3. req[w].peer # None
    <3>1. req[w] \in Request \cup {NoRequest}
      BY DEF TypeInv, TypeOK
    <3>2. req[w] \in StateRequest
      BY <1>2, <3>1 DEF Request, ApiRequest, ConfirmRequest, NoRequest
    <3> QED
      BY <3>2, BindingAssumption DEF StateRequest
  <2>4. rows[r].user # None /\ rows[r].peer # None
    BY <2>1, <2>3 DEF HasPeer, Live
  <2>5. ConfirmReads(w)' /\ StateReads(w)'
    BY <1>1, <2>2, <2>4 DEF ConfirmReads, StateReads, Succeeds, tables
  <2> QED
    BY <1>1, <1>2, <2>2, <2>5, BotKnows
<1> QED
  BY <1>3, <1>4 DEF FindPeer

LEMMA SetStateOwn ==
  ASSUME IInv, NEW w \in Worker, Own(w), SetState(w)
  PROVE  RowHeld(w)' /\ CodeHeld(w)' /\ Knows(w)'
<1> USE DEF IInv
<1>1. /\ pc[w] = "setstate" /\ pc'[w] = "commit" /\ req' = req
      /\ req[w].op \in {"deny", "allow"}
      /\ UNCHANGED <<rows, codeOwner>>
  BY BotRequest DEF SetState, Goto, Frame, WriteRow, tables, TypeInv, TypeOK
<1>2. mem'[w].rec = mem[w].rec /\ mem'[w].notice = mem[w].notice
  BY LogFields DEF SetState
<1>3. (\A s \in Record : rowOwner[s] # w) /\ (\A c \in Code : codeOwner[c] # w)
  BY <1>1, OwnsNothing, OwnsNoCode DEF Owning, UsingCodes, Own
<1>4. PICK r \in Record : r = mem[w].rec /\ rows[r].user # None /\ rows[r].peer # None
  BY <1>1 DEF Own, Knows, StateReads
<1>5. CodeHeld(w)'
  BY <1>1, <1>3 DEF CodeHeld
<1>6. RowHeld(w)' /\ (rows[r].deleted \/ rowOwner'[r] = w)
  <2>1. CASE rows[r].deleted /\ UNCHANGED tables
    BY <1>3, <2>1 DEF RowHeld, tables
  <2>2. CASE /\ ~rows[r].deleted
             /\ WriteRow(w, r, [RowFor(w, r) EXCEPT !.state = TargetState(req[w].op)])
    <3>1. RowFor(w, r) = rows[r]
      BY <1>3 DEF RowFor
    <3>2. /\ \A s \in Record : rowOwner'[s] = IF s = r THEN w ELSE rowOwner[s]
          /\ rowDraft'[r] = [rows[r] EXCEPT !.state = TargetState(req[w].op)]
      BY <2>2, <3>1 DEF WriteRow, TypeInv, TypeOK
    <3>3. Moving(w, r)'
      BY <1>1, <1>4, <2>2, <3>2 DEF Moving, Live
    <3> QED
      BY <1>3, <3>2, <3>3 DEF RowHeld
  <2> QED
    BY <1>4, <2>1, <2>2 DEF SetState
<1>7. ConfirmReads(w)' /\ StateReads(w)'
  BY <1>1, <1>2, <1>4, <1>6 DEF ConfirmReads, StateReads, Succeeds
<1> QED
  BY <1>1, <1>2, <1>5, <1>6, <1>7, BotKnows

LEMMA ActivateOwn ==
  ASSUME IInv, NEW w \in Worker, Own(w), Activate(w)
  PROVE  RowHeld(w)' /\ CodeHeld(w)' /\ Knows(w)'
<1> USE DEF IInv
<1>1. /\ pc[w] = "activate" /\ mem' = mem /\ req' = req /\ req[w].op = "confirm"
      /\ UNCHANGED <<rows, codes, codeOwner>>
  BY BotRequest DEF Activate, Frame, WriteRow, tables
<1>2. (\A s \in Record : rowOwner[s] # w) /\ (\A c \in Code : codeOwner[c] # w)
  BY <1>1, OwnsNothing, OwnsNoCode DEF Owning, UsingCodes, Own
<1>3. CodeHeld(w)'
  BY <1>1, <1>2 DEF CodeHeld
<1>4. CASE Goto(w, "raising") /\ UNCHANGED tables
  <2>1. pc'[w] = "raising"
    BY <1>4 DEF Goto, TypeInv, TypeOK
  <2>2. RowHeld(w)'
    BY <1>2, <1>4 DEF RowHeld, tables
  <2> QED
    BY <1>1, <1>3, <2>1, <2>2, RefusedKnows
<1>5. CASE /\ ~rows[mem[w].rec].deleted
           /\ WriteRow(w, mem[w].rec, RowFor(w, mem[w].rec))
           /\ Goto(w, "index")
  <2>1. PICK r \in Record : r = mem[w].rec /\ rows[r].user # None
                            /\ codes[req[w].code].rec = r
    BY <1>1 DEF Own, Knows, ConfirmReads
  <2>2. pc'[w] = "index" /\ RowFor(w, r) = rows[r]
    BY <1>2, <1>5 DEF Goto, TypeInv, TypeOK, RowFor
  <2>3. /\ \A s \in Record : rowOwner'[s] = IF s = r THEN w ELSE rowOwner[s]
        /\ rowDraft'[r] = rows[r]
    BY <1>5, <2>1, <2>2 DEF WriteRow, TypeInv, TypeOK
  <2>4. Locking(w, r)'
    BY <1>1, <1>5, <2>1, <2>2, <2>3 DEF Locking, Live
  <2>5. RowHeld(w)'
    BY <1>2, <2>3, <2>4 DEF RowHeld
  <2>6. ConfirmReads(w)' /\ StateReads(w)'
    BY <1>1, <2>1, <2>2, <2>3 DEF ConfirmReads, StateReads, Succeeds
  <2> QED
    BY <1>1, <1>3, <2>2, <2>5, <2>6, BotKnows
<1> QED
  BY <1>4, <1>5 DEF Activate

\* At the statements of confirm that hold the row it is the only one.
LEMMA ConfirmHolds ==
  ASSUME IInv, NEW w \in Worker, Own(w), pc[w] \in {"index", "markused"}
  PROVE  /\ mem[w].rec \in Record
         /\ rowOwner[mem[w].rec] = w
         /\ codes[req[w].code].rec = mem[w].rec
         /\ \A s \in Record : rowOwner[s] = w => s = mem[w].rec
         /\ pc[w] = "index" => Locking(w, mem[w].rec)
         /\ pc[w] = "markused" => Linking(w, mem[w].rec)
<1>1. /\ mem[w].rec \in Record /\ rowOwner[mem[w].rec] = w
      /\ codes[req[w].code].rec = mem[w].rec
  BY DEF Own, Knows, ConfirmReads
<1>2. \A s \in Record : rowOwner[s] = w => s = mem[w].rec
  BY DEF IInv, Ownership
<1>3. \/ Inserting(w, mem[w].rec) \/ Locking(w, mem[w].rec) \/ Linking(w, mem[w].rec)
      \/ Moving(w, mem[w].rec) \/ Deleting(w, mem[w].rec)
  BY <1>1 DEF Own, RowHeld
<1>4. /\ pc[w] = "index" => Locking(w, mem[w].rec)
      /\ pc[w] = "markused" => Linking(w, mem[w].rec)
  BY <1>3 DEF Inserting, Locking, Linking, Moving, Deleting
<1> QED
  BY <1>1, <1>2, <1>4

LEMMA ActivateIndexOwn ==
  ASSUME IInv, NEW w \in Worker, Own(w), ActivateIndex(w)
  PROVE  RowHeld(w)' /\ CodeHeld(w)' /\ Knows(w)'
<1> USE DEF IInv
<1>1. /\ pc[w] = "index" /\ req' = req
      /\ req[w] \in ConfirmRequest /\ req[w].op = "confirm"
  BY BotRequest DEF ActivateIndex, Frame
<1>2. CASE Undo(w) /\ Log(w, "peer_conflict") /\ Goto(w, "commit")
  <2>1. RowHeld(w)' /\ CodeHeld(w)'
    BY <1>2, ReleaseHeld DEF Undo
  <2> QED
    BY <1>1, <1>2, <2>1, LoggedRefusal
<1>3. CASE /\ WriteRow(w, mem[w].rec, [RowFor(w, mem[w].rec) EXCEPT
                                         !.peer = req[w].peer, !.state = "ACTIVE"])
           /\ Goto(w, "markused")
           /\ UNCHANGED mem
  <2>1. PICK r \in Record : r = mem[w].rec
    BY <1>1, ConfirmHolds
  <2>2. /\ rowOwner[r] = w /\ codes[req[w].code].rec = r
        /\ \A s \in Record : rowOwner[s] = w => s = r
        /\ Locking(w, r)
    BY <1>1, <2>1, ConfirmHolds
  <2>3. RowFor(w, r) = rows[r] /\ Live(rows[r])
    BY <2>2 DEF RowFor, Locking
  <2>4. pc'[w] = "markused" /\ mem' = mem /\ UNCHANGED <<rows, codes, codeOwner, codeDraft>>
    BY <1>3 DEF Goto, WriteRow, TypeInv, TypeOK
  <2>5. /\ \A s \in Record : rowOwner'[s] = rowOwner[s]
        /\ rowDraft'[r] = [rows[r] EXCEPT !.peer = req[w].peer, !.state = "ACTIVE"]
    BY <1>3, <2>1, <2>2, <2>3 DEF WriteRow, TypeInv, TypeOK
  <2>6. Linking(w, r)'
    BY <1>1, <2>2, <2>3, <2>4, <2>5 DEF Linking, Live
  <2>7. RowHeld(w)'
    BY <2>2, <2>5, <2>6 DEF RowHeld
  <2>8. CodeHeld(w)'
    BY <1>1, <2>4, OwnsNoCode DEF Own, UsingCodes, CodeHeld
  <2>9. rows[r].user # None
    BY <2>3 DEF Live
  <2>10. ConfirmReads(w)' /\ StateReads(w)'
    BY <1>1, <2>1, <2>2, <2>4, <2>5, <2>9 DEF ConfirmReads, StateReads, Succeeds
  <2> QED
    BY <1>1, <2>4, <2>7, <2>8, <2>10, BotKnows
<1> QED
  BY <1>2, <1>3 DEF ActivateIndex

LEMMA MarkUsedOwn ==
  ASSUME IInv, NEW w \in Worker, Own(w), MarkUsed(w)
  PROVE  RowHeld(w)' /\ CodeHeld(w)' /\ Knows(w)'
<1> USE DEF IInv
<1>1. /\ pc[w] = "markused" /\ pc'[w] = "commit" /\ req' = req
      /\ req[w] \in ConfirmRequest /\ req[w].op = "confirm"
      /\ UNCHANGED <<rows, rowOwner, rowDraft, codes>>
  BY BotRequest DEF MarkUsed, Goto, Frame, WriteCode, TypeInv, TypeOK
<1>2. mem'[w].rec = mem[w].rec /\ mem'[w].notice = mem[w].notice
  BY LogFields DEF MarkUsed
<1>3. PICK r \in Record : r = mem[w].rec
  BY <1>1, ConfirmHolds
<1>4. /\ rowOwner[r] = w /\ codes[req[w].code].rec = r /\ Linking(w, r)
      /\ \A s \in Record : rowOwner[s] = w => s = r
  BY <1>1, <1>3, ConfirmHolds
<1>5. PICK c \in Code : c = req[w].code
  BY <1>1, RequestFields
<1>6. \A d \in Code : codeOwner[d] # w
  BY <1>1, OwnsNoCode DEF Own, UsingCodes
<1>7. /\ \A d \in Code : codeOwner'[d] = IF d = c THEN w ELSE codeOwner[d]
      /\ codeDraft'[c] = [codes[c] EXCEPT !.used = TRUE]
  BY <1>5, <1>6 DEF MarkUsed, WriteCode, CodeFor, TypeInv, TypeOK
<1>8. codeDraft'[c] = [rec |-> codes[c].rec, used |-> TRUE]
  BY <1>7, UsedVersion DEF TypeInv, TypeOK
<1>9. Using(w, c)'
  BY <1>1, <1>4, <1>5, <1>8 DEF Using, UsingCodes
<1>10. CodeHeld(w)'
  BY <1>6, <1>7, <1>9 DEF CodeHeld
<1>11. Linking(w, r)'
  BY <1>1, <1>4, <1>5, <1>7 DEF Linking, Live
<1>12. RowHeld(w)'
  BY <1>1, <1>4, <1>11 DEF RowHeld
<1>13. ConfirmReads(w)' /\ StateReads(w)'
  BY <1>1, <1>2, <1>3, <1>4, <1>5, <1>7 DEF ConfirmReads, StateReads, Succeeds
<1> QED
  BY <1>1, <1>2, <1>10, <1>12, <1>13, BotKnows

\* A step of a request keeps what it knows itself ...
LEMMA StepOwn ==
  ASSUME IInv, CodesHaveRows, NEW w \in Worker, Own(w), Start(w) \/ Step(w) \/ Crash(w)
  PROVE  Own(w)'
<1>1. Roles(w)'
  BY StepRoles DEF IInv, Own
<1>2. CASE Start(w) \/ EndStep(w) \/ Crash(w)
  BY <1>1, <1>2, StartOwn, EndOwn DEF Own
<1>3. CASE ApiStep(w)
  BY <1>1, <1>3, LookupOwn, InsertOwn, InvalidateOwn, InvalidateOneOwn, InvalidateDoneOwn,
     PickCodeOwn, StoreCodeOwn, SoftDeleteOwn, SoftDeleteRowOwn, NotifyOwn DEF ApiStep, Own
<1>4. CASE BotStep(w)
  BY <1>1, <1>4, BotReadsHeld, ConfirmReadsOwn, FindPeerOwn, SetStateOwn, ActivateOwn,
     ActivateIndexOwn, MarkUsedOwn DEF BotStep, Own
<1> QED
  BY <1>2, <1>3, <1>4 DEF Step

\* ... and what the others know.
LEMMA StepRespects ==
  ASSUME IInv, NEW w \in Worker, Own(w), Start(w) \/ Step(w) \/ Crash(w)
  PROVE  Respects(w)
<1>1. TypeInv /\ Others(w)
  BY StepOthers DEF IInv
<1>2. CASE Start(w) \/ Lookup(w) \/ Relookup(w) \/ Invalidate(w) \/ InvalidateDone(w)
           \/ PickCode(w) \/ SoftDelete(w) \/ Notify(w) \/ RateLimit(w) \/ FetchCode(w)
           \/ FetchBinding(w) \/ Occupied(w) \/ FindPeer(w)
  <2>1. UNCHANGED tables
    BY <1>2 DEF Start, Lookup, Relookup, Found, LogAndCommit, Invalidate, InvalidateDone,
       PickCode, SoftDelete, Notify, RateLimit, FetchCode, FetchBinding, Occupied, FindPeer
  <2> QED
    BY <1>1, <2>1, RespectsUnchanged
<1>3. CASE Insert(w)
  <2>1. Undo(w) \/ \E r \in Record : \E row : rowOwner[r] = None /\ WriteRow(w, r, row)
    BY <1>3 DEF Insert
  <2> QED
    BY <1>1, <2>1, RespectsUndo, RespectsWriteRow DEF RowFree
<1>4. CASE InvalidateOne(w)
  <2>1. mem[w].todo \subseteq Code
    BY <1>1 DEF TypeInv, TypeOK, Memory
  <2>2. \E c \in Code : \E row : CodeFree(w, c) /\ WriteCode(w, c, row)
    BY <1>4, <2>1 DEF InvalidateOne
  <2> QED
    BY <1>1, <2>2, RespectsWriteCode
<1>5. CASE StoreCode(w)
  <2>1. mem[w].code \in Code
    BY <1>5 DEF StoreCode, Own, Knows, ApiReads
  <2>2. Undo(w) \/ \E c \in Code : \E row : CodeFree(w, c) /\ WriteCode(w, c, row)
    BY <1>5, <2>1 DEF StoreCode
  <2> QED
    BY <1>1, <2>2, RespectsUndo, RespectsWriteCode
<1>6. CASE SoftDeleteRow(w) \/ SetState(w) \/ Activate(w)
  <2>1. mem[w].rec \in Record
    BY <1>6 DEF SoftDeleteRow, SetState, Activate, Own, Knows, ApiReads, StateReads,
                ConfirmReads
  <2>2. UNCHANGED tables \/ \E r \in Record : \E row : RowFree(w, r) /\ WriteRow(w, r, row)
    BY <1>6, <2>1 DEF SoftDeleteRow, SetState, Activate
  <2> QED
    BY <1>1, <2>2, RespectsUnchanged, RespectsWriteRow
<1>7. CASE ActivateIndex(w)
  <2>1. mem[w].rec \in Record /\ RowFree(w, mem[w].rec)
    BY <1>7, ConfirmHolds DEF ActivateIndex, RowFree
  <2>2. Undo(w) \/ \E r \in Record : \E row : RowFree(w, r) /\ WriteRow(w, r, row)
    BY <1>7, <2>1 DEF ActivateIndex
  <2> QED
    BY <1>1, <2>2, RespectsUndo, RespectsWriteRow
<1>8. CASE MarkUsed(w)
  <2>1. req[w].code \in Code
    BY <1>1, <1>8, BotRequest, RequestFields DEF MarkUsed
  <2>2. \E c \in Code : \E row : CodeFree(w, c) /\ WriteCode(w, c, row)
    BY <1>8, <2>1 DEF MarkUsed
  <2> QED
    BY <1>1, <2>2, RespectsWriteCode
<1>9. CASE EndStep(w) \/ Crash(w)
  <2>1. Commit(w) \/ Undo(w)
    BY <1>9 DEF EndStep, Rollback, DeadlockVictim, Crash
  <2> QED
    BY <1>1, <2>1, RespectsCommit, RespectsUndo DEF Own
<1> QED
  BY <1>2, <1>3, <1>4, <1>5, <1>6, <1>7, <1>8, <1>9 DEF Step, ApiStep, BotStep

\* Only a commit changes what is committed.
LEMMA OnlyCommits ==
  ASSUME NEW w \in Worker, Start(w) \/ Step(w) \/ Crash(w), ~Commit(w)
  PROVE  rows' = rows /\ codes' = codes
<1>1. CASE Start(w) \/ Crash(w) \/ EndStep(w)
  BY <1>1 DEF Start, Crash, EndStep, Rollback, DeadlockVictim, Undo, tables
<1>2. CASE ApiStep(w)
  BY <1>2 DEF ApiStep, Lookup, Insert, Relookup, Invalidate, InvalidateOne, InvalidateDone,
     PickCode, StoreCode, SoftDelete, SoftDeleteRow, Notify, Found, LogAndCommit, WriteRow,
     WriteCode, Undo, tables
<1>3. CASE BotStep(w)
  BY <1>3 DEF BotStep, RateLimit, FetchCode, FetchBinding, Occupied, Activate, ActivateIndex,
     MarkUsed, FindPeer, SetState, LogAndCommit, WriteRow, WriteCode, Undo, tables
<1> QED
  BY <1>1, <1>2, <1>3 DEF Step

\* What a commit leaves: the drafts of w, and everything else as it was.
LEMMA CommitTables ==
  ASSUME NEW w \in Worker, Commit(w)
  PROVE  /\ \A r \in Record : rows'[r] = IF rowOwner[r] = w THEN rowDraft[r] ELSE rows[r]
         /\ \A c \in Code : codes'[c] = IF codeOwner[c] = w THEN codeDraft[c] ELSE codes[c]
  BY DEF Commit, RowFor, CodeFor

LEMMA CommitCodes ==
  ASSUME CodesHaveRows, NEW w \in Worker, Own(w), Commit(w)
  PROVE  CodesHaveRows'
<1> SUFFICES ASSUME NEW c \in Code, codes'[c] # NoCode PROVE codes'[c].rec \in Record
  BY DEF CodesHaveRows
<1>1. CASE codeOwner[c] # w
  BY <1>1, CommitTables DEF CodesHaveRows
<1>2. CASE codeOwner[c] = w
  <2>1. codes'[c] = codeDraft[c]
    BY <1>2, CommitTables
  <2>2. CASE Storing(w, c)
    BY <2>1, <2>2 DEF Storing
  <2>3. CASE Using(w, c)
    BY <2>1, <2>3 DEF Using
  <2> QED
    BY <1>2, <2>2, <2>3 DEF Own, CodeHeld
<1> QED
  BY <1>1, <1>2

-----------------------------------------------------------------------------

LEMMA InitCommitInv == Init => CommitInv
<1> SUFFICES ASSUME Init PROVE CommitInv
  OBVIOUS
<1>1. None \notin Worker
  BY BindingAssumption
<1>2. IInv /\ CodesHaveRows
  BY InitUnique DEF Init, CodesHaveRows
<1>3. ASSUME NEW w \in Worker PROVE Own(w)
  <2>1. RowHeld(w) /\ CodeHeld(w)
    BY <1>1 DEF Init, RowHeld, CodeHeld
  <2>2. pc[w] = "idle" /\ mem[w].notice = None
    BY DEF Init, NoMemory
  <2> QED
    BY <2>1, <2>2 DEF Own, Roles, Knows, ApiReads, NoticeReads, ConfirmReads, StateReads,
                      Succeeds
<1> QED
  BY <1>2, <1>3 DEF CommitInv

\* Steps that touch neither the tables nor a request.
LEMMA QuietCommitInv ==
  ASSUME CommitInv, IInv', UNCHANGED <<tables, pc, req, mem>>
  PROVE  CommitInv'
<1>1. CodesHaveRows'
  BY DEF CommitInv, CodesHaveRows, tables
<1>2. ASSUME NEW w \in Worker PROVE Own(w)'
  <2>1. Own(w)
    BY DEF CommitInv
  <2>2. RowHeld(w)'
    <3> SUFFICES ASSUME NEW r \in Record, rowOwner'[r] = w
                 PROVE  \/ Inserting(w, r)' \/ Locking(w, r)' \/ Linking(w, r)'
                        \/ Moving(w, r)' \/ Deleting(w, r)'
      BY DEF RowHeld
    <3>1. \/ Inserting(w, r) \/ Locking(w, r) \/ Linking(w, r)
          \/ Moving(w, r) \/ Deleting(w, r)
      BY <2>1 DEF Own, RowHeld, tables
    <3> QED
      BY <3>1 DEF Inserting, Locking, Linking, Moving, Deleting, Live, tables
  <2>3. CodeHeld(w)' /\ Roles(w)'
    BY <2>1 DEF Own, CodeHeld, Storing, Using, Roles, tables
  <2>4. Knows(w)'
    BY <2>1 DEF Own, Knows, ApiReads, NoticeReads, ConfirmReads, StateReads, Succeeds,
                RowFor, tables
  <2> QED
    BY <2>2, <2>3, <2>4 DEF Own
<1> QED
  BY <1>1, <1>2 DEF CommitInv

LEMMA NextCommitInv == CommitInv /\ [Next]_vars => CommitInv'
<1> SUFFICES ASSUME CommitInv, [Next]_vars PROVE CommitInv'
  OBVIOUS
<1>1. IInv'
  BY NextUnique DEF CommitInv
<1>2. ASSUME NEW w \in Worker, Start(w) \/ Step(w) \/ Crash(w)
      PROVE  CommitInv'
  <2>1. Own(w) /\ Respects(w) /\ TypeInv
    BY <1>2, StepRespects DEF CommitInv, IInv
  <2>2. CodesHaveRows'
    BY <1>2, <2>1, CommitCodes, OnlyCommits DEF CommitInv, CodesHaveRows
  <2>3. ASSUME NEW v \in Worker PROVE Own(v)'
    <3>1. CASE v = w
      BY <1>2, <3>1, StepOwn DEF CommitInv
    <3>2. CASE v # w
      BY <2>1, <3>2, StableOwn DEF CommitInv
    <3> QED
      BY <3>1, <3>2
  <2> QED
    BY <1>1, <2>2, <2>3 DEF CommitInv
<1>3. ASSUME NEW c \in Code, Expire(c) PROVE CommitInv'
  BY <1>1, <1>3, QuietCommitInv DEF Expire
<1>4. CASE UNCHANGED vars
  BY <1>1, <1>4, QuietCommitInv DEF vars
<1> QED
  BY <1>2, <1>3, <1>4 DEF Next, Quiet

-----------------------------------------------------------------------------
(* What a commit does.                                                     *)

\* A commit changes one row at most, in one of four ways.
LEMMA CommitEdits ==
  ASSUME CommitInv, NEW w \in Worker, Commit(w), NEW r \in Record, rowOwner[r] = w
  PROVE  /\ r = mem[w].rec
         /\ rows' = [rows EXCEPT ![r] = rowDraft[r]]
         /\ Inserting(w, r) \/ Linking(w, r) \/ Moving(w, r) \/ Deleting(w, r)
<1>1. Own(w) /\ Ownership /\ rows \in [Record -> Row]
  BY DEF CommitInv, IInv, TypeInv, TypeOK
<1>2. \A s \in Record : rowOwner[s] = w => s = mem[w].rec
  BY <1>1 DEF Ownership
<1>3. rows' = [s \in Record |-> IF s = r THEN rowDraft[s] ELSE rows[s]]
  BY <1>2 DEF Commit, RowFor
<1>4. ~Locking(w, r)
  BY DEF Commit, Locking
<1> QED
  BY <1>1, <1>2, <1>3, <1>4 DEF Own, RowHeld

\* A commit of a request that owns no row changes none.
LEMMA CommitNothing ==
  ASSUME CommitInv, NEW w \in Worker, Commit(w), \A r \in Record : rowOwner[r] # w
  PROVE  rows' = rows
<1>1. rows \in [Record -> Row]
  BY DEF CommitInv, IInv, TypeInv, TypeOK
<1> QED
  BY <1>1 DEF Commit, RowFor

\* Every step persists, and a step that changes a table is a commit.
LEMMA StepPersists ==
  ASSUME CommitInv, [Next]_vars
  PROVE  /\ Persists
         /\ \/ rows' = rows /\ codes' = codes
            \/ \E w \in Worker : Commit(w)
<1>1. ASSUME NEW w \in Worker, Start(w) \/ Step(w) \/ Crash(w)
      PROVE  Persists
  BY <1>1, StepRespects DEF CommitInv, Respects
<1>2. ASSUME UNCHANGED tables PROVE Persists /\ rows' = rows /\ codes' = codes
  BY <1>2 DEF Persists, tables
<1>3. ASSUME NEW c \in Code, Expire(c) PROVE UNCHANGED tables
  BY <1>3 DEF Expire
<1>4. CASE UNCHANGED vars
  BY <1>2, <1>4 DEF vars
<1>5. CASE Next
  BY <1>1, <1>2, <1>3, <1>4, <1>5, OnlyCommits DEF Next, Quiet
<1> QED
  BY <1>4, <1>5

\* A used or invalidated code never becomes usable again and never moves to
\* another binding, for any number of overlapping requests.
THEOREM UsedCodesStayUsed == Spec => CodesStayUsed
<1>1. CommitInv /\ [Next]_vars =>
        [\A c \in Code : codes[c] # NoCode =>
           /\ codes'[c].rec = codes[c].rec
           /\ codes[c].used => codes'[c].used]_codes
  BY StepPersists DEF Persists
<1> QED
  BY <1>1, InitCommitInv, NextCommitInv, PTL DEF Spec, CodesStayUsed

\* The commit of a confirm links the row ...
LEMMA CommitLinks ==
  ASSUME CommitInv, NEW w \in Worker, Commit(w), NEW r \in Record, rowOwner[r] = w,
         Linking(w, r)
  PROVE  /\ rows'[r].peer = req[w].peer
         /\ rows'[r].peer # None
         /\ rows'[r].state = "ACTIVE"
         /\ ~rows'[r].deleted
<1>1. rows[r] \in Row /\ rows'[r] = rowDraft[r]
  BY CommitTables DEF CommitInv, IInv, TypeInv, TypeOK
<1>2. req[w].peer # None
  BY BindingAssumption DEF Linking, ConfirmRequest
<1> QED
  BY <1>1, <1>2 DEF Linking, Live, Row

\* ... and marks its code used.
LEMMA CommitMarks ==
  ASSUME CommitInv, NEW w \in Worker, Commit(w), NEW r \in Record, rowOwner[r] = w,
         Linking(w, r)
  PROVE  req[w].code \in Code /\ codes'[req[w].code] = [rec |-> r, used |-> TRUE]
<1>1. PICK c \in Code : c = req[w].code /\ codes[c].rec = r /\ codeOwner[c] = w
  BY DEF Linking, ConfirmRequest, Commit
<1>2. Using(w, c)
  <2>1. Storing(w, c) \/ Using(w, c)
    BY <1>1 DEF CommitInv, Own, CodeHeld
  <2>2. codes[c] # NoCode
    BY <1>1, BindingAssumption DEF NoCode
  <2> QED
    BY <2>1, <2>2 DEF Storing
<1>3. codes'[c] = [rec |-> r, used |-> TRUE]
  BY <1>1, <1>2, CommitTables DEF Using
<1> QED
  BY <1>1, <1>3

-----------------------------------------------------------------------------
(* LinkedByCode.                                                           *)

LEMMA CommitLinked ==
  ASSUME CommitInv, LinkedByCode, Persists, NEW w \in Worker, Commit(w)
  PROVE  LinkedByCode'
<1> SUFFICES ASSUME NEW r \in Record
             PROVE  /\ rows'[r].state = "PENDING" <=> rows'[r].peer = None
                    /\ rows'[r].peer # None =>
                         \E c \in Code : codes'[c].rec = r /\ codes'[c].used
  BY DEF LinkedByCode
<1>0. rows[r] \in Row
  BY DEF CommitInv, IInv, TypeInv, TypeOK
<1>1. /\ rows[r].state = "PENDING" <=> rows[r].peer = None
      /\ rows[r].peer # None => \E c \in Code : codes[c].rec = r /\ codes[c].used
  BY DEF LinkedByCode
<1>2. (\E c \in Code : codes[c].rec = r /\ codes[c].used)
        => \E c \in Code : codes'[c].rec = r /\ codes'[c].used
  BY BindingAssumption DEF Persists, NoCode
<1>3. CASE rowOwner[r] # w
  <2>1. rows'[r] = rows[r]
    BY <1>3, CommitTables
  <2> QED
    BY <1>1, <1>2, <2>1
<1>4. CASE rowOwner[r] = w
  <2>1. /\ rows'[r] = rowDraft[r]
        /\ Inserting(w, r) \/ Linking(w, r) \/ Moving(w, r) \/ Deleting(w, r)
    BY <1>4, CommitTables, CommitEdits
  <2>2. CASE Inserting(w, r)
    BY <2>1, <2>2 DEF Inserting, NoRow
  <2>3. CASE Linking(w, r)
    <3>1. PICK c \in Code : codes'[c] = [rec |-> r, used |-> TRUE]
      BY <1>4, <2>3, CommitMarks
    <3>2. rows'[r].state = "ACTIVE" /\ rows'[r].peer # None
      BY <1>4, <2>3, CommitLinks
    <3> QED
      BY <3>1, <3>2
  <2>4. CASE Moving(w, r)
    <3>1. /\ rows'[r].peer = rows[r].peer /\ rows[r].peer # None
          /\ rows'[r].state = TargetState(req[w].op)
      BY <1>0, <2>1, <2>4 DEF Moving, Row
    <3>2. rows'[r].state # "PENDING"
      BY <3>1 DEF TargetState
    <3> QED
      BY <1>1, <1>2, <3>1, <3>2
  <2>5. CASE Deleting(w, r)
    <3>1. rows'[r].peer = rows[r].peer /\ rows'[r].state = rows[r].state
      BY <1>0, <2>1, <2>5 DEF Deleting, Row
    <3> QED
      BY <1>1, <1>2, <3>1
  <2> QED
    BY <2>1, <2>2, <2>3, <2>4, <2>5
<1> QED
  BY <1>3, <1>4

\* A binding is PENDING exactly as long as it has no account, and one that has
\* an account has consumed a code of its own.
THEOREM LinksConsumeCodes == Spec => []LinkedByCode
<1>1. Init => LinkedByCode
  BY DEF Init, LinkedByCode, NoRow
<1>2. CommitInv /\ LinkedByCode /\ [Next]_vars => LinkedByCode'
  BY StepPersists, CommitLinked DEF LinkedByCode
<1> QED
  BY <1>1, <1>2, InitCommitInv, NextCommitInv, PTL DEF Spec

\* The account of a binding changes only in the commit of a confirm sent by that
\* account with a code of that binding, which is used from then on.
THEOREM LinksFollowCodes == Spec => LinkFollowsCode
<1> DEFINE Follows ==
      \A r \in Record : rows'[r].peer # rows[r].peer =>
        \E w \in Worker : /\ req[w].op = "confirm"
                          /\ req[w].peer = rows'[r].peer
                          /\ codes[req[w].code].rec = r
                          /\ codes'[req[w].code].used
<1>1. ASSUME CommitInv, NEW w \in Worker, Commit(w) PROVE Follows
  <2> SUFFICES ASSUME NEW r \in Record, rows'[r].peer # rows[r].peer
               PROVE  /\ req[w].op = "confirm"
                      /\ req[w].peer = rows'[r].peer
                      /\ codes[req[w].code].rec = r
                      /\ codes'[req[w].code].used
    OBVIOUS
  <2>1. rowOwner[r] = w /\ rows'[r] = rowDraft[r]
    BY <1>1, CommitTables
  <2>2. rows[r] \in Row
    BY <1>1 DEF CommitInv, IInv, TypeInv, TypeOK
  <2>3. ~Inserting(w, r) /\ ~Moving(w, r) /\ ~Deleting(w, r)
    BY <2>1, <2>2 DEF Inserting, Moving, Deleting, NoRow, Row
  <2>4. Linking(w, r)
    BY <1>1, <2>1, <2>3, CommitEdits
  <2>5. codes[req[w].code].rec = r
    BY <2>4 DEF Linking
  <2>6. req[w].op = "confirm"
    BY <2>4 DEF Linking, ConfirmRequest
  <2>7. rows'[r].peer = req[w].peer
    BY <1>1, <2>1, <2>4, CommitLinks
  <2>8. codes'[req[w].code].used
    <3>1. codes'[req[w].code] = [rec |-> r, used |-> TRUE]
      BY <1>1, <2>1, <2>4, CommitMarks
    <3> QED
      BY <3>1
  <2> QED
    BY <2>5, <2>6, <2>7, <2>8
<1>2. CommitInv /\ [Next]_vars => [Follows]_rows
  BY <1>1, StepPersists
<1> QED
  BY <1>2, InitCommitInv, NextCommitInv, PTL DEF Spec, LinkFollowsCode

-----------------------------------------------------------------------------
(* SuccessIsInTables and NoticeIsTrue.                                     *)

LEMMA CommitSuccess ==
  ASSUME CommitInv, NEW w \in Worker, Commit(w), mem[w].entry = "success"
  PROVE  Effect(w)
<1> DEFINE rec == mem[w].rec
           row == rows'[rec]
<1>0. Own(w) /\ pc[w] = "commit" /\ TypeInv
  BY DEF CommitInv, IInv, Commit
<1>1. ASSUME NEW r \in Record, rowOwner[r] = w
      PROVE  /\ r = rec /\ rows'[r] = rowDraft[r] /\ rows[r] \in Row
             /\ Inserting(w, r) \/ Linking(w, r) \/ Moving(w, r) \/ Deleting(w, r)
  BY <1>0, <1>1, CommitEdits, CommitTables DEF TypeInv, TypeOK
<1>2. ASSUME req[w].op = "confirm"
      PROVE  /\ row.peer = req[w].peer /\ row.state = "ACTIVE" /\ ~row.deleted
             /\ codes'[req[w].code] = [rec |-> rec, used |-> TRUE]
  <2>1. rec \in Record /\ rowOwner[rec] = w
    BY <1>0, <1>2 DEF Own, Knows, ConfirmReads, Succeeds
  <2>2. Linking(w, rec)
    BY <1>1, <1>2, <2>1 DEF Inserting, Moving, Deleting
  <2> QED
    BY <2>1, <2>2, CommitLinks, CommitMarks
<1>3. ASSUME req[w].op = "unlink" PROVE row.user = req[w].user /\ row.deleted
  <2>1. /\ rec \in Record /\ RowFor(w, rec).user = req[w].user
        /\ rows[rec].deleted \/ rowOwner[rec] = w
    BY <1>0, <1>3 DEF Own, Knows, ApiReads, Succeeds
  <2>2. row = RowFor(w, rec)
    BY <2>1 DEF Commit
  <2>3. rowOwner[rec] = w => row.deleted
    BY <1>1, <1>3, <2>1 DEF Inserting, Linking, Moving, Deleting, ConfirmRequest, Row
  <2>4. rowOwner[rec] # w => row.deleted
    BY <2>1, <2>2 DEF RowFor
  <2> QED
    BY <2>1, <2>2, <2>3, <2>4
<1>4. ASSUME req[w].op = "issue"
      PROVE  /\ row.user = req[w].user
             /\ codes'[mem[w].code] = [rec |-> rec, used |-> FALSE]
  <2>1. /\ rec \in Record /\ RowFor(w, rec).user = req[w].user
        /\ mem[w].code \in Code /\ codeOwner[mem[w].code] = w /\ codes[mem[w].code] = NoCode
    BY <1>0, <1>4 DEF Own, Knows, ApiReads, Succeeds
  <2>2. row = RowFor(w, rec)
    BY <2>1 DEF Commit
  <2>3. ~Using(w, mem[w].code)
    BY <2>1, BindingAssumption DEF Using, NoCode
  <2>4. Storing(w, mem[w].code)
    BY <1>0, <2>1, <2>3 DEF Own, CodeHeld
  <2> QED
    BY <2>1, <2>2, <2>4, CommitTables DEF Storing
<1>5. ASSUME req[w].op \in {"deny", "allow"}
      PROVE  row.deleted \/ row.state = TargetState(req[w].op)
  <2>1. rec \in Record /\ (rows[rec].deleted \/ rowOwner[rec] = w)
    BY <1>0, <1>5 DEF Own, Knows, StateReads, Succeeds
  <2>2. CASE rowOwner[rec] # w
    BY <2>1, <2>2, CommitTables
  <2>3. CASE rowOwner[rec] = w
    <3>1. Moving(w, rec)
      BY <1>1, <1>5, <2>1, <2>3 DEF Inserting, Linking, Deleting, ConfirmRequest
    <3> QED
      BY <1>1, <2>1, <2>3, <3>1 DEF Moving, Row
  <2> QED
    BY <2>2, <2>3
<1> QED
  BY <1>2, <1>3, <1>4, <1>5 DEF Effect

\* A journal row "success" is true of the tables its commit leaves, whatever
\* other requests did between the statements.
THEOREM SuccessesAreInTables == Spec => SuccessIsInTables
<1>1. CommitInv /\ [Next]_vars =>
        [\A w \in Worker : Commit(w) /\ mem[w].entry = "success" => Effect(w)]_vars
  BY CommitSuccess
<1> QED
  BY <1>1, InitCommitInv, NextCommitInv, PTL DEF Spec, SuccessIsInTables

\* The binding an unlink wrote about is deleted when the unlink has committed.
THEOREM NoticesAreTrue == Spec => NoticeIsTrue
<1>1. ASSUME CommitInv, NEW w \in Worker, Commit(w), mem[w].notice # None
      PROVE  rows'[mem[w].notice].deleted
  <2>1. PICK n \in Record : n = mem[w].notice
    BY <1>1 DEF CommitInv, IInv, TypeInv, TypeOK, Memory
  <2>2. req[w].op = "unlink" /\ (rows[n].deleted \/ rowOwner[n] = w)
    BY <1>1, <2>1 DEF CommitInv, Own, Knows, NoticeReads, Commit
  <2>3. CASE rowOwner[n] # w
    BY <1>1, <2>1, <2>2, <2>3, CommitTables
  <2>4. CASE rowOwner[n] = w
    <3>1. Deleting(w, n)
      BY <1>1, <2>2, <2>4, CommitEdits DEF Inserting, Linking, Moving, ConfirmRequest
    <3>2. rows'[n] = rowDraft[n] /\ rows[n] \in Row
      BY <1>1, <2>4, CommitTables DEF CommitInv, IInv, TypeInv, TypeOK
    <3> QED
      BY <2>1, <3>1, <3>2 DEF Deleting, Row
  <2> QED
    BY <2>3, <2>4
<1>2. CommitInv /\ [Next]_vars =>
        [\A w \in Worker : Commit(w) /\ mem[w].notice # None
           => rows'[mem[w].notice].deleted]_vars
  BY <1>1
<1> QED
  BY <1>2, InitCommitInv, NextCommitInv, PTL DEF Spec, NoticeIsTrue

-----------------------------------------------------------------------------
(* The committed rows implement BindingLifecycle: the initial states map to  *)
(* the initial state, a commit to one change of one binding or to none, and  *)
(* every other step to none.                                                 *)

LEMMA InitLifecycle == Init => Lifecycle!Init
  BY DEF Init, NoRow, Lifecycle!Init, Lifecycle!NoBinding

\* The version an open transaction is about to commit is apart from every
\* other committed row.
LEMMA DraftApart ==
  ASSUME CommitInv, NEW w \in Worker, NEW r \in Record, rowOwner[r] = w
  PROVE  /\ rowDraft[r] \in Row /\ rows[r] \in Row
         /\ \A s \in Record \ {r} : Apart(rowDraft[r], rows[s])
<1>1. None \notin Worker
  BY BindingAssumption
<1>2. rowDraft[r] \in Row /\ \A s \in Record : rows[s] \in Row
  BY DEF CommitInv, IInv, TypeInv, TypeOK
<1> QED
  BY <1>1, <1>2 DEF CommitInv, IInv, VersionsApart, Version

LEMMA CommitLifecycle ==
  ASSUME CommitInv, NEW w \in Worker, Commit(w)
  PROVE  Lifecycle!Next \/ rows' = rows
<1>1. CASE \A r \in Record : rowOwner[r] # w
  BY <1>1, CommitNothing
<1>2. CASE \E r \in Record : rowOwner[r] = w
  <2>1. PICK r \in Record : rowOwner[r] = w
    BY <1>2
  <2>2. /\ rows' = [rows EXCEPT ![r] = rowDraft[r]]
        /\ Inserting(w, r) \/ Linking(w, r) \/ Moving(w, r) \/ Deleting(w, r)
    BY <2>1, CommitEdits
  <2>3. /\ rowDraft[r] \in Row /\ rows[r] \in Row
        /\ \A s \in Record \ {r} : Apart(rowDraft[r], rows[s])
    BY <2>1, DraftApart
  <2>4. \A s \in Record : Lifecycle!Present(s) <=> Live(rows[s])
    BY DEF Lifecycle!Present, Live
  <2>5. TypeInv
    BY DEF CommitInv, IInv
  <2>6. CASE Inserting(w, r)
    <3>1. PICK u \in User : u = req[w].user /\ u # None
      BY <2>5, <2>6, RequestFields DEF Inserting
    <3>2. rowDraft[r].user = u /\ Live(rowDraft[r]) /\ ~Live(rows[r])
      BY <2>6, <3>1 DEF Inserting, NoRow, Live
    <3>3. \A other \in Record : Live(rows[other]) => rows[other].user # u
      BY <2>3, <3>2 DEF Apart
    <3>4. rows[r] = Lifecycle!NoBinding
      BY <2>6 DEF Inserting, NoRow, Lifecycle!NoBinding
    <3>5. rows' = [rows EXCEPT ![r].user = u]
      BY <2>2, <2>6, <3>1 DEF Inserting
    <3>6. Lifecycle!Create(r, u)
      BY <2>4, <3>3, <3>4, <3>5 DEF Lifecycle!Create
    <3> QED
      BY <3>6 DEF Lifecycle!Next
  <2>7. CASE Linking(w, r)
    <3>1. PICK p \in Peer : p = req[w].peer /\ p # None
      BY <2>7, BindingAssumption DEF Linking, ConfirmRequest
    <3>2. rowDraft[r].peer = p /\ Live(rowDraft[r])
      BY <2>3, <2>7, <3>1 DEF Linking, Live, Row
    <3>3. \A other \in Record \ {r} : Live(rows[other]) => rows[other].peer # p
      BY <2>3, <3>1, <3>2 DEF Apart
    <3>4. rows' = [rows EXCEPT ![r].peer = p, ![r].state = "ACTIVE"]
      BY <2>2, <2>7, <3>1 DEF Linking, CommitInv, IInv, TypeInv, TypeOK
    <3>5. Lifecycle!Link(r, p)
      BY <2>4, <2>7, <3>3, <3>4 DEF Linking, Lifecycle!Link
    <3> QED
      BY <3>5 DEF Lifecycle!Next
  <2>8. CASE Moving(w, r)
    <3>1. PICK state \in {"ACTIVE", "BLOCKED"} : state = TargetState(req[w].op)
      BY DEF TargetState
    <3>2. rows' = [rows EXCEPT ![r].state = state]
      BY <2>2, <2>8, <3>1 DEF Moving
    <3>3. Lifecycle!SetState(r, state)
      BY <2>4, <2>8, <3>2 DEF Moving, Lifecycle!SetState
    <3> QED
      BY <3>3 DEF Lifecycle!Next
  <2>9. CASE Deleting(w, r)
    <3>1. rows' = [rows EXCEPT ![r].deleted = TRUE]
      BY <2>2, <2>9 DEF Deleting
    <3>2. Lifecycle!Delete(r)
      BY <2>4, <2>9, <3>1 DEF Deleting, Lifecycle!Delete
    <3> QED
      BY <3>2 DEF Lifecycle!Next
  <2> QED
    BY <2>2, <2>6, <2>7, <2>8, <2>9
<1> QED
  BY <1>1, <1>2

\* However many requests overlap, a reader of the committed rows sees bindings
\* that are created, linked, blocked, unblocked and deleted one at a time.
THEOREM BindingsImplementLifecycle == Spec => BindingsFollowLifecycle
<1>1. CommitInv /\ [Next]_vars => [Lifecycle!Next]_rows
  BY StepPersists, CommitLifecycle
<1> QED
  BY <1>1, InitLifecycle, InitCommitInv, NextCommitInv, PTL
     DEF Spec, BindingsFollowLifecycle, Lifecycle!Spec
=============================================================================
