----------------------------- MODULE Projection -----------------------------
(***************************************************************************)
(* One page between its .md file and the op log (outl-md: reconcile.rs,    *)
(* matching.rs, diff.rs, unlogged.rs; outl-actions: journal/apply.rs,      *)
(* journal/write.rs, journal/guard.rs, desync.rs; outl-core: workspace.rs).*)
(*                                                                         *)
(* The .md is a projection of the tree.  Beside it lies a sidecar: the     *)
(* blocks the log held when the two last agreed, and the hash of the file  *)
(* then.  An editor saves the .md whenever it likes.  The processes that   *)
(* share the folder (a client, `outl serve') each hold a tree in memory,   *)
(* turn a changed .md into operations, and project the tree back.          *)
(*                                                                         *)
(* Simplifications: the page is flat and its blocks are not ordered; what  *)
(* level 1.5 and level 2 of the matching pair is any pairing of the rows   *)
(* level 1 leaves; a hash is the content it is the hash of; the operations *)
(* of one append share a timestamp, and timestamps grow in the order of    *)
(* the appends; block text is the texts merged into it and not deleted;    *)
(* properties and the frontmatter fence are left out; an editor saves the  *)
(* file it sees.                                                           *)
(***************************************************************************)
EXTENDS Naturals, FiniteSets, FiniteSetsExt, Bags

CONSTANTS
  Process,     \* the processes that may share the folder
  Client,      \* those that show the page and let a user change it
  Unplaced,    \* the texts of lines the parser can place in no block
  MaxOrphans,  \* how many known blocks one reconcile may delete
  MaxText,     \* bound: the texts anybody ever writes
  MaxAppends,  \* bound: how often a team of processes appends operations
  FirstText,   \* the text of the page's first block; none for a bare bullet
  Scenes,      \* <<the processes that run, bound on what happens>>
  None         \* no file, no hash

Acts == {"save", "commit", "peer", "crash", "fail", "lose"}
Text == 1..MaxText

ASSUME ProjectionConstants ==
  /\ Unplaced \subseteq Text \ {1} /\ MaxText \in Nat \ {0}
  /\ MaxOrphans \in Nat /\ MaxAppends \in [SUBSET Process -> Nat]
  /\ Client \subseteq Process
  /\ FirstText \subseteq {1}
  /\ Scenes \subseteq (SUBSET Process) \X [Acts -> Nat]

VARIABLES
  team,    \* the processes that run
  md,      \* the .md: a bag of lines, None when there is no file
  sc,      \* the sidecar: rows (block -> line) and hash, None when missing
  log,     \* the operations in the op logs on disk
  mem,     \* process -> the operations its tree was built from
  job,     \* process -> the reconcile, recovery or projection it is in
  dirty,   \* process -> a change it made is still to be projected
  clock,   \* the timestamps given out
  blocks,  \* the block ids given out
  texts,   \* the texts that were ever written
  left,    \* what may still happen
  failed   \* history: the operations that failed to append

files == <<team, md, sc>>
vars == <<team, md, sc, log, mem, job, dirty, clock, blocks, texts, left, failed>>

Spend(act) == left[act] > 0 /\ left' = [left EXCEPT ![act] = @ - 1]

(***************************************************************************)
(* The tree a set of operations makes.  A line is the bag of the texts     *)
(* that concurrent edits merged; the empty bag is a bare bullet.           *)
(***************************************************************************)
Bare == EmptyBag
Copies(x, b) == IF x \in DOMAIN b THEN b[x] ELSE 0
Size(b) == Cardinality(UNION {{x} \X (1..b[x]) : x \in DOMAIN b})
LineOfText(t) == SetToBag({t})

PlaceOp(n) == [ts |-> clock + 1, kind |-> "place", node |-> n, line |-> Bare,
               over |-> {}]
TrashOp(n) == [PlaceOp(n) EXCEPT !.kind = "trash"]

Placements(ops, n) == {o \in ops : o.node = n /\ o.kind # "edit"}
Known(ops) == {o.node : o \in {x \in ops : x.kind # "edit"}}
Alive(ops) ==
  {n \in Known(ops) : \E o \in Placements(ops, n) :
     o.kind = "place" /\ \A x \in Placements(ops, n) : x.ts <= o.ts}

Edits(ops, n) ==
  LET all == {o \in ops : o.node = n /\ o.kind = "edit"}
  IN  {o \in all : \A x \in all : o.ts \notin x.over}
BlockText(ops, n) ==
  LET es == Edits(ops, n)
  IN  [t \in UNION {DOMAIN o.line : o \in es} |->
         Cardinality(UNION {{o} \X (1..Copies(t, o.line)) : o \in es})]

\* Replaces what the process sees in block n of `ops' by a line.
EditOp(ops, n, line) ==
  [ts |-> clock + 1, kind |-> "edit", node |-> n, line |-> line,
   over |-> {o.ts : o \in Edits(ops, n)}]

RowsOf(ops) == [n \in Alive(ops) |-> BlockText(ops, n)]
Lines(rows) ==
  [l \in {rows[n] : n \in DOMAIN rows} |->
     Cardinality({n \in DOMAIN rows : rows[n] = l})]
Render(ops) == Lines(RowsOf(ops))

Texts(m) == UNION {DOMAIN l : l \in DOMAIN m}
Placed(m) ==
  [l \in {x \in DOMAIN m : DOMAIN x \cap Unplaced = {}} |-> m[l]]

\* The lines of the file that no row of the sidecar accounts for.
Unlogged(m, rows) == BagToSet(m (-) Lines(rows)) \ {Bare}

\* A sidecar whose rows are all empty (from before 0.11) knows no text.
CanAnswer(rows) ==
  DOMAIN rows = {} \/ \E n \in DOMAIN rows : rows[n] # Bare
AheadOfLog(m, rows) == CanAnswer(rows) /\ Unlogged(m, rows) # {}
Vouches(m, rows) == CanAnswer(rows) \/ Unlogged(m, rows) = {}

(***************************************************************************)
(* Jobs.  A projection holds the page's lock from its check to its last    *)
(* write; a reconcile and the check of a recovery hold none.               *)
(***************************************************************************)
Idle == [step |-> "idle"]
Free(p) == p \in team /\ job[p].step = "idle"
Holding == {"write", "replace", "sidecar"}
Locked == \E p \in Process : job[p].step \in Holding
Goto(p, j) == job' = [job EXCEPT ![p] = j]

\* Operations are applied in memory and then appended, in one write.
Tick == clock < MaxAppends[team] /\ clock' = clock + 1
Applied(p, ops) == mem' = [mem EXCEPT ![p] = @ \cup ops] /\ Tick
Append(p, ops) == Applied(p, ops) /\ log' = log \cup ops /\ UNCHANGED failed

\* The append fails: the memory keeps what the log never got.
AppendFails(p, ops) ==
  /\ Spend("fail") /\ Applied(p, ops)
  /\ failed' = failed \cup ops
  /\ UNCHANGED log

(***************************************************************************)
(* The environment: the editor, other devices, the file system.            *)
(***************************************************************************)
\* The next text nobody wrote yet, out of S.
Fresh(S) == {t \in S \ texts : \A u \in S \ texts : t <= u}
Write(t) == texts' = texts \cup {t}

Saved(m) ==
  /\ Spend("save") /\ md' = m
  /\ UNCHANGED <<team, sc, log, mem, job, dirty, clock, blocks, failed>>

\* An editor adds a line, rewords one, or deletes one.
Save ==
  /\ md # None
  /\ \/ \E t \in Fresh(Text \ Unplaced) \cup Fresh(Unplaced),
           gone \in {EmptyBag} \cup {SetToBag({l}) : l \in DOMAIN md} :
          Write(t) /\ Saved((md (-) gone) (+) SetToBag({LineOfText(t)}))
     \/ \E l \in DOMAIN md : Saved(md (-) SetToBag({l})) /\ UNCHANGED texts

\* One change of a tree: a block and its text, another text, a deletion.
Changes(ops, t) ==
  {{PlaceOp(blocks + 1), EditOp(ops, blocks + 1, LineOfText(t))}}
    \cup {{EditOp(ops, n, LineOfText(t))} : n \in Alive(ops)}
    \cup {{TrashOp(n)} : n \in Alive(ops)}
Made(ops) == blocks' = Max({blocks} \cup {o.node : o \in ops})

\* Operations of another device arrive in its log.
Peer ==
  /\ Spend("peer")
  /\ \E t \in Fresh(Text \ Unplaced) : \E ops \in Changes(log, t) :
       /\ log' = log \cup ops /\ Tick
       /\ Write(t) /\ Made(ops)
  /\ UNCHANGED <<files, mem, job, dirty, failed>>

\* The process dies, at any point of a job, and starts again: what it had
\* not appended is gone, and so is the projection it owed.
Crash(p) ==
  /\ p \in team /\ Spend("crash")
  /\ mem' = [mem EXCEPT ![p] = log]
  /\ Goto(p, Idle) /\ dirty' = [dirty EXCEPT ![p] = FALSE]
  /\ UNCHANGED <<files, log, clock, blocks, texts, failed>>

\* The file is deleted or not downloaded; or its sidecar is lost.
Lose ==
  /\ Spend("lose")
  /\ \/ md # None /\ md' = None /\ UNCHANGED sc
     \/ sc # None /\ sc' = None /\ UNCHANGED md
  /\ UNCHANGED <<team, log, mem, job, dirty, clock, blocks, texts, failed>>

(***************************************************************************)
(* A client changes the tree, and owes the projection.                     *)
(***************************************************************************)
Commit(p) ==
  /\ Free(p) /\ Spend("commit")
  /\ \E t \in Fresh(Text \ Unplaced) : \E ops \in Changes(mem[p], t) :
       Append(p, ops) /\ Write(t) /\ Made(ops)
  /\ dirty' = [dirty EXCEPT ![p] = TRUE]
  /\ UNCHANGED <<files, job>>

CommitFails(p) ==
  /\ Free(p)
  /\ \E t \in Fresh(Text \ Unplaced) : \E ops \in Changes(mem[p], t) :
       AppendFails(p, ops) /\ Write(t) /\ Made(ops)
  /\ UNCHANGED <<files, job, dirty>>

\* The logs hold what this process has not seen: the tree is built anew, and
\* a client projects the page it shows.
Reload(p) ==
  /\ Free(p) /\ ~(log \subseteq mem[p])
  /\ mem' = [mem EXCEPT ![p] = log]
  /\ dirty' = [dirty EXCEPT ![p] = p \in Client]
  /\ UNCHANGED <<files, log, job, clock, blocks, texts, left, failed>>

(***************************************************************************)
(* Tree to file.                                                           *)
(***************************************************************************)
rest == <<log, mem, clock, blocks, texts, left, failed>>

\* The check of a projection authorises a write over the bytes it read; it
\* was blind if the sidecar's rows are all empty.
Blind == sc # None /\ ~CanAnswer(sc.rows)
Authorise(p) ==
  Goto(p, [step |-> "write", render |-> Render(mem[p]), over |-> md, blind |-> Blind])
Refuse(p) == Goto(p, Idle)

\* After a change (apply_page_md_with_sidecar_guarded): written unless the
\* file holds a line the log does not know, or nothing can tell.
GuardAllows ==
  md = None \/ (sc # None /\ ~AheadOfLog(md, sc.rows))

ProjectGuarded(p) ==
  /\ Free(p) /\ dirty[p] /\ ~Locked
  /\ dirty' = [dirty EXCEPT ![p] = FALSE]
  /\ IF GuardAllows THEN Authorise(p) ELSE Refuse(p)
  /\ UNCHANGED <<files, rest>>

\* Mutated form: the file may hold nothing that the render drops, which a
\* peer's deletion or rewording makes it hold.
StaleNothingGone(p) ==
  IF md = None THEN sc = None
  ELSE /\ sc # None /\ sc.hash = md
       /\ Render(mem[p]) # md
       /\ BagToSet(md) \subseteq BagToSet(Render(mem[p]))

\* On reading (apply_page_md_with_sidecar_if_stale): a faithful projection
\* the tree has moved past, or a page that has neither file.
Stale(p) ==
  IF md = None THEN sc = None
  ELSE /\ sc # None /\ sc.hash = md
       /\ Render(mem[p]) # md
       /\ Vouches(md, sc.rows) /\ ~AheadOfLog(md, sc.rows)

\* Mutated form: the page's lock is not taken.
ProjectStaleUnlocked(p) ==
  /\ Free(p) /\ Stale(p)
  /\ Authorise(p)
  /\ UNCHANGED <<files, dirty, rest>>

ProjectStale(p) ==
  /\ Free(p) /\ ~Locked /\ Stale(p)
  /\ Authorise(p)
  /\ UNCHANGED <<files, dirty, rest>>

\* Mutated form: whatever the file is by now, it is replaced.
RereadBlind(p) ==
  /\ job[p].step = "write"
  /\ Goto(p, [job[p] EXCEPT !.step = "replace", !.over = md])
  /\ UNCHANGED <<files, dirty, rest>>

\* The file is read again; it must be what was authorised.
Reread(p) ==
  /\ job[p].step = "write"
  /\ IF job[p].over = md
       THEN Goto(p, [job[p] EXCEPT !.step = "replace"])
       ELSE Refuse(p)
  /\ UNCHANGED <<files, dirty, rest>>

\* A temporary file is written, synced and renamed over whatever is there.
WriteMd(p) ==
  /\ job[p].step = "replace"
  /\ md' = job[p].render /\ Goto(p, [job[p] EXCEPT !.step = "sidecar"])
  /\ UNCHANGED <<team, sc, dirty, rest>>

WriteSidecar(p) ==
  /\ job[p].step = "sidecar"
  /\ sc' = [rows |-> RowsOf(mem[p]), hash |-> job[p].render]
  /\ Goto(p, Idle)
  /\ UNCHANGED <<team, md, dirty, rest>>

(***************************************************************************)
(* File to tree (reconcile_md).  The file is read, then the sidecar; the   *)
(* structure is appended as one batch, then the text of each block; last   *)
(* the sidecar is written, with the hash of the file that was read.        *)
(***************************************************************************)
Orphan == md # None /\ (sc # None => sc.hash # md)

ReadMd(p) ==
  /\ Free(p) /\ Orphan
  /\ Goto(p, [step |-> "read", md |-> md])
  /\ UNCHANGED <<files, dirty, rest>>

\* Level 1: a line keeps the id of a row with the same text.
Kept(l, lines, rows) ==
  LET same == Cardinality({n \in DOMAIN rows : rows[n] = l})
  IN  IF Copies(l, lines) <= same THEN Copies(l, lines) ELSE same

\* The rows a file may get: known ids by level 1 and by any pairing of what
\* level 1 leaves, new ids for the other lines.
Matches(lines, rows) ==
  LET size == Size(lines)
      new == (blocks + 1)..(blocks + size)
  IN  {m \in UNION {[ids -> DOMAIN lines] :
                      ids \in kSubset(size, DOMAIN rows \cup new)} :
         /\ Lines(m) = lines
         /\ \A n \in DOMAIN m \cap new : (blocks + 1)..n \subseteq DOMAIN m
         /\ \A l \in DOMAIN lines :
              Cardinality({n \in DOMAIN m \cap DOMAIN rows :
                             m[n] = l /\ rows[n] = l}) = Kept(l, lines, rows)}

\* The sidecar is read.  A file that agrees with it is left alone, and one
\* that deletes too many known blocks is refused.
ReadSidecar(p) ==
  /\ job[p].step = "read"
  /\ IF sc # None /\ sc.hash = job[p].md
       THEN Goto(p, Idle)
       ELSE LET old == IF sc = None THEN <<>> ELSE sc.rows
            IN \E rows \in Matches(Placed(job[p].md), old) :
                 IF Cardinality(DOMAIN old \ DOMAIN rows) > MaxOrphans
                   THEN Refuse(p)
                   ELSE Goto(p, [step |-> "diff", md |-> job[p].md,
                                 rows |-> rows, gone |-> DOMAIN old \ DOMAIN rows])
  /\ blocks' = Max({blocks} \cup IF job'[p].step = "diff" THEN DOMAIN job'[p].rows ELSE {})
  /\ UNCHANGED <<files, dirty, log, mem, clock, texts, left, failed>>

\* The structure: a row's block is put where the file has it, a block whose
\* row found no line goes to the trash; what changes nothing is left out.
Structure(p) ==
  {PlaceOp(n) : n \in DOMAIN job[p].rows \ Alive(mem[p])}
    \cup {TrashOp(n) : n \in {x \in job[p].gone :
                                x \notin Known(mem[p]) \/ x \in Alive(mem[p])}}

ApplyStructure(p) ==
  /\ job[p].step = "diff"
  /\ \/ /\ Structure(p) = {}
        /\ Goto(p, [job[p] EXCEPT !.step = "text"])
        /\ UNCHANGED <<log, mem, clock, left, failed>>
     \/ /\ Structure(p) # {} /\ Append(p, Structure(p))
        /\ Goto(p, [job[p] EXCEPT !.step = "text"])
        /\ UNCHANGED left
     \/ Structure(p) # {} /\ AppendFails(p, Structure(p)) /\ Goto(p, Idle)
  /\ UNCHANGED <<files, dirty, blocks, texts>>

\* The text: one edit for each block whose text in memory is another.
Reworded(p) ==
  {n \in DOMAIN job[p].rows : BlockText(mem[p], n) # job[p].rows[n]}

ApplyText(p) ==
  /\ job[p].step = "text"
  /\ \E n \in Reworded(p) :
       LET ops == {EditOp(mem[p], n, job[p].rows[n])}
       IN \/ Append(p, ops) /\ UNCHANGED <<job, left>>
          \/ AppendFails(p, ops) /\ Goto(p, Idle)
  /\ UNCHANGED <<files, dirty, blocks, texts>>

\* Mutated form: the hash is stamped over the whole file, always.
StampAlways(m, rows) == m

\* The hash is stamped if every line of the file became a block.
Stamp(m, rows) == IF Unlogged(m, rows) = {} THEN m ELSE None

WriteRows(p) ==
  /\ job[p].step = "text" /\ Reworded(p) = {}
  /\ sc' = [rows |-> job[p].rows, hash |-> Stamp(job[p].md, job[p].rows)]
  /\ Goto(p, Idle)
  /\ UNCHANGED <<team, md, dirty, rest>>

(***************************************************************************)
(* A projection that ran ahead of the log (recover_desynced_projection):   *)
(* the sidecar agrees with the file and has a block the tree never heard   *)
(* of.  Such blocks are created with their id; then the page is projected, *)
(* unless a block the tree knows has another text in the file.             *)
(***************************************************************************)
Ahead(p) == {n \in DOMAIN sc.rows : n \notin Known(mem[p])}
Diverged(p) ==
  \E n \in DOMAIN sc.rows \cap Known(mem[p]) :
    BlockText(mem[p], n) # sc.rows[n]

Recover(p) ==
  /\ Free(p) /\ md # None /\ sc # None /\ sc.hash = md
  /\ Ahead(p) # {}
  /\ Goto(p, [step |-> "recover", rows |-> sc.rows, ahead |-> Ahead(p),
              keep |-> Diverged(p)])
  /\ UNCHANGED <<files, dirty, rest>>

\* One operation of it: a block is created, then it gets its text.
RecoverOp(n, p) ==
  IF n \notin Known(mem[p]) THEN PlaceOp(n) ELSE EditOp(mem[p], n, job[p].rows[n])
Recovered(n, p) == n \in Known(mem[p]) \/ job[p].rows[n] = Bare

RecoverBlock(p) ==
  /\ job[p].step = "recover"
  /\ \E n \in job[p].ahead :
       \/ /\ Append(p, {RecoverOp(n, p)}) /\ UNCHANGED left
          /\ Goto(p, [job[p] EXCEPT !.ahead =
                        IF Recovered(n, p) THEN @ \ {n} ELSE @])
       \/ AppendFails(p, {RecoverOp(n, p)}) /\ Goto(p, Idle)
  /\ UNCHANGED <<files, dirty, blocks, texts>>

\* The projection that ends it asks nothing of the file, which an editor may
\* have saved since Recover.
RecoverEnds(p) ==
  /\ job[p].step = "recover" /\ job[p].ahead = {}
  /\ IF job[p].keep
       THEN Goto(p, Idle) /\ UNCHANGED md
       ELSE /\ ~Locked
            /\ md' = Render(mem[p])
            /\ Goto(p, [step |-> "sidecar", render |-> Render(mem[p]), over |-> md])
  /\ UNCHANGED <<team, sc, dirty, rest>>

(***************************************************************************)
(* The specification.  A page whose blocks are in the log, in sync.        *)
(***************************************************************************)
FirstOps ==
  {[ts |-> 0, kind |-> k, node |-> 1, over |-> {},
    line |-> IF k = "edit" THEN SetToBag(FirstText) ELSE Bare] : k \in {"place", "edit"}}

Init ==
  /\ log = FirstOps /\ mem = [p \in Process |-> FirstOps]
  /\ md = Render(FirstOps)
  /\ sc = [rows |-> RowsOf(FirstOps), hash |-> Render(FirstOps)]
  /\ job = [p \in Process |-> Idle]
  /\ dirty = [p \in Process |-> FALSE]
  /\ \E scene \in Scenes : team = scene[1] /\ left = scene[2]
  /\ clock = 0 /\ blocks = 1 /\ texts = FirstText
  /\ failed = {}

Reconcile(p) ==
  ReadMd(p) \/ ReadSidecar(p) \/ ApplyStructure(p) \/ ApplyText(p) \/ WriteRows(p)
Recovery(p) == Recover(p) \/ RecoverBlock(p) \/ RecoverEnds(p)
Projection(p) == Reread(p) \/ WriteMd(p) \/ WriteSidecar(p)
Works(p) ==
  \/ Reload(p) \/ Reconcile(p) \/ Recovery(p)
  \/ ProjectGuarded(p) \/ ProjectStale(p) \/ Projection(p)

Environment ==
  \/ Save \/ Peer \/ Lose
  \/ \E p \in Process : Crash(p)
  \/ \E p \in Client : Commit(p) \/ CommitFails(p)

Next == Environment \/ \E p \in Process : Works(p)

\* Each process looks for work in a loop (outl serve, the watcher and the
\* boot of a client), in no particular order but for the logs, which it looks
\* at every time it has nothing else to do.
Fairness ==
  \A p \in Process :
    WF_vars(Works(p)) /\ SF_vars(Reload(p))

Spec == Init /\ [][Next]_vars /\ Fairness

(***************************************************************************)
(* Properties.                                                             *)
(***************************************************************************)
IsLine(l) == DOMAIN l \subseteq texts /\ \A t \in DOMAIN l : l[t] \in Nat \ {0}
IsPage(m) ==
  /\ \A l \in DOMAIN m : IsLine(l)
  /\ \A l \in DOMAIN m : m[l] \in Nat \ {0}
IsRows(rows) == DOMAIN rows \subseteq 1..blocks /\ \A n \in DOMAIN rows : IsLine(rows[n])
TextsOf(ops) == UNION {DOMAIN o.line : o \in ops}
Logged == TextsOf(log)

(***************************************************************************)
(* Types: what is in the files and in memory is written text, by ids given *)
(* out; only what an append failed for is in a memory and not in the logs; *)
(* one projection holds the lock.                                          *)
(***************************************************************************)
TypeOK ==
  /\ md # None => IsPage(md)
  /\ sc # None => IsRows(sc.rows) /\ (sc.hash # None => IsPage(sc.hash))
  /\ \A o \in log \cup UNION {mem[p] : p \in Process} :
       o.ts \in 0..clock /\ o.node \in 1..blocks /\ IsLine(o.line)
  /\ \A p \in Process : mem[p] \subseteq log \cup failed
  /\ Cardinality({p \in Process : job[p].step \in Holding}) <= 1
  /\ dirty \in [Process -> BOOLEAN] /\ left \in [Acts -> Nat]

(***************************************************************************)
(* The hash of a sidecar is a claim, "the op log holds what is in this     *)
(* file" (reconcile.rs:291): whatever process wrote it, between whichever  *)
(* saves, every text of the file it is the hash of is in an operation on   *)
(* disk, unless an append failed for that text.                            *)
(***************************************************************************)
HashIsEarned ==
  sc # None /\ sc.hash # None => Texts(sc.hash) \subseteq Logged \cup TextsOf(failed)

(***************************************************************************)
(* Invariant 8 of the project, as far as a guarded projection keeps it: of *)
(* what the file held when it was last read, and holds when it is          *)
(* replaced, no text goes which is in no operation on disk (unless an      *)
(* append failed for it), whatever the editor saved since the check and    *)
(* whoever wrote the sidecar the check asked.  What is saved between that  *)
(* last reading and the rename is deleted: "there is no portable atomic    *)
(* compare-and-swap for a pathname" (write.rs:102).  A check that was      *)
(* blind is excepted, and so is the write of RecoverEnds, which has none.  *)
(***************************************************************************)
Replaces(p) == job[p].step = "replace" /\ job'[p].step = "sidecar"
Held(m) == IF m = None THEN {} ELSE Texts(m)
GatesKeepLines ==
  [][\A p \in Process :
       Replaces(p) /\ ~job[p].blind =>
         Held(md) \cap Held(job[p].over)
           \subseteq Texts(md') \cup Logged \cup TextsOf(failed)]_vars

(***************************************************************************)
(* "By regenerating the sidecar from the same workspace tree we just       *)
(* rendered, ... the reconcile is a no-op" (apply.rs:63): where no editor  *)
(* saves and no file is lost, a reconcile appends nothing.                 *)
(***************************************************************************)
ReconcileIsNoOp ==
  [][\A p \in Process : job[p].step \in {"diff", "text"} => log' = log]_vars

(***************************************************************************)
(* A page that nobody changes any more ends with the file, the sidecar,    *)
(* every memory and the logs in agreement; or it is one that a person is   *)
(* told about: the file is gone and its sidecar is not, it has a line that *)
(* fits no block, it deletes more than one pass may, or an append failed.  *)
(***************************************************************************)
Settled ==
  /\ md = Render(log)
  /\ sc # None /\ sc.hash = md /\ Lines(sc.rows) = md
  /\ \A p \in team : mem[p] = log /\ Free(p)
Reported ==
  \/ md = None /\ sc # None
  \/ md # None /\ Texts(md) \cap Unplaced # {}
  \/ md # None /\ sc # None
     /\ Size(Lines(sc.rows) (-) Placed(md)) > MaxOrphans
  \/ failed # {}
  \/ clock = MaxAppends[team]
Settles == <>[](Settled \/ Reported)
=============================================================================
