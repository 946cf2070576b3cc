-------------------------- MODULE MemoryStoreProofs --------------------------
(***************************************************************************)
(* Proofs about MemoryStore, for any memories, file names, bounds and      *)
(* answers of the model: the directory survives every crash, no two        *)
(* memories share a file, a turn that is not disturbed reads what there    *)
(* is, and the store implements MemoryPromise.                             *)
(*                                                                         *)
(* All of it holds if a replacement that fails can be rolled back; if the  *)
(* rollback fails too, the worker goes on without a directory, and its     *)
(* next replacement may remove the backup.                                 *)
(***************************************************************************)
EXTENDS MemoryStore, TLAPS

-----------------------------------------------------------------------------
(***************************************************************************)
(* Contents.                                                               *)
(***************************************************************************)
\* A set of memories that may be on disk: no two share a file, all have one.
Storable(s) ==
    s \subseteq Memory /\ Apart(s) /\ \A m \in s : Slug[m.name] # NoSlug

\* A directory: lines are apart from one another, but one may be behind a
\* document, and have no file name.
Good(c) ==
    /\ c \in Content
    /\ Storable(c.docs)
    /\ Apart(c.inline)

LEMMA GoodVisible ==
    ASSUME NEW c, Good(c)
    PROVE  Storable(Visible(c))
<1>1. c.docs \subseteq Memory /\ c.inline \subseteq Memory
  BY DEF Good, Content
<1>2. Visible(c) \subseteq Memory /\ \A m \in Visible(c) : Slug[m.name] # NoSlug
  BY <1>1 DEF Visible, Lines, Good, Storable
<1>3. Apart(Visible(c))
  <2> SUFFICES ASSUME NEW m \in Visible(c), NEW n \in Visible(c),
                      Slug[m.name] = Slug[n.name]
               PROVE  m = n
    BY DEF Apart
  <2>1. CASE m \in c.docs /\ n \in c.docs
    BY <2>1 DEF Good, Storable, Apart
  <2>2. CASE m \in c.docs /\ n \notin c.docs
    BY <2>2 DEF Visible, Lines, Slugs, Names
  <2>3. CASE n \in c.docs /\ m \notin c.docs
    BY <2>3 DEF Visible, Lines, Slugs, Names
  <2>4. CASE n \notin c.docs /\ m \notin c.docs
    BY <2>4 DEF Visible, Lines, Good, Apart
  <2> QED BY <2>1, <2>2, <2>3, <2>4
<1> QED BY <1>2, <1>3 DEF Storable

LEMMA EmptyGood == Good(Empty) /\ Visible(Empty) = {}
BY DEF Good, Empty, Content, Storable, Apart, Visible, Lines

\* What a layout keeps: everything but the lines with a star.
LEMMA LayoutGood ==
    ASSUME NEW items, Storable(items), NEW lines, lines \subseteq items
    PROVE  /\ Good(Layout(items, lines))
           /\ \A m \in items : m \notin lines \/ m.name \notin Starred
                  => m \in Visible(Layout(items, lines))
<1> DEFINE docs == items \ lines
           inline == {m \in lines : m.name \notin Starred}
           c == [docs |-> docs, inline |-> inline]
<1>1. c = Layout(items, lines) /\ c.docs = docs /\ c.inline = inline
  BY DEF Layout
<1>2. docs \subseteq items /\ inline \subseteq items /\ items \subseteq Memory
  BY DEF Storable
<1>3. c \in Content
  BY <1>2 DEF Content
<1>4. Good(c)
  BY <1>1, <1>2, <1>3 DEF Good, Storable, Apart
<1>5. \A m \in items : m \notin lines \/ m.name \notin Starred => m \in Visible(c)
  <2> SUFFICES ASSUME NEW m \in items, m \notin lines \/ m.name \notin Starred
               PROVE  m \in Visible(c)
    OBVIOUS
  <2>1. CASE m \notin lines
    BY <1>1, <2>1 DEF Visible
  <2>2. CASE m \in lines
    <3>1. m \in inline /\ Slug[m.name] # NoSlug
      BY <2>2 DEF Storable
    <3>2. \A d \in docs : Slug[d.name] # Slug[m.name]
      BY <2>2 DEF Storable, Apart
    <3>3. Slug[m.name] \notin Slugs(docs)
      BY <3>2 DEF Slugs, Names
    <3> QED BY <1>1, <3>1, <3>3 DEF Visible, Lines
  <2> QED BY <2>1, <2>2
<1> QED BY <1>1, <1>4, <1>5

\* What an extraction writes: of what it has read only a line with a star is lost,
\* and the files of the new memories are their own.
LEMMA WrittenGood ==
    ASSUME Storable(base), dir \in Content, NEW batch \in Batches, Accepted(batch)
    PROVE  /\ Good(Written(batch))
           /\ Names({m \in base : m.name \notin Starred \/ m \in dir.docs})
                  \subseteq Names(Visible(Written(batch)))
<1> DEFINE sure == {m \in base : m.name \notin Starred \/ m \in dir.docs}
           items == Untouched(batch) \cup Created(batch) \cup Updated(batch)
           lines == {m \in items : m.body \in Short /\ Slug[m.name] \notin Slugs(dir.docs)}
<1>1. Written(batch) = Layout(items, lines)
  BY MemoryAssumption DEF Written
<1>2. \A k \in DOMAIN batch : batch[k].memory \in Memory
  BY DEF Batches, Decision
<1>3. /\ \A m \in Created(batch) : \E k \in Of(batch, "create") : m = batch[k].memory
      /\ \A m \in Updated(batch) : \E k \in Of(batch, "update") : m = batch[k].memory
      /\ Untouched(batch) \subseteq base
      /\ Created(batch) \cup Updated(batch) \subseteq Memory
  BY <1>2 DEF Created, Updated, Untouched, Of
<1>4. \A m \in Updated(batch) : \E b \in base : b.name = m.name
  BY DEF Accepted, Names
<1>5. \A m, n \in Created(batch) : Slug[m.name] = Slug[n.name] => m = n
  BY <1>3 DEF Accepted, Collide
<1>6. \A m, n \in Updated(batch) : Slug[m.name] = Slug[n.name] => m = n
  <2> SUFFICES ASSUME NEW m \in Updated(batch), NEW n \in Updated(batch),
                      Slug[m.name] = Slug[n.name]
               PROVE  m = n
    OBVIOUS
  <2>1. m.name = n.name
    BY <1>4 DEF Storable, Apart
  <2> QED BY <1>3, <2>1 DEF Accepted
<1>7. \A m \in Updated(batch), n \in Untouched(batch) : Slug[m.name] # Slug[n.name]
  <2> SUFFICES ASSUME NEW m \in Updated(batch), NEW n \in Untouched(batch),
                      Slug[m.name] = Slug[n.name]
               PROVE  FALSE
    OBVIOUS
  <2>1. m.name = n.name
    BY <1>3, <1>4 DEF Storable, Apart
  <2> QED BY <2>1 DEF Untouched, Names
<1>8. \A m \in Created(batch), b \in base : Slug[m.name] # Slug[b.name]
  BY DEF Accepted, Collide
<1>9. \A m \in Created(batch), n \in Updated(batch) : Slug[m.name] # Slug[n.name]
  BY <1>4, <1>8
<1>10. Apart(items)
  BY <1>3, <1>5, <1>6, <1>7, <1>8, <1>9 DEF Storable, Apart
<1>11. \A m \in items : Slug[m.name] # NoSlug
  BY <1>3, <1>4 DEF Accepted, Storable
<1>12. Storable(items) /\ lines \subseteq items
  BY <1>3, <1>10, <1>11 DEF Storable
<1>13. ASSUME NEW n \in Names(sure)
       PROVE  \E m \in items : m.name = n /\ (m \notin lines \/ n \notin Starred)
  <2>1. PICK b \in sure : b.name = n
    BY DEF Names
  <2>2. \E m \in items : m.name = n
    BY <2>1 DEF Untouched, Names
  <2>3. n \in Starred => Slug[n] \in Slugs(dir.docs)
    BY <2>1 DEF Slugs, Names
  <2> QED BY <2>2, <2>3
<1> HIDE DEF items, lines, sure
<1>14. Good(Layout(items, lines))
  BY <1>12, LayoutGood
<1>15. Names(sure) \subseteq Names(Visible(Layout(items, lines)))
  BY <1>12, <1>13, LayoutGood DEF Names
<1> QED BY <1>1, <1>14, <1>15 DEF sure

-----------------------------------------------------------------------------
(***************************************************************************)
(* The disk.  A directory is there whenever the worker is at rest; while   *)
(* it is away its backup is complete.                                      *)
(***************************************************************************)
AtWork == pc \in {"asked", "staged", "swapping"}

DiskInv ==
    /\ dir = Missing \/ Good(dir)
    /\ backup \in {Missing, Partial} \/ Good(backup)
    /\ pc \in {"starting", "idle", "asked", "staged", "swapping", "swapped", "extracted"}
    /\ pc \notin {"starting", "swapping"} => dir # Missing
    /\ dir = Missing => backup # Partial
    /\ pc = "swapping" => dir = Missing /\ backup # Missing

\* What an extraction must not lose.
Sure == {m \in base : m.name \notin Starred \/ m \in Filed}

WorkInv ==
    /\ job \in {"none", "extract", "consolidate"}
    /\ AtWork => job # "none"
    /\ Storable(base) /\ Good(staging)
    /\ pc \in {"staged", "swapping"} /\ job = "extract" =>
           Names(Sure) \subseteq Names(Visible(staging))

StoreInv == DiskInv /\ WorkInv

LEMMA Kinds ==
    /\ Missing \notin Content /\ Partial \notin Content /\ Missing # Partial
    /\ \A c : Good(c) => c \in Content /\ c # Missing /\ c # Partial
BY MemoryAssumption DEF Good

LEMMA HeldDirectory ==
    ASSUME StoreInv
    PROVE  /\ dir # Missing => Holding = dir
           /\ dir = Missing /\ backup # Missing => Holding = backup
           /\ dir = Missing /\ backup = Missing => Holding = Empty
           /\ Good(Holding)
BY Kinds, EmptyGood DEF StoreInv, DiskInv, Holding

LEMMA SureDepends ==
    ASSUME UNCHANGED base, Holding'.docs = Holding.docs
    PROVE  Sure' = Sure /\ Names(Sure)' = Names(Sure)
BY DEF Sure, Filed, Names

LEMMA VisibleDepends ==
    ASSUME UNCHANGED staging
    PROVE  Names(Visible(staging))' = Names(Visible(staging))
BY DEF Visible, Lines, Slugs, Names

\* A job that goes on.
LEMMA JobGoesOn ==
    ASSUME WorkInv, UNCHANGED <<job, base, staging>>, Holding'.docs = Holding.docs,
           pc' \in {"staged", "swapping"} => pc \in {"staged", "swapping"},
           pc' = "asked" => pc = "asked"
    PROVE  WorkInv'
<1>1. Names(Sure)' = Names(Sure) /\ Names(Visible(staging))' = Names(Visible(staging))
  BY SureDepends, VisibleDepends
<1> QED BY <1>1 DEF WorkInv, AtWork

\* A job that ends.
LEMMA NoJobWork ==
    ASSUME NoJob, pc' \notin {"asked", "staged", "swapping"}
    PROVE  WorkInv'
<1>1. Storable({})
  BY DEF Storable, Apart
<1> QED BY <1>1, EmptyGood DEF NoJob, WorkInv, AtWork

LEMMA RecoverStep ==
    ASSUME StoreInv, Recover
    PROVE  StoreInv'
<1> USE Kinds DEF StoreInv, DiskInv
<1>0. UNCHANGED <<job, base, staging>> /\ pc = "starting" /\ pc' \in {"starting", "idle"}
  BY DEF Recover
<1>1. WorkInv'
  BY <1>0 DEF WorkInv, AtWork
<1>2. CASE dir # Missing /\ RemoveBackup /\ UNCHANGED pc
  BY <1>0, <1>1, <1>2 DEF RemoveBackup
<1>3. CASE dir = Missing /\ backup # Missing /\ dir' = backup /\ backup' = Missing
           /\ UNCHANGED pc
  BY <1>0, <1>1, <1>3
<1>4. CASE /\ backup = Missing
           /\ dir' = (IF dir = Missing THEN Empty ELSE dir)
           /\ pc' = "idle"
           /\ UNCHANGED backup
  BY <1>1, <1>4, EmptyGood
<1> QED BY <1>2, <1>3, <1>4 DEF Recover

LEMMA ListStep ==
    ASSUME StoreInv, NEW kind \in {"extract", "consolidate"}, List(kind)
    PROVE  StoreInv'
<1>1. /\ Good(dir) /\ base' = Visible(dir) /\ job' = kind /\ pc' = "asked"
      /\ UNCHANGED <<dir, backup, staging>>
  BY DEF StoreInv, DiskInv, List, Listing, diskVars
<1>2. Storable(base')
  BY <1>1, GoodVisible
<1>4. WorkInv'
  BY <1>1, <1>2 DEF StoreInv, WorkInv, AtWork
<1>5. DiskInv'
  BY <1>1, Kinds DEF StoreInv, DiskInv
<1> QED BY <1>4, <1>5 DEF StoreInv

LEMMA DecideStep ==
    ASSUME StoreInv, NEW batch \in Batches, DecideMemories(batch)
    PROVE  StoreInv'
<1>1. /\ dir \in Content /\ Storable(base)
      /\ Accepted(batch) /\ staging' = Written(batch) /\ pc' = "staged"
      /\ UNCHANGED <<dir, backup, job, base>> /\ job = "extract" /\ dir # Missing
  BY Kinds DEF StoreInv, DiskInv, WorkInv, DecideMemories, Stage, diskVars
<1>2. Holding = dir /\ Holding' = dir
  BY <1>1, HeldDirectory DEF Holding
<1>3. Good(staging') /\ Names(Sure) \subseteq Names(Visible(staging'))
  BY <1>1, <1>2, WrittenGood DEF Sure, Filed
<1>5. Names(Sure)' = Names(Sure)
  BY <1>1, <1>2, SureDepends
<1>6. Names(Sure)' \subseteq Names(Visible(staging))'
  BY <1>3, <1>5 DEF Visible, Lines, Slugs, Names
<1>7. WorkInv'
  BY <1>1, <1>3, <1>6 DEF StoreInv, WorkInv, AtWork
<1>8. DiskInv'
  BY <1>1 DEF StoreInv, DiskInv
<1> QED BY <1>7, <1>8 DEF StoreInv

LEMMA MergeStep ==
    ASSUME StoreInv, NEW items \in SUBSET Memory, Merge(items)
    PROVE  StoreInv'
<1>1. Storable(items)
  BY DEF Merge, Storable, Slugs, Names
<1> DEFINE lines == {m \in items : m.body \in Short}
<1>2. /\ staging' = Layout(items, lines) /\ pc' = "staged" /\ job = "consolidate"
      /\ UNCHANGED <<dir, backup, job, base>> /\ pc = "asked"
  BY DEF Merge, Stage, diskVars
<1>3. lines \subseteq items
  OBVIOUS
<1> HIDE DEF lines
<1>4. Good(staging')
  BY <1>1, <1>2, <1>3, LayoutGood
<1>5. WorkInv'
  BY <1>2, <1>4 DEF StoreInv, WorkInv, AtWork
<1>6. DiskInv'
  BY <1>2 DEF StoreInv, DiskInv
<1> QED BY <1>5, <1>6 DEF StoreInv

LEMMA SwapStep ==
    ASSUME StoreInv, ~RollbackMayFail,
           DropBackup \/ MoveAway \/ MoveIn \/ MoveInFails
    PROVE  StoreInv'
<1> USE Kinds DEF StoreInv, DiskInv
<1>1. CASE DropBackup
  <2>1. /\ pc \in {"staged", "swapped"} /\ backup' \in {Missing, Partial}
        /\ UNCHANGED <<dir, pc, job, base, staging>>
    BY <1>1 DEF DropBackup, RemoveBackup, workVars
  <2>2. Holding' = Holding
    BY <2>1 DEF Holding
  <2>3. WorkInv'
    BY <2>1, <2>2, JobGoesOn
  <2> QED BY <2>1, <2>3
<1>2. CASE MoveAway
  <2>1. /\ pc = "staged" /\ backup' = dir /\ dir' = Missing /\ pc' = "swapping"
        /\ UNCHANGED <<job, base, staging>>
    BY <1>2 DEF MoveAway
  <2>2. Holding' = Holding
    BY <2>1 DEF Holding
  <2>3. WorkInv'
    BY <2>1, <2>2, JobGoesOn
  <2> QED BY <2>1, <2>3
<1>3. CASE MoveIn
  <2>1. /\ pc = "swapping" /\ dir' = staging /\ pc' = "swapped" /\ base' = {}
        /\ staging' = Empty /\ UNCHANGED <<job, backup>>
    BY <1>3 DEF MoveIn
  <2>2. Storable({})
    BY DEF Storable, Apart
  <2> QED BY <2>1, <2>2, EmptyGood DEF WorkInv, AtWork
<1>4. CASE MoveInFails
  <2>1. /\ pc = "swapping" /\ dir' = backup /\ backup' = Missing /\ pc' = "idle"
        /\ NoJob
    BY <1>4 DEF MoveInFails
  <2>2. WorkInv'
    BY <2>1, NoJobWork
  <2> QED BY <2>1, <2>2
<1> QED BY <1>1, <1>2, <1>3, <1>4

LEMMA EditKeepsDirectory ==
    ASSUME StoreInv, NEW m \in ByHand, EditIndex(m)
    PROVE  dir # Missing /\ dir' # Missing
<1>1. PICK lines \in {dir.inline \cup {m}, dir.inline \ {m}} :
          dir' = [dir EXCEPT !.inline = lines]
  BY DEF EditIndex
<1>2. dir \in Content /\ dir # Missing
  BY Kinds DEF EditIndex, StoreInv, DiskInv
<1>3. lines \subseteq Memory
  BY <1>1, <1>2, MemoryAssumption DEF Content
<1>4. dir' \in Content
  BY <1>1, <1>2, <1>3 DEF Content
<1> QED BY <1>2, <1>4, Kinds

LEMMA EditStep ==
    ASSUME StoreInv, NEW m \in ByHand, EditIndex(m)
    PROVE  StoreInv'
<1>1. PICK lines \in {dir.inline \cup {m}, dir.inline \ {m}} :
          Apart(lines) /\ dir' = [dir EXCEPT !.inline = lines]
  BY DEF EditIndex
<1>2. Good(dir) /\ dir \in Content /\ dir # Missing
  BY Kinds DEF EditIndex, StoreInv, DiskInv
<1>3. m \in Memory
  BY MemoryAssumption
<1>4. lines \subseteq Memory
  BY <1>1, <1>2, <1>3 DEF Good, Content
<1>5. dir' \in Content /\ dir'.docs = dir.docs /\ dir'.inline = lines
  BY <1>1, <1>2, <1>4 DEF Content
<1>6. Good(dir')
  BY <1>1, <1>2, <1>4, <1>5 DEF Good
<1>7. UNCHANGED <<backup, pc, job, base, staging>>
  BY DEF EditIndex, workVars
<1>8. Holding'.docs = Holding.docs
  BY <1>2, <1>5, <1>6, Kinds DEF Holding
<1>9. WorkInv'
  BY <1>7, <1>8, JobGoesOn DEF StoreInv
<1> QED BY <1>2, <1>6, <1>7, <1>9, Kinds DEF StoreInv, DiskInv

\* The steps of a turn touch neither the disk nor the worker.
Reading ==
    \/ Glob \/ ReadDocuments \/ ReadIndex
    \/ \E files \in SUBSET Slugs(found) : Select(files)
    \/ \E file \in wanted : LoadFile(file)
    \/ LoadEnds

LEMMA ReadingStep ==
    ASSUME Reading
    PROVE  UNCHANGED <<dir, backup, pc, job, base, staging>>
BY DEF Reading, Glob, ReadDocuments, ReadIndex, Select, LoadFile, LoadEnds, diskVars, workVars

LEMMA StoreStep ==
    ASSUME StoreInv, ~RollbackMayFail, [Next]_vars
    PROVE  StoreInv'
<1>1. CASE Reading \/ UNCHANGED vars
  <2>1. UNCHANGED <<dir, backup, pc, job, base, staging>>
    BY <1>1, ReadingStep DEF vars, diskVars, workVars
  <2>2. Holding' = Holding
    BY <2>1 DEF Holding
  <2>3. WorkInv'
    BY <2>1, <2>2, JobGoesOn DEF StoreInv
  <2> QED BY <2>1, <2>3 DEF StoreInv, DiskInv
<1>2. CASE Crash \/ ReplacementEnds \/ MaintenanceEnds
  <2>1. /\ NoJob /\ pc' \in {"starting", "idle", "extracted"} /\ UNCHANGED <<dir, backup>>
        /\ pc' # "starting" => pc \in {"asked", "staged", "swapped", "extracted"}
    BY <1>2 DEF Crash, ReplacementEnds, MaintenanceEnds, diskVars
  <2>2. WorkInv'
    BY <2>1, NoJobWork
  <2> QED BY <2>1, <2>2 DEF StoreInv, DiskInv
<1> QED BY <1>1, <1>2, RecoverStep, ListStep, DecideStep, MergeStep, SwapStep, EditStep
    DEF Next, Step, Reading

LEMMA StoreStart == Init => StoreInv
<1>1. Storable({})
  BY DEF Storable, Apart
<1> QED BY <1>1, EmptyGood, Kinds DEF Init, StoreInv, DiskInv, WorkInv, AtWork

LEMMA StaysRecoverable ==
    ASSUME StoreInv, ~RollbackMayFail, [Next]_vars, Recoverable
    PROVE  Recoverable'
<1>1. StoreInv'
  BY StoreStep
<1> SUFFICES ASSUME dir' = Missing
             PROVE  backup' # Missing
  BY <1>1, Kinds DEF Recoverable, StoreInv, DiskInv
<1>2. dir # Missing \/ backup # Missing
  BY Kinds DEF Recoverable
<1>3. CASE Recover
  BY <1>2, <1>3, EmptyGood, Kinds DEF Recover, RemoveBackup
<1>4. CASE DropBackup \/ MoveAway \/ MoveIn \/ MoveInFails
  BY <1>2, <1>4, Kinds DEF DropBackup, RemoveBackup, MoveAway, MoveIn, MoveInFails,
     StoreInv, DiskInv, WorkInv
<1>5. CASE \E m \in ByHand : EditIndex(m)
  BY <1>5, EditKeepsDirectory
<1>6. CASE UNCHANGED diskVars
  BY <1>2, <1>6 DEF diskVars
<1> QED BY <1>3, <1>4, <1>5, <1>6 DEF Next, Step, Crash, List, DecideMemories, Merge, Stage,
    ReplacementEnds, MaintenanceEnds, Glob, ReadDocuments, ReadIndex, Select, LoadFile,
    LoadEnds, vars

\* Once the program has a directory of memories, no crash and no failure that is
\* rolled back leaves it without the directory or a complete backup.
THEOREM NothingIsLost == ~RollbackMayFail => (Spec => AlwaysRecoverable)
<1> SUFFICES ASSUME ~RollbackMayFail PROVE Spec => AlwaysRecoverable
  OBVIOUS
<1>1. Init => StoreInv
  BY StoreStart
<1>2. StoreInv /\ [Next]_vars => StoreInv'
  BY StoreStep
<1>3. StoreInv /\ [Next]_vars => [Recoverable => Recoverable']_vars
  BY StaysRecoverable
<1> QED BY <1>1, <1>2, <1>3, PTL DEF Spec, AlwaysRecoverable

\* No two memories of the program share a file.
THEOREM FilesStayApart == ~RollbackMayFail => (Spec => []FilesApart)
<1> SUFFICES ASSUME ~RollbackMayFail PROVE Spec => []FilesApart
  OBVIOUS
<1>1. Init => StoreInv
  BY StoreStart
<1>2. StoreInv /\ [Next]_vars => StoreInv'
  BY StoreStep
<1>3. StoreInv => FilesApart
  <2> SUFFICES ASSUME StoreInv PROVE Apart(Kept)
    BY DEF FilesApart
  <2> QED BY HeldDirectory, GoodVisible DEF Kept, Storable
<1> QED BY <1>1, <1>2, <1>3, PTL DEF Spec

-----------------------------------------------------------------------------
(***************************************************************************)
(* The turns.  As long as the directory stays as it was when a turn began, *)
(* each part of what the turn has read is what the directory holds.        *)
(***************************************************************************)
FileNames == {Slug[n] : n \in Name}

ReadTypes ==
    /\ reader \in {"idle", "globbed", "read", "listed", "loading", "failed"}
    /\ globbed \subseteq FileNames
    /\ found \subseteq Memory /\ given \subseteq Memory
    /\ wanted \subseteq FileNames /\ tried \subseteq wanted
    /\ quiet \in BOOLEAN
    /\ reader \in {"idle", "globbed", "read", "listed"} => tried = {} /\ given = {}

QuietReads ==
    quiet =>
        /\ reader = "globbed" => globbed = Slugs(Documents)
        /\ reader = "read" => globbed = Slugs(Documents) /\ found = Documents
        /\ reader = "listed" => found = Listing /\ ~ListFails
        /\ reader = "loading" =>
               /\ ~ListFails /\ wanted \subseteq Slugs(Listing)
               /\ given \subseteq Listing /\ Slugs(given) = tried
        /\ reader = "failed" => ListFails

LoadInv == StoreInv /\ ReadTypes /\ QuietReads

LEMMA SlugTypes ==
    ASSUME NEW s, s \subseteq Memory
    PROVE  Slugs(s) \subseteq FileNames
BY MemoryAssumption DEF Slugs, Names, FileNames

LEMMA DiskTypes ==
    ASSUME StoreInv
    PROVE  /\ Documents \subseteq Memory /\ Listing \subseteq Memory
           /\ dir # Missing => Good(dir) /\ dir.inline \subseteq Memory
           /\ Apart(Listing)
<1>1. dir # Missing => Good(dir) /\ dir.inline \subseteq Memory /\ dir.docs \subseteq Memory
  BY DEF StoreInv, DiskInv, Good, Content
<1>2. dir # Missing => Storable(Visible(dir))
  BY <1>1, GoodVisible
<1>3. Apart({})
  BY DEF Apart
<1> QED BY <1>1, <1>2, <1>3 DEF Documents, Listing, Storable

\* What the list is made of, when it can be read.
LEMMA ListedParts ==
    ASSUME StoreInv, ~ListFails
    PROVE  /\ Listing = Documents \cup (IF dir = Missing THEN {}
                                        ELSE Lines(dir, Slugs(Documents)))
           /\ \A file \in Slugs(Listing) :
                 Stored(file) \subseteq Listing /\ Slugs(Stored(file)) = {file}
<1>1. CASE dir = Missing
  BY <1>1 DEF Listing, Documents, Slugs, Names
<1>2. CASE dir # Missing
  <2>1. \A m \in dir.inline : Slug[m.name] # NoSlug
    BY <1>2 DEF ListFails, Readable
  <2>2. Listing = dir.docs \cup Lines(dir, Slugs(dir.docs)) /\ Documents = dir.docs
    BY <1>2, <2>1 DEF Listing, Visible, Lines, Documents
  <2>3. ASSUME NEW file \in Slugs(Listing)
        PROVE  Stored(file) \subseteq Listing /\ Slugs(Stored(file)) = {file}
    <3>1. CASE file \in Slugs(dir.docs)
      <4>1. Stored(file) = {m \in dir.docs : Slug[m.name] = file}
        BY <2>2, <3>1 DEF Stored, Named
      <4>2. \E m \in dir.docs : Slug[m.name] = file
        BY <3>1 DEF Slugs, Names
      <4> QED BY <2>2, <4>1, <4>2 DEF Slugs, Names
    <3>2. CASE file \notin Slugs(dir.docs)
      <4>1. Stored(file) = {m \in dir.inline : Slug[m.name] = file}
        BY <1>2, <2>2, <3>2 DEF Stored, Named
      <4>2. Stored(file) \subseteq Lines(dir, Slugs(dir.docs))
        BY <3>2, <4>1 DEF Lines
      <4>3. \E m \in Listing : Slug[m.name] = file
        BY DEF Slugs, Names
      <4>4. \E m \in dir.inline : Slug[m.name] = file
        BY <2>2, <3>2, <4>3 DEF Lines, Slugs, Names
      <4> QED BY <2>2, <4>1, <4>2, <4>4 DEF Slugs, Names
    <3> QED BY <3>1, <3>2
  <2> QED BY <1>2, <2>2, <2>3
<1> QED BY <1>1, <1>2

LEMMA SlugsUnion ==
    ASSUME NEW s, NEW t
    PROVE  Slugs(s \cup t) = Slugs(s) \cup Slugs(t)
BY DEF Slugs, Names

LEMMA ReadingQuietly ==
    ASSUME LoadInv, Reading, Observe
    PROVE  ReadTypes' /\ QuietReads'
<1>1. UNCHANGED <<dir, pc, backup>> /\ StoreInv /\ ReadTypes /\ QuietReads
  BY ReadingStep DEF LoadInv
<1>2. /\ Documents' = Documents /\ Listing' = Listing /\ ListFails' = ListFails
      /\ Slugs(Documents)' = Slugs(Documents) /\ Slugs(Listing)' = Slugs(Listing)
  BY <1>1 DEF Documents, Listing, Visible, ListFails, Readable, Lines, Slugs, Names
<1>3. quiet' \in BOOLEAN /\ (quiet' /\ reader # "idle" /\ reader' # "idle" => quiet)
  BY DEF Observe
<1>4. /\ Documents \subseteq Memory /\ Listing \subseteq Memory
      /\ Slugs(Documents) \subseteq FileNames
  BY <1>1, DiskTypes, SlugTypes
<1>5. CASE Glob
  BY <1>1, <1>2, <1>3, <1>4, <1>5 DEF Glob, ReadTypes, QuietReads
<1>6. CASE ReadDocuments
  <2>1. /\ reader = "globbed" /\ UNCHANGED <<globbed, wanted, tried, given>>
        /\ \/ /\ reader' = "read"
              /\ found' = {m \in Documents : Slug[m.name] \in globbed}
           \/ reader' = "failed" /\ found' = found /\ ~(globbed \subseteq Slugs(Documents))
    BY <1>6 DEF ReadDocuments
  <2>2. globbed = Slugs(Documents) =>
            Documents = {m \in Documents : Slug[m.name] \in globbed}
    BY DEF Slugs, Names
  <2>3. found' \subseteq Memory
    BY <1>1, <1>4, <2>1 DEF ReadTypes
  <2> QED BY <1>1, <1>2, <1>3, <2>1, <2>2, <2>3 DEF ReadTypes, QuietReads
<1>7. CASE ReadIndex
  <2> DEFINE lines == IF dir = Missing THEN {} ELSE Lines(dir, globbed)
  <2>1. /\ reader = "read" /\ globbed' = {} /\ UNCHANGED <<wanted, tried, given>>
        /\ \/ ListFails /\ reader' = "failed" /\ found' = found
           \/ ~ListFails /\ reader' = "listed" /\ found' = found \cup lines
    BY <1>7 DEF ReadIndex
  <2>2. lines \subseteq Memory
    BY <1>1, DiskTypes DEF Lines
  <2>3. ~ListFails /\ globbed = Slugs(Documents) => Listing = Documents \cup lines
    BY <1>1, ListedParts
  <2> HIDE DEF lines
  <2>4. found' \subseteq Memory
    BY <1>1, <2>1, <2>2 DEF ReadTypes
  <2> QED BY <1>1, <1>2, <1>3, <2>1, <2>3, <2>4 DEF ReadTypes, QuietReads
<1>8. ASSUME NEW files \in SUBSET Slugs(found), Select(files)
      PROVE  ReadTypes' /\ QuietReads'
  <2>1. /\ reader = "listed" /\ reader' = "loading" /\ wanted' = files /\ found' = {}
        /\ UNCHANGED <<globbed, tried, given>>
    BY <1>8 DEF Select
  <2>2. files \subseteq FileNames
    BY <1>1, SlugTypes DEF ReadTypes
  <2>3. Slugs({}) = {}
    BY DEF Slugs, Names
  <2>4. ReadTypes' /\ given' = {} /\ tried' = {}
    BY <1>1, <1>3, <2>1, <2>2 DEF ReadTypes
  <2>5. Slugs(given)' = {}
    BY <2>3, <2>4
  <2>6. quiet => ~ListFails /\ files \subseteq Slugs(Listing)
    BY <1>1, <2>1 DEF QuietReads
  <2>7. QuietReads'
    BY <1>1, <1>2, <1>3, <2>1, <2>4, <2>5, <2>6 DEF QuietReads
  <2> QED BY <2>4, <2>7
<1>9. ASSUME NEW file \in wanted, LoadFile(file)
      PROVE  ReadTypes' /\ QuietReads'
  <2>1. /\ reader = "loading" /\ tried' = tried \cup {file}
        /\ UNCHANGED <<globbed, found, wanted>>
        /\ \/ ListFails /\ reader' = "failed" /\ given' = given
           \/ reader' = "loading" /\ given' = given \cup Stored(file)
    BY <1>9 DEF LoadFile
  <2>2. Stored(file) \subseteq Memory
    BY <1>1, <1>4, DiskTypes DEF Stored, Named
  <2>3. ReadTypes'
    BY <1>1, <1>3, <2>1, <2>2 DEF ReadTypes
  <2>4. Slugs(given \cup Stored(file)) = Slugs(given) \cup Slugs(Stored(file))
    BY SlugsUnion
  <2>5. quiet => ~ListFails /\ file \in Slugs(Listing)
    BY <1>1, <2>1 DEF QuietReads
  <2>6. quiet => Stored(file) \subseteq Listing /\ Slugs(Stored(file)) = {file}
    BY <1>1, <2>5, ListedParts
  <2>7. quiet /\ reader' = "loading" =>
            given' \subseteq Listing /\ Slugs(given)' = tried'
    BY <1>1, <2>1, <2>4, <2>6 DEF QuietReads
  <2> QED BY <1>1, <1>2, <1>3, <2>1, <2>3, <2>5, <2>7 DEF QuietReads
<1>10. CASE LoadEnds
  BY <1>1, <1>3, <1>10 DEF LoadEnds, NoReader, ReadTypes, QuietReads
<1> QED BY <1>5, <1>6, <1>7, <1>8, <1>9, <1>10 DEF Reading

LEMMA LoadStep ==
    ASSUME LoadInv, ~RollbackMayFail, [Next]_vars
    PROVE  LoadInv'
<1>1. StoreInv'
  BY StoreStep DEF LoadInv
<1>2. CASE UNCHANGED vars
  BY <1>1, <1>2 DEF LoadInv, ReadTypes, QuietReads, vars, diskVars, workVars, readVars,
       Documents, Listing, Visible, ListFails, Readable, Lines, Slugs, Names
<1>3. CASE Reading /\ Observe
  BY <1>1, <1>3, ReadingQuietly DEF LoadInv
<1>4. ASSUME UNCHANGED readVars, Observe
      PROVE  LoadInv'
  <2>1. ReadTypes'
    BY <1>4 DEF LoadInv, ReadTypes, readVars, Observe
  <2>2. quiet' => reader' = "idle" \/ (quiet /\ dir' = dir)
    BY <1>4 DEF Observe, readVars
  <2>3. dir' = dir =>
            /\ Documents' = Documents /\ Listing' = Listing /\ ListFails' = ListFails
            /\ Slugs(Documents)' = Slugs(Documents) /\ Slugs(Listing)' = Slugs(Listing)
    BY DEF Documents, Listing, Visible, ListFails, Readable, Lines, Slugs, Names
  <2>4. Slugs(given)' = Slugs(given)
    BY <1>4 DEF readVars, Slugs, Names
  <2>5. QuietReads'
    BY <1>4, <2>2, <2>3, <2>4 DEF LoadInv, QuietReads, readVars
  <2> QED BY <1>1, <2>1, <2>5 DEF LoadInv
<1>5. CASE Crash /\ Observe
  <2>1. NoReader /\ quiet' \in BOOLEAN
    BY <1>5 DEF Crash, Observe
  <2> QED BY <1>1, <2>1 DEF LoadInv, NoReader, ReadTypes, QuietReads
<1>6. CASE /\ Observe
           /\ \/ Recover
              \/ \E kind \in {"extract", "consolidate"} : List(kind)
              \/ \E batch \in Batches : DecideMemories(batch)
              \/ \E items \in SUBSET Memory : Merge(items)
              \/ DropBackup \/ MoveAway \/ MoveIn \/ MoveInFails
              \/ ReplacementEnds \/ MaintenanceEnds
              \/ \E m \in ByHand : EditIndex(m)
  <2>1. UNCHANGED readVars
    BY <1>6 DEF Recover, List, DecideMemories, Merge, Stage, DropBackup, MoveAway, MoveIn,
                MoveInFails, ReplacementEnds, MaintenanceEnds, EditIndex
  <2> QED BY <1>4, <1>6, <2>1
<1> QED BY <1>2, <1>3, <1>5, <1>6 DEF Next, Step, Reading

LEMMA LoadStart == Init => LoadInv
BY StoreStart DEF Init, LoadInv, ReadTypes, QuietReads

\* Every variable of the store keeps its type.
THEOREM TypeCorrect == ~RollbackMayFail => (Spec => []TypeOK)
<1> SUFFICES ASSUME ~RollbackMayFail PROVE Spec => []TypeOK
  OBVIOUS
<1>1. Init => LoadInv
  BY LoadStart
<1>2. LoadInv /\ [Next]_vars => LoadInv'
  BY LoadStep
<1>3. LoadInv => TypeOK
  BY Kinds DEF LoadInv, StoreInv, DiskInv, WorkInv, ReadTypes, FileNames, TypeOK, Good,
               Storable
<1> QED BY <1>1, <1>2, <1>3, PTL DEF Spec

\* A turn that nobody disturbs lists what there is and gets what it selects.
THEOREM QuietTurnsLoad == ~RollbackMayFail => (Spec => []QuietLoad)
<1> SUFFICES ASSUME ~RollbackMayFail PROVE Spec => []QuietLoad
  OBVIOUS
<1>1. Init => LoadInv
  BY LoadStart
<1>2. LoadInv /\ [Next]_vars => LoadInv'
  BY LoadStep
<1>3. LoadInv => QuietLoad
  BY DEF LoadInv, QuietReads, QuietLoad
<1> QED BY <1>1, <1>2, <1>3, PTL DEF Spec

-----------------------------------------------------------------------------
(***************************************************************************)
(* The promise.  What the program holds changes in the step that moves the *)
(* new directory in, and when the user edits the index; every other step   *)
(* of the worker, the crash and the recovery leave it as it is.            *)
(***************************************************************************)
PromisedJob == IF AtWork THEN job ELSE "none"

LEMMA PromiseActions ==
    /\ Kept' = Kept /\ Filed' = Filed /\ PromisedJob' = PromisedJob /\ base' = base
           => UNCHANGED Promise!vars
    /\ Kept' = Kept /\ Filed' = Filed /\ PromisedJob' = "none" /\ base' = {}
           => Promise!GiveUp
BY DEF Promise!vars, Promise!GiveUp, Promise!Finish, PromisedJob, AtWork

LEMMA SameDirectory ==
    ASSUME Holding' = Holding
    PROVE  Kept' = Kept /\ Filed' = Filed
BY DEF Kept, Filed, Visible, Lines, Slugs, Names

\* MemoryPromise counts as MemoryStore does.
LEMMA SameCount ==
    ASSUME NEW s
    PROVE  Promise!Cardinality(s) = Cardinality(s)
BY DEF Cardinality, Promise!Cardinality

LEMMA RecoverKeeps ==
    ASSUME StoreInv, Recover
    PROVE  Holding' = Holding /\ PromisedJob' = PromisedJob /\ base' = base
<1>0. /\ base' = base /\ pc = "starting" /\ pc' \in {"starting", "idle"}
      /\ PromisedJob = "none" /\ PromisedJob' = "none"
  BY DEF Recover, PromisedJob, AtWork
<1>1. CASE dir # Missing /\ RemoveBackup
  BY <1>0, <1>1 DEF RemoveBackup, Holding
<1>2. CASE dir = Missing /\ backup # Missing /\ dir' = backup /\ backup' = Missing
  BY <1>0, <1>2, HeldDirectory DEF Holding
<1>3. CASE backup = Missing /\ dir' = (IF dir = Missing THEN Empty ELSE dir)
           /\ backup' = backup
  BY <1>0, <1>3, EmptyGood, Kinds DEF Holding
<1> QED BY <1>1, <1>2, <1>3 DEF Recover

LEMMA MoveInKeepsPromise ==
    ASSUME StoreInv, StoreInv', MoveIn
    PROVE  Promise!Extract \/ Promise!Consolidate
<1>1. /\ pc = "swapping" /\ dir' = staging /\ pc' = "swapped" /\ base' = {}
      /\ Good(staging) /\ staging # Missing
      /\ job \in {"extract", "consolidate"} /\ PromisedJob = job
  BY Kinds DEF MoveIn, StoreInv, WorkInv, PromisedJob, AtWork
<1>2. Holding' = staging
  BY <1>1 DEF Holding
<1>3. Kept' = Visible(staging) /\ Filed' = staging.docs
  BY <1>1, <1>2 DEF Kept, Filed, Visible, Lines, Slugs, Names
<1>4. Storable(Kept') /\ Filed' \subseteq Kept'
  BY <1>1, <1>3, GoodVisible DEF Visible
<1>5. job = "extract" => Names(Sure) \subseteq Names(Kept')
  BY <1>1, <1>3 DEF StoreInv, WorkInv
<1>6. Promise!Replace
  BY <1>1, <1>4 DEF Promise!Replace, Promise!Finish, Storable, Apart, Promise!Apart
<1>7. CASE job = "extract"
  <2>1. Promise!Names(Promise!Sure) \subseteq Promise!Names(Kept')
    BY <1>5, <1>7 DEF Names, Sure, Promise!Names, Promise!Sure
  <2> QED BY <1>1, <1>6, <1>7, <2>1 DEF Promise!Extract, AtWork
<1>8. CASE job = "consolidate"
  BY <1>1, <1>6, <1>8 DEF Promise!Consolidate, AtWork
<1> QED BY <1>1, <1>7, <1>8

LEMMA EditKeepsPromise ==
    ASSUME StoreInv, StoreInv', NEW m \in ByHand, EditIndex(m)
    PROVE  Promise!UserWrites \/ UNCHANGED Promise!vars
<1>1. PICK lines \in {dir.inline \cup {m}, dir.inline \ {m}} :
          Apart(lines) /\ dir' = [dir EXCEPT !.inline = lines]
  BY DEF EditIndex
<1>2. /\ dir # Missing /\ Good(dir) /\ dir \in Content /\ m \in Memory
      /\ UNCHANGED <<pc, job, base>>
  BY Kinds, MemoryAssumption DEF EditIndex, StoreInv, DiskInv, workVars
<1>3. dir'.docs = dir.docs /\ dir'.inline = lines
  BY <1>1, <1>2 DEF Content
<1>4. dir' # Missing
  BY EditKeepsDirectory
<1>5. /\ Kept = dir.docs \cup {n \in dir.inline : Slug[n.name] \notin Slugs(dir.docs)
                                                  /\ Slug[n.name] # NoSlug}
      /\ Kept' = dir.docs \cup {n \in lines : Slug[n.name] \notin Slugs(dir.docs)
                                              /\ Slug[n.name] # NoSlug}
      /\ Filed = dir.docs /\ Filed' = dir.docs
  BY <1>2, <1>3, <1>4 DEF Kept, Filed, Holding, Visible, Lines
<1>6. /\ Kept' \in {Kept, Kept \cup {m}, Kept \ {m}}
      /\ m \in Filed => Kept' = Kept
  <2>1. CASE lines = dir.inline \cup {m}
    BY <1>5, <2>1
  <2>2. CASE lines = dir.inline \ {m}
    <3>1. m \in dir.docs => Slug[m.name] \in Slugs(dir.docs)
      BY DEF Slugs, Names
    <3> QED BY <1>5, <2>2, <3>1
  <2> QED BY <1>1, <2>1, <2>2
<1>7. Storable(Kept')
  <2>1. Good(dir') /\ Kept' = Visible(dir')
    BY <1>4 DEF StoreInv, DiskInv, Kept, Holding, Visible, Lines, Slugs, Names
  <2> QED BY <2>1, GoodVisible
<1>8. Promise!Apart(Kept')
  BY <1>7 DEF Storable, Apart, Promise!Apart
<1>9. PromisedJob' = PromisedJob /\ Filed' = Filed
  BY <1>2, <1>5 DEF PromisedJob, AtWork
<1>10. CASE Kept' = Kept
  BY <1>2, <1>9, <1>10, PromiseActions
<1>11. CASE Kept' # Kept
  BY <1>2, <1>6, <1>8, <1>9, <1>11 DEF Promise!UserWrites, PromisedJob, AtWork
<1> QED BY <1>10, <1>11

LEMMA WorkKeeps ==
    ASSUME StoreInv,
           \/ \E batch \in Batches : DecideMemories(batch)
           \/ \E items \in SUBSET Memory : Merge(items)
           \/ DropBackup \/ MoveAway
    PROVE  Holding' = Holding /\ PromisedJob' = PromisedJob /\ base' = base
<1> USE DEF PromisedJob, AtWork
<1>1. CASE \/ \E batch \in Batches : DecideMemories(batch)
           \/ \E items \in SUBSET Memory : Merge(items)
  BY <1>1 DEF DecideMemories, Merge, Stage, diskVars, Holding
<1>2. CASE DropBackup
  <2>1. dir # Missing
    BY <1>2 DEF DropBackup, StoreInv, DiskInv
  <2> QED BY <1>2, <2>1 DEF DropBackup, RemoveBackup, workVars, Holding
<1>3. CASE MoveAway
  <2>1. /\ dir # Missing /\ dir \in Content /\ backup' = dir /\ dir' = Missing
        /\ pc = "staged" /\ pc' = "swapping" /\ UNCHANGED <<job, base>>
    BY <1>3, Kinds DEF MoveAway, StoreInv, DiskInv
  <2> QED BY <2>1 DEF Holding
<1> QED BY <1>1, <1>2, <1>3

LEMMA GivenUp ==
    ASSUME StoreInv, ~RollbackMayFail,
           Crash \/ MoveInFails \/ ReplacementEnds \/ MaintenanceEnds
    PROVE  Promise!GiveUp
<1>1. base' = {} /\ PromisedJob' = "none"
  BY DEF Crash, MoveInFails, ReplacementEnds, MaintenanceEnds, NoJob, PromisedJob, AtWork
<1>2. Holding' = Holding
  <2>1. CASE MoveInFails
    BY <2>1, Kinds DEF MoveInFails, StoreInv, DiskInv, Holding
  <2>2. CASE ~MoveInFails
    BY <2>2 DEF Crash, ReplacementEnds, MaintenanceEnds, diskVars, Holding
  <2> QED BY <2>1, <2>2
<1> QED BY <1>1, <1>2, SameDirectory, PromiseActions

\* Whatever fails or crashes, the store changes only as MemoryPromise says: each
\* step maps to a step of it or to a stutter.
THEOREM PromiseKept == ~RollbackMayFail => (Spec => KeepsMemoryPromise)
<1> SUFFICES ASSUME ~RollbackMayFail PROVE Spec => KeepsMemoryPromise
  OBVIOUS
<1>1. Init => StoreInv
  BY StoreStart
<1>2. StoreInv /\ [Next]_vars => StoreInv'
  BY StoreStep
<1>3. Init => Promise!Init
  <2> SUFFICES ASSUME Init PROVE Promise!Init
    OBVIOUS
  <2>1. Holding = Empty /\ base = {} /\ pc = "starting"
    BY StoreStart, HeldDirectory DEF Init
  <2>2. Kept = {} /\ Filed = {}
    BY <2>1, EmptyGood DEF Kept, Filed, Empty
  <2> QED BY <2>1, <2>2 DEF Promise!Init
<1>4. StoreInv /\ StoreInv' /\ [Next]_vars => [Promise!Next]_(Promise!vars)
  <2> SUFFICES ASSUME StoreInv, StoreInv', [Next]_vars
               PROVE  Promise!Next \/ UNCHANGED Promise!vars
    OBVIOUS
  <2>1. CASE Reading \/ UNCHANGED vars
    <3>1. UNCHANGED <<dir, backup, pc, job, base>>
      BY <2>1, ReadingStep DEF vars, diskVars, workVars
    <3>2. Holding' = Holding /\ PromisedJob' = PromisedJob
      BY <3>1 DEF Holding, PromisedJob, AtWork
    <3> QED BY <3>1, <3>2, SameDirectory, PromiseActions
  <2>2. CASE Recover
    BY <2>2, RecoverKeeps, SameDirectory, PromiseActions
  <2>3. ASSUME NEW kind \in {"extract", "consolidate"}, List(kind)
        PROVE  Promise!Next
    <3>1. /\ dir # Missing /\ UNCHANGED <<dir, backup>> /\ base' = Listing
          /\ pc' = "asked" /\ job' = kind
          /\ kind = "consolidate" => Cardinality(Listing) >= Threshold
      BY <2>3 DEF List, diskVars, StoreInv, DiskInv
    <3>2. Holding' = Holding /\ Listing = Kept
      BY <3>1 DEF Holding, Kept, Listing
    <3>3. Promise!Read(kind)
      BY <3>1, <3>2, SameDirectory, SameCount DEF Promise!Read
    <3> QED BY <3>3 DEF Promise!Next
  <2>4. CASE \/ \E batch \in Batches : DecideMemories(batch)
             \/ \E items \in SUBSET Memory : Merge(items)
             \/ DropBackup \/ MoveAway
    BY <2>4, WorkKeeps, SameDirectory, PromiseActions
  <2>5. CASE MoveIn
    BY <2>5, MoveInKeepsPromise DEF Promise!Next
  <2>6. CASE Crash \/ MoveInFails \/ ReplacementEnds \/ MaintenanceEnds
    BY <2>6, GivenUp DEF Promise!Next
  <2>7. CASE \E m \in ByHand : EditIndex(m)
    BY <2>7, EditKeepsPromise DEF Promise!Next
  <2> QED BY <2>1, <2>2, <2>3, <2>4, <2>5, <2>6, <2>7 DEF Next, Step, Reading
<1> QED BY <1>1, <1>2, <1>3, <1>4, PTL DEF Spec, KeepsMemoryPromise, Promise!Spec
=============================================================================
